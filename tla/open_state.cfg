SPECIFICATION Spec
CONSTANTS
    NULL = NULL
    o1 = o1
    o2 = o2
    o3 = o3
    f1 = f1
    f2 = f2
    Workers = {w1, w2}
    Owners = {o1, o2, o3}
    NameOf <- Names
    Files = {f1, f2}
    States = {s1, s2, s3}
    Opens <- SomeOpens
    Accesses <- SomeAccesses
    Existing = {f1}
    DigestMod = 3
    LowMemory = TRUE
    MaxRequests = 5
SYMMETRY Symmetry
\* The clients stop sending (MaxRequests).
CHECK_DEADLOCK FALSE
INVARIANT TypeOK
INVARIANT ListsIntact
INVARIANT TableExact
INVARIANT AccessHonoured
PROPERTY ScanStaysInFile

SPECIFICATION Spec
CONSTANTS
    c1 = c1
    c2 = c2
    c3 = c3
    e1 = e1
    e2 = e2
    e3 = e3
    NULL = NULL
    nb_worker = 2
    Calls = {c1, c2, c3}
    CAN_BE_DUP = {c1, c2}
    Xid <- ThreeXids
    Entries = {e1, e2, e3}
    MaxSends = 2
    MaxReceived = 4
    MaxExpirations = 1
    LowMemory = TRUE
    NbCallGcInvalid = 0
SYMMETRY EntrySymmetry
INVARIANT TypeOK
INVARIANT HashedIsOwned
INVARIANT FreeIsNotListed
INVARIANT NotFreedTwice
INVARIANT RepliesAgree
\* The clients stop sending (MaxSends).
CHECK_DEADLOCK FALSE

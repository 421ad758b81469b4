SPECIFICATION Spec
CONSTANTS
    Threads <- ThreeThreads
    t1 = t1
    t2 = t2
    t3 = t3
    t4 = t4
    MaxOps = 2
    SpuriousWakeups = FALSE
INVARIANT ReaderWriterExclusion
\* Every thread may have spent its acquisitions.
CHECK_DEADLOCK FALSE

SPECIFICATION FairSpec
CONSTANTS
    Threads <- FourThreads
    t1 = t1
    t2 = t2
    t3 = t3
    t4 = t4
    MaxOps = 2
    SpuriousWakeups = TRUE
INVARIANT WriterExclusion
INVARIANT NoForgottenReader
INVARIANT NoForgottenWriter
PROPERTY WriterEntersAlone
PROPERTY EveryWaiterServed
\* Every thread may have spent its acquisitions.
CHECK_DEADLOCK FALSE

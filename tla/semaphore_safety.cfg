SPECIFICATION Spec
CONSTANTS
    t1 = t1
    t2 = t2
    t3 = t3
    t4 = t4
    t5 = t5
    Threads <- FiveThreads
    value = 2
INVARIANT CallsBounded
\* A woken thread and a newcomer may all come to wait, with the token free.
CHECK_DEADLOCK FALSE

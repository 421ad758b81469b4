SPECIFICATION FairSpec
CONSTANTS
    w1 = w1
    w2 = w2
    c1 = c1
    b1 = b1
    b2 = b2
    b3 = b3
    b4 = b4
    u1 = u1
    u2 = u2
    u3 = u3
    m1 = m1
    t1 = t1
    NULL = NULL
    Dispatcher = Dispatcher
    Workers <- OneWorker
    MountWorker = w1
    Conns <- OneConn
    Buffers = {b1, b2, b3, b4}
    UdpCalls = {u1, u2, u3}
    MountCalls <- NoCalls
    TcpCalls = {t1}
    NbBeforeGc = 0
    NbCallGcInvalid = 1
    NbMaxConcurrentGc = 1
    LowMemory = FALSE
PROPERTY TcpCommitted
\* The clients may stop sending, and the process may die.
CHECK_DEADLOCK FALSE

CONSTANTS
    n1 = n1
    p1 = p1
    p2 = p2
    t1 = t1
    t2 = t2
    a1 = a1
    a2 = a2
    Peer = {n1, p1, p2}
    PortOf <- Ports
    Thread = {t1, t2}
    Cell = {a1, a2}
    BACKLOG = 2
    Null = Null
SPECIFICATION FairSpec
INVARIANTS TypeOK OneThreadEach StuckForCause
PROPERTIES EveryoneAccepted
CHECK_DEADLOCK FALSE

CONSTANTS
    s1 = s1
    t1 = t1
    t2 = t2
    t3 = t3
    Thread = {t1, t2, t3}
    Byte = {1, 2}
    Path <- Paths
    Server = {s1}
    Calls <- OneReader
    Null = Null
    MAX_ACCESSIBLE_PATHS = 1
SPECIFICATION FairSpec
INVARIANTS TypeOK ChildIsThere
PROPERTIES IsPathMap WalksEnd

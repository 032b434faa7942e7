CONSTANTS
    p1 = p1
    p2 = p2
    p3 = p3
    s1 = s1
    s2 = s2
    n1 = n1
    n2 = n2
    n3 = n3
    Path = {p1, p2, p3}
    Server = {s1, s2}
    Node = {n1, n2, n3}
    Hash <- OneCollision
    LRU_CACHE_SIZE = 2
    Null = Null
SPECIFICATION Spec
INVARIANTS TypeOK DanglesOnlyAfterRemoval EveryEntryReachable HitIsFresh
PROPERTIES IsBoundedLRU

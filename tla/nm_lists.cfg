CONSTANTS
    p1 = p1
    p2 = p2
    p3 = p3
    s1 = s1
    s2 = s2
    n1 = n1
    n2 = n2
    n3 = n3
    c1 = c1
    c2 = c2
    Path = {p1, p2}
    Server = {s1}
    Node = {n1, n2}
    Hash <- OneCollision
    LRU_CACHE_SIZE = 2
    Null = Null
    Conn = {c1, c2}
    Operations = {"REGISTER_SS", "CREATE_FILE", "DELETE_FILE", "COPY_FILE", "LIST_PATHS", "UNKNOWN"}
    Exports <- Overlapping
    PathOrder <- ByteOrder
    RpcCode = {"SUCCESS"}
    MAX_SS = 2
    MAX_ACCESSIBLE_PATHS = 2
SPECIFICATION HSpec
INVARIANTS ListsMatchTrie
SYMMETRY ThreadsAndAddresses

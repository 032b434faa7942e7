CONSTANTS
    p1 = p1
    p2 = p2
    p3 = p3
    s1 = s1
    s2 = s2
    n1 = n1
    n2 = n2
    n3 = n3
    c1 = c1
    c2 = c2
    Path = {p1}
    Server = {s1, s2}
    Node = {n1, n2}
    Hash <- OneCollision
    LRU_CACHE_SIZE = 2
    Null = Null
    Conn = {c1, c2}
    Operations = {"REGISTER_SS", "LIST_PATHS", "UNKNOWN", "CREATE_FILE", "DELETE_FILE", "COPY_FILE", "LOOKUP"}
    Exports <- SamePath
    PathOrder <- ByteOrder
    RpcCode = {"SUCCESS", "NETWORK_ERROR"}
    MAX_SS = 2
    MAX_ACCESSIBLE_PATHS = 1
SPECIFICATION FairSpec
INVARIANTS TypeOK PointersFilled RoundRobinInRange
PROPERTIES RegistrationStable WaitsOnlyForItsCall

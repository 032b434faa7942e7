CONSTANTS
    s1 = s1
    s2 = s2
    p1 = p1
    p2 = p2
    c1 = c1
    c2 = c2
    Conn = {c1, c2}
    Asks <- OneMutator
    Server = {s1, s2}
    Path = {p1, p2}
    Exports <- OnePathEach
    Disk <- OneFile
    Null = Null
SPECIFICATION Spec
INVARIANTS TypeOK Agreement
PROPERTIES CleanRefusals AckMeansDone

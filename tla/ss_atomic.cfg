CONSTANTS
    p1 = p1
    p2 = p2
    f1 = f1
    f2 = f2
    c1 = c1
    c2 = c2
    c3 = c3
    d1 = d1
    d2 = d2
    Conn = {c1, c2}
    Path = {p1, p2}
    File = {f1, f2}
    FileOf <- OwnFile
    Data = {d1}
    Absent = Absent
    Dir = Dir
    Empty = Empty
    Partial = Partial
    Operations = {"READ_FILE", "WRITE_FILE", "GET_FILE_INFO", "CREATE_FILE", "DELETE_FILE", "COPY_FILE", "UNKNOWN"}
    DiskMayFill = TRUE
    Null = Null
SPECIFICATION Spec
PROPERTIES IsFileStore

------------------------------- MODULE MCNFS --------------------------------
(* Values for the constants of NFS. *)
EXTENDS NFS

CONSTANTS s1, s2, p1, p2, c1, c2

\* The first server brings the first path, the second server one it does not have.
OnePathEach == [s \in Server |-> IF s = s1 THEN {p1} ELSE {p2}]

OneFile == [s \in Server |-> IF s = s1 THEN {p1} ELSE {}]
\* One client deletes both paths, creates the second and copies the first to it; the other
\* reads and writes both.
OneMutator == [c \in Conn |->
    IF c = c1 THEN [op : {"DELETE_FILE"}, path : Path]
                   \cup [op : {"CREATE_FILE"}, path : {p2}]
                   \cup [op : {"COPY_FILE"}, path : {p1}, path2 : {p2}]
    ELSE [op : {"READ_FILE", "WRITE_FILE"}, path : Path]]
=============================================================================

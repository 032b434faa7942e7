--------------------------- MODULE MCNamingServer ---------------------------
(* Values for the constants of NamingServer. *)
EXTENDS NamingServer, TLC

CONSTANTS p1, p2, p3, s1, s2, n1, n2, n3, c1, c2

\* The second path has a bucket of its own, the others share one.
OneCollision == [p \in Path |-> IF p = p2 THEN 1 ELSE 0]

\* Each server brings a path of its own, or both bring the first path.
OwnPaths == [s \in Server |-> IF s = s1 THEN <<p1>> ELSE <<p2>>]
SamePath == [s \in Server |-> <<p1>>]

ByteOrder == SelectSeq(<<p1, p2, p3>>, LAMBDA p : p \in Path)
=============================================================================

-------------------------- MODULE MCNamingHistory ---------------------------
(* Values for the constants of NamingHistory. *)
EXTENDS NamingHistory, TLC

CONSTANTS p1, p2, p3, s1, s2, n1, n2, n3, c1, c2

\* The second path has a bucket of its own, the others share one.
OneCollision == [p \in Path |-> IF p = p2 THEN 1 ELSE 0]

\* Each server brings two paths, one of them both.
Overlapping == [s \in Server |-> IF s = s1 THEN <<p1, p2>> ELSE <<p2, p3>>]

ByteOrder == SelectSeq(<<p1, p2, p3>>, LAMBDA p : p \in Path)

ThreadsAndAddresses == Permutations(Conn) \cup Permutations(Node)
=============================================================================

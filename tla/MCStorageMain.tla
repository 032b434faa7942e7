--------------------------- MODULE MCStorageMain ----------------------------
(* Values for the constants of StorageMain. *)
EXTENDS StorageMain

CONSTANTS n1, p1, p2, t1, t2, a1, a2

\* The naming server at its port, two clients at theirs.
Ports == [p \in Peer |-> IF p = n1 THEN "nm" ELSE "client"]
=============================================================================

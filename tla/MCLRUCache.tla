----------------------------- MODULE MCLRUCache -----------------------------
(* Values for the constants of LRUCache. *)
EXTENDS LRUCache, TLC

CONSTANTS p1, p2, p3, s1, s2, n1, n2, n3

\* The first and the last path share a bucket, the other is alone in its own.
OneCollision == [p \in Path |-> IF p = p2 THEN 1 ELSE 0]

Addresses == Permutations(Node)
=============================================================================

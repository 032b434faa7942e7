-------------------------- MODULE MCStorageServer ---------------------------
(* Values for the constants of StorageServer. *)
EXTENDS StorageServer

CONSTANTS p1, p2, f1, f2, c1, c2, c3, d1, d2

\* Every path names a file of its own.
OwnFile == [p \in Path |-> IF p = p1 THEN f1 ELSE f2]
=============================================================================

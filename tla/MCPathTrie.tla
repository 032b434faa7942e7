----------------------------- MODULE MCPathTrie -----------------------------
(* Values for the constants of PathTrie. *)
EXTENDS PathTrie

CONSTANTS s1, t1, t2, t3

\* A path and one below it.
Paths == {<<1>>, <<1, 2>>}

\* One thread reads, the others change.
OneReader == [t \in Thread |-> {o \in Operation : o.name \in Mutations <=> t # t1}]
=============================================================================

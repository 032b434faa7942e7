----------------------------- MODULE BoundedLRU -----------------------------
(***************************************************************************)
(* What the path cache is for its callers, without nodes, buckets and      *)
(* pointers.  At most LRU_CACHE_SIZE entries are kept in order of last     *)
(* use; a get answers from an entry of its path and makes it the most      *)
(* recent one, a put replaces an entry or adds one, giving up the least    *)
(* recently used when there is no place, a removal takes one out.          *)
(*                                                                         *)
(* The paths of Sure are searched without error: an entry of such a path   *)
(* is never missed, so it never gets a second one.  For the others an      *)
(* entry may be missed.  The cache breaks down only after a removal: at a  *)
(* Sure path only after a removal of that path.                            *)
(***************************************************************************)
EXTENDS Naturals, SequencesExt

CONSTANTS Path, Server, LRU_CACHE_SIZE, Null,
          Sure        \* the paths whose entries are never missed

VARIABLES entries,    \* sequence of [path, info], most recently used first
          answer,     \* the path and result of the last get, Null otherwise
          removed,    \* the paths an entry was removed of
          broken      \* TRUE: the cache no longer works, until the restart

vars == <<entries, answer, removed, broken>>

At(p) == {i \in DOMAIN entries : entries[i].path = p}

MayMiss(p) == p \in Sure => At(p) = {}

Init == entries = << >> /\ answer = Null /\ removed = {} /\ broken = FALSE

Hit(p) == \E i \in At(p) :
    /\ entries' = <<entries[i]>> \o RemoveAt(entries, i)
    /\ answer' = [path |-> p, info |-> entries[i].info]
    /\ UNCHANGED <<removed, broken>>

Miss(p) ==
    /\ MayMiss(p)
    /\ answer' = [path |-> p, info |-> Null]
    /\ UNCHANGED <<entries, removed, broken>>

Replace(p, s) == \E i \in At(p) :
    /\ entries' = <<[path |-> p, info |-> s]>> \o RemoveAt(entries, i)
    /\ answer' = Null
    /\ UNCHANGED <<removed, broken>>

Room == IF Len(entries) = LRU_CACHE_SIZE THEN Front(entries) ELSE entries

Add(p, s) ==
    /\ MayMiss(p)
    /\ entries' = <<[path |-> p, info |-> s]>> \o Room
    /\ answer' = Null
    /\ UNCHANGED <<removed, broken>>

\* No memory for a new entry: room was made, nothing was added.
AddFails(p) ==
    /\ MayMiss(p)
    /\ entries' = Room
    /\ answer' = Null
    /\ UNCHANGED <<removed, broken>>

Forget(p) == \E i \in At(p) :
    /\ entries' = RemoveAt(entries, i)
    /\ answer' = Null
    /\ removed' = removed \cup {p}
    /\ UNCHANGED broken

ForgetNothing(p) ==
    /\ MayMiss(p)
    /\ answer' = Null
    /\ UNCHANGED <<entries, removed, broken>>

Break(p) ==
    /\ removed # {}
    /\ p \in Sure => p \in removed
    /\ broken' = TRUE
    /\ UNCHANGED <<entries, answer, removed>>

\* The process holding the cache was started again.
Restart == entries' = << >> /\ answer' = Null /\ removed' = {} /\ broken' = FALSE

Use(p) == \/ Hit(p) \/ Miss(p) \/ AddFails(p) \/ Forget(p) \/ ForgetNothing(p) \/ Break(p)
          \/ \E s \in Server : Replace(p, s) \/ Add(p, s)

Next == (~broken /\ \E p \in Path : Use(p)) \/ Restart

Spec == Init /\ [][Next]_vars
=============================================================================

------------------------------ MODULE PathMap -------------------------------
(***************************************************************************)
(* What the trie promises to the naming server: a map from paths to        *)
(* storage servers in which each operation takes effect at one moment      *)
(* between its call and its return.  A listing of all paths takes some     *)
(* time, and is the content of the map at one moment of that time.         *)
(***************************************************************************)
EXTENDS FiniteSets, Naturals

CONSTANTS Thread, Path, Server, Null,
          Calls,                  \* the operations each thread makes
          Before(_, _),           \* the order in which paths are listed
          MAX_ACCESSIBLE_PATHS    \* how many a listing has room for

VARIABLES map,      \* the server of each path, or Null
          op,       \* the operation of each thread, Null if none
          result,   \* its answer, Null while there is none
          seen      \* the contents of the map since a listing began

vars == <<map, op, result, seen>>

\* The first paths in the order of listing, as many as there is room for.
Listing(m) ==
    LET mapped == {p \in Path : m[p] # Null}
    IN  {p \in mapped : Cardinality({q \in mapped : Before(q, p)}) < MAX_ACCESSIBLE_PATHS}

Init ==
    /\ map = [p \in Path |-> Null]
    /\ op = [t \in Thread |-> Null]
    /\ result = [t \in Thread |-> Null]
    /\ seen = [t \in Thread |-> {}]

Call(t) ==
    /\ op[t] = Null
    /\ \E o \in Calls[t] : op' = [op EXCEPT ![t] = o]
    /\ UNCHANGED <<map, result, seen>>

\* A listing begins.
Begin(t) ==
    /\ op[t] # Null /\ op[t].name = "collect" /\ result[t] = Null
    /\ seen' = [seen EXCEPT ![t] = {map}]
    /\ UNCHANGED <<map, op, result>>

Answer(t, a) == result' = [result EXCEPT ![t] = [answer |-> a]]

Set(t, p, s) ==
    /\ map' = [map EXCEPT ![p] = s]
    /\ seen' = [u \in Thread |-> IF seen[u] = {} THEN {} ELSE seen[u] \cup {map'}]
    /\ Answer(t, Null)
    /\ UNCHANGED op

Do(t) ==
    /\ op[t] # Null /\ result[t] = Null
    /\ \/ op[t].name = "insert" /\ Set(t, op[t].path, op[t].server)
       \/ op[t].name = "delete" /\ Set(t, op[t].path, Null)
       \/ /\ op[t].name = "search"
          /\ Answer(t, map[op[t].path])
          /\ UNCHANGED <<map, op, seen>>
       \/ /\ op[t].name = "collect"
          /\ \E m \in seen[t] : Answer(t, Listing(m))
          /\ UNCHANGED <<map, op, seen>>

Return(t) ==
    /\ result[t] # Null
    /\ op' = [op EXCEPT ![t] = Null]
    /\ result' = [result EXCEPT ![t] = Null]
    /\ seen' = [seen EXCEPT ![t] = {}]
    /\ UNCHANGED map

Next == \E t \in Thread : Call(t) \/ Begin(t) \/ Do(t) \/ Return(t)

Spec == Init /\ [][Next]_vars
=============================================================================

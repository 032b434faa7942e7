------------------------------ MODULE PathTrie ------------------------------
(***************************************************************************)
(* The trie of the naming server (trie.c) with the locks of its nodes,     *)
(* under threads that insert, delete, search and collect.                  *)
(*                                                                         *)
(* A node stands for the bytes that lead to it.  A walk locks a node,      *)
(* looks for the next child, gives the lock up, follows the pointer and    *)
(* only then locks the child.  Collecting keeps the read locks of the      *)
(* nodes above.  The handlers of naming_server.c insert and delete under   *)
(* ss_list_mutex (:82, :190, :255, :339) and search and collect without.   *)
(* The locks are the C library's: a reader enters when no writer is        *)
(* inside, waiting writers or not.  Memory does not run out.               *)
(***************************************************************************)
EXTENDS Naturals, FiniteSets, SequencesExt

CONSTANTS
    Thread,
    Byte,                   \* the bytes that occur in paths
    Path,                   \* the paths that are used
    Server, Null,
    Calls,                  \* the operations each thread makes
    MAX_ACCESSIBLE_PATHS

\* A C string has no zero byte.
ASSUME ByteAssumption == Byte \subseteq 1 .. 255
ASSUME PathAssumption == Path \subseteq Seq(Byte) /\ IsFiniteSet(Path)

Operation == [name : {"insert"}, path : Path, server : Server]
             \cup [name : {"delete", "search"}, path : Path]
             \cup [name : {"collect"}]

ASSUME CallsAssumption == Calls \in [Thread -> SUBSET Operation]
ASSUME NullAssumption ==
    Null \notin Server \cup Thread \cup Operation
             \cup [answer : Server \cup {Null} \cup SUBSET Path]
ASSUME LimitAssumption == MAX_ACCESSIBLE_PATHS \in Nat

VARIABLES
    nodes,            \* the nodes that were created
    ss_info,          \* what each of them is mapped to
    readers, writer,  \* the threads inside the lock of each node
    ss_list_mutex,
    op, result,       \* the operation of each thread and what it returns
    pc, at, index,    \* where each thread is: current, and collect's loop over children
    paths,            \* what a collecting thread has found so far
    seen              \* history: the contents of the trie since collecting began

locks == <<readers, writer>>
vars == <<nodes, ss_info, locks, ss_list_mutex, op, result, pc, at, index, paths, seen>>

Root == << >>

Prefix == {Root} \cup UNION {{SubSeq(p, 1, i) : i \in 0 .. Len(p)} : p \in Path}

Parent(n) == SubSeq(n, 1, Len(n) - 1)

\* Depth first with children in the order of their bytes, a node before its children.
Before(q, p) == \E i \in 0 .. Len(q) :
    /\ i < Len(p) /\ SubSeq(p, 1, i) = SubSeq(q, 1, i)
    /\ i = Len(q) \/ q[i + 1] < p[i + 1]

Mutations == {"insert", "delete"}

\* The map the trie stands for.
Mapping == [p \in Path |-> ss_info[p]]

Init ==
    /\ nodes = {Root}
    /\ ss_info = [n \in Prefix |-> Null]
    /\ readers = [n \in Prefix |-> {}]
    /\ writer = [n \in Prefix |-> Null]
    /\ ss_list_mutex = Null
    /\ op = [t \in Thread |-> Null]
    /\ result = [t \in Thread |-> Null]
    /\ pc = [t \in Thread |-> "idle"]
    /\ at = [t \in Thread |-> Root]
    /\ index = [t \in Thread |-> 0]
    /\ paths = [t \in Thread |-> {}]
    /\ seen = [t \in Thread |-> {}]

Goto(t, where) == pc' = [pc EXCEPT ![t] = where]

Doing(t, where, names) == pc[t] = where /\ op[t].name \in names

Answer(t, a) == result' = [result EXCEPT ![t] = [answer |-> a]]

-----------------------------------------------------------------------------
(* Calls, from the handlers of the naming server                           *)

Call(t) ==
    /\ pc[t] = "idle"
    /\ \E o \in Calls[t] :
          /\ op' = [op EXCEPT ![t] = o]
          /\ Goto(t, IF o.name \in Mutations THEN "mutex" ELSE "lock")
    /\ UNCHANGED <<nodes, ss_info, locks, ss_list_mutex, result, at, index, paths, seen>>

TakeMutex(t) ==
    /\ pc[t] = "mutex" /\ ss_list_mutex = Null
    /\ ss_list_mutex' = t
    /\ Goto(t, "lock")
    /\ UNCHANGED <<nodes, ss_info, locks, op, result, at, index, paths, seen>>

Return(t) ==
    /\ pc[t] = "return"
    /\ Goto(t, "idle")
    /\ op' = [op EXCEPT ![t] = Null]
    /\ result' = [result EXCEPT ![t] = Null]
    /\ seen' = [seen EXCEPT ![t] = {}]
    /\ at' = [at EXCEPT ![t] = Root]
    /\ index' = [index EXCEPT ![t] = 0]
    /\ paths' = [paths EXCEPT ![t] = {}]
    /\ ss_list_mutex' = IF op[t].name \in Mutations THEN Null ELSE ss_list_mutex
    /\ UNCHANGED <<nodes, ss_info, locks>>

-----------------------------------------------------------------------------
(* The lock of a node                                                      *)

ReadLock(t, n) ==
    /\ writer[n] = Null
    /\ readers' = [readers EXCEPT ![n] = @ \cup {t}]
    /\ UNCHANGED writer

WriteLock(t, n) ==
    /\ writer[n] = Null /\ readers[n] = {}
    /\ writer' = [writer EXCEPT ![n] = t]
    /\ UNCHANGED readers

Unlock(t, n) ==
    /\ readers' = [readers EXCEPT ![n] = @ \ {t}]
    /\ writer' = [writer EXCEPT ![n] = IF @ = t THEN Null ELSE @]

-----------------------------------------------------------------------------
(* Walks along a path: insert, delete, search                              *)

LockNode(t) ==
    /\ \/ Doing(t, "lock", Mutations) /\ WriteLock(t, at[t])
       \/ Doing(t, "lock", {"search"}) /\ ReadLock(t, at[t])
    /\ Goto(t, "locked")
    /\ UNCHANGED <<nodes, ss_info, ss_list_mutex, op, result, at, index, paths, seen>>

AtEnd(t) == at[t] = op[t].path

NextNode(t) == Append(at[t], op[t].path[Len(at[t]) + 1])

\* The child is there, or an insertion creates it; then the lock is given up.
Step(t) ==
    /\ Doing(t, "locked", {"insert", "delete", "search"}) /\ ~AtEnd(t)
    /\ \/ NextNode(t) \in nodes /\ UNCHANGED nodes
       \/ /\ NextNode(t) \notin nodes /\ op[t].name = "insert"
          /\ nodes' = nodes \cup {NextNode(t)}
    /\ Unlock(t, at[t])
    /\ Goto(t, "between")
    /\ UNCHANGED <<ss_info, ss_list_mutex, op, result, at, index, paths, seen>>

\* The pointer to the child is read when the lock of its parent is no longer held.
Follow(t) ==
    /\ pc[t] = "between"
    /\ at' = [at EXCEPT ![t] = NextNode(t)]
    /\ Goto(t, "lock")
    /\ UNCHANGED <<nodes, ss_info, locks, ss_list_mutex, op, result, index, paths, seen>>

\* Variant: the early return keeps the lock.
NoSuchPath_locked(t) ==
    /\ Doing(t, "locked", {"delete", "search"}) /\ ~AtEnd(t)
    /\ NextNode(t) \notin nodes
    /\ Answer(t, Null)
    /\ Goto(t, "return")
    /\ UNCHANGED <<nodes, ss_info, locks, ss_list_mutex, op, at, index, paths, seen>>

NoSuchPath(t) ==
    /\ Doing(t, "locked", {"delete", "search"}) /\ ~AtEnd(t)
    /\ NextNode(t) \notin nodes
    /\ Unlock(t, at[t])
    /\ Answer(t, Null)
    /\ Goto(t, "return")
    /\ UNCHANGED <<nodes, ss_info, ss_list_mutex, op, at, index, paths, seen>>

\* The listings under way.
Noticed == seen' = [t \in Thread |-> IF seen[t] = {} THEN {} ELSE seen[t] \cup {Mapping'}]

NewInfo(t) == IF op[t].name = "insert" THEN op[t].server ELSE Null

\* Variant: a deletion frees the node if it has no children.
Store_pruning(t) ==
    /\ Doing(t, "locked", Mutations) /\ AtEnd(t)
    /\ ss_info' = [ss_info EXCEPT ![at[t]] = NewInfo(t)]
    /\ nodes' = IF op[t].name = "delete" /\ \A n \in nodes : n = Root \/ Parent(n) # at[t]
                THEN nodes \ {at[t]} ELSE nodes
    /\ Unlock(t, at[t])
    /\ Noticed
    /\ Answer(t, Null)
    /\ Goto(t, "return")
    /\ UNCHANGED <<ss_list_mutex, op, at, index, paths>>

Store(t) ==
    /\ Doing(t, "locked", Mutations) /\ AtEnd(t)
    /\ ss_info' = [ss_info EXCEPT ![at[t]] = NewInfo(t)]
    /\ Unlock(t, at[t])
    /\ Noticed
    /\ Answer(t, Null)
    /\ Goto(t, "return")
    /\ UNCHANGED <<nodes, ss_list_mutex, op, at, index, paths>>

Find(t) ==
    /\ Doing(t, "locked", {"search"}) /\ AtEnd(t)
    /\ Unlock(t, at[t])
    /\ Answer(t, ss_info[at[t]])
    /\ Goto(t, "return")
    /\ UNCHANGED <<nodes, ss_info, ss_list_mutex, op, at, index, paths, seen>>

-----------------------------------------------------------------------------
(* trie_collect_paths                                                      *)

\* Variant: a node's path is taken whether it is mapped or not.
Collected_unmapped(t, n) ==
    IF Cardinality(paths[t]) < MAX_ACCESSIBLE_PATHS THEN paths[t] \cup {n} ELSE paths[t]

Collected(t, n) ==
    IF ss_info[n] # Null /\ Cardinality(paths[t]) < MAX_ACCESSIBLE_PATHS
    THEN paths[t] \cup {n} ELSE paths[t]

\* The call for a node: its lock, and its path if it is mapped and there is room.
Visit(t) ==
    /\ Doing(t, "lock", {"collect"})
    /\ ReadLock(t, at[t])
    /\ paths' = [paths EXCEPT ![t] = Collected(t, at[t])]
    /\ index' = [index EXCEPT ![t] = 0]
    /\ seen' = IF at[t] = Root THEN [seen EXCEPT ![t] = {Mapping}] ELSE seen
    /\ Goto(t, "locked")
    /\ UNCHANGED <<nodes, ss_info, ss_list_mutex, op, result, at>>

\* The children the loop has still to come to.
Ahead(t) == {b \in Byte : b > index[t] /\ Append(at[t], b) \in nodes}

\* Variant: the lock of a node is given up before its children are visited.
Descend_unlocking(t) ==
    /\ Doing(t, "locked", {"collect"})
    /\ \E b \in Ahead(t) : /\ \A a \in Ahead(t) : b <= a
                           /\ at' = [at EXCEPT ![t] = Append(@, b)]
    /\ Unlock(t, at[t])
    /\ Goto(t, "lock")
    /\ UNCHANGED <<nodes, ss_info, ss_list_mutex, op, result, index, paths, seen>>

Descend(t) ==
    /\ Doing(t, "locked", {"collect"})
    /\ \E b \in Ahead(t) : /\ \A a \in Ahead(t) : b <= a
                           /\ at' = [at EXCEPT ![t] = Append(@, b)]
    /\ Goto(t, "lock")
    /\ UNCHANGED <<nodes, ss_info, locks, ss_list_mutex, op, result, index, paths, seen>>

\* The loop is over: back to the loop of the parent, or to the caller.
Ascend(t) ==
    /\ Doing(t, "locked", {"collect"}) /\ Ahead(t) = {}
    /\ Unlock(t, at[t])
    /\ \/ /\ at[t] # Root
          /\ at' = [at EXCEPT ![t] = Parent(@)]
          /\ index' = [index EXCEPT ![t] = Last(at[t])]
          /\ UNCHANGED <<pc, result>>
       \/ /\ at[t] = Root
          /\ Answer(t, paths[t])
          /\ Goto(t, "return")
          /\ UNCHANGED <<at, index>>
    /\ UNCHANGED <<nodes, ss_info, ss_list_mutex, op, paths, seen>>

-----------------------------------------------------------------------------
\* What a thread does on its own, and what it does when a lock lets it.
Run(t) == \/ Step(t) \/ Follow(t) \/ NoSuchPath(t) \/ Store(t) \/ Find(t)
          \/ Descend(t) \/ Ascend(t) \/ Return(t)
Wait(t) == TakeMutex(t) \/ LockNode(t) \/ Visit(t)

Next == \E t \in Thread : Call(t) \/ Run(t) \/ Wait(t)

Spec == Init /\ [][Next]_vars

\* Threads are scheduled, and one that waits for a lock that becomes free again and
\* again gets it.  Nothing is assumed of new calls.
Fairness == \A t \in Thread : WF_vars(Run(t)) /\ SF_vars(Wait(t))

FairSpec == Spec /\ Fairness

-----------------------------------------------------------------------------
Location == {"idle", "mutex", "lock", "locked", "between", "return"}

\* Type invariant.
TypeOK ==
    /\ nodes \subseteq Prefix
    /\ ss_info \in [Prefix -> Server \cup {Null}]
    /\ readers \in [Prefix -> SUBSET Thread]
    /\ writer \in [Prefix -> Thread \cup {Null}]
    /\ ss_list_mutex \in Thread \cup {Null}
    /\ op \in [Thread -> Operation \cup {Null}]
    /\ result \in [Thread -> [answer : Server \cup {Null} \cup SUBSET Path] \cup {Null}]
    /\ pc \in [Thread -> Location]
    /\ at \in [Thread -> Prefix]
    /\ index \in [Thread -> 0 .. 255]
    /\ paths \in [Thread -> SUBSET Path]
    /\ seen \in [Thread -> SUBSET [Path -> Server \cup {Null}]]

\* A pointer to a child that was seen under the parent's lock still leads to a node when
\* it is followed without it, whatever was inserted and deleted meanwhile: no walk ends
\* in a null pointer (trie.c:27-29, :46-48, :109-111).
ChildIsThere == \A t \in Thread : pc[t] = "between" => NextNode(t) \in nodes

\* Each operation takes effect at one moment: a search that passes a mutation between
\* two of its locks, and a listing that passes one between two of its nodes, answer from
\* one content of the map (trie.c:36-53, :69-90).
Promise == INSTANCE PathMap WITH map <- Mapping

IsPathMap == Promise!Spec

\* Every search and every listing ends, and a mutation too unless readers are inside the
\* node it waits for again and again (trie.c:20, :29, :101, :111).
KeptOut(t) == Doing(t, "lock", Mutations) /\ readers[at[t]] # {}

WalksEnd == \A t \in Thread :
    op[t] # Null ~> \/ op[t] = Null
                    \/ op[t].name \in Mutations /\ \E u \in Thread : KeptOut(u)
=============================================================================

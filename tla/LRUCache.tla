------------------------------ MODULE LRUCache ------------------------------
(***************************************************************************)
(* The path cache as a component (lru_cache.c).  Every operation holds     *)
(* cache->lock from its first to its last access, so one operation is one  *)
(* step.  Callers may issue them in any order: the naming server's threads *)
(* put what they found in the trie and remove what they deleted, and two   *)
(* of them may put the same path one after the other.                      *)
(*                                                                         *)
(* Reading a freed node is undefined: from then on the process may do      *)
(* anything.  The step that would read one sets fault instead and the only *)
(* step left is a restart, which begins with lru_init again.  What is said *)
(* of the cache is said of its behaviour up to that step.                  *)
(*                                                                         *)
(* A bucket remembers one node.  When two paths share a bucket, an entry   *)
(* can be lost to the search, and found again after the path got a second  *)
(* one.  What is said of lookups is said of the paths that are alone in    *)
(* their bucket, whatever the others do to each other.                     *)
(***************************************************************************)
EXTENDS LRUList

VARIABLES
    cache,    \* the LRUCache structure
    fault,    \* TRUE: a freed node was read
    answer,   \* the path and result of the last lru_get, Null otherwise
    latest,   \* history: server last put for a path and not removed since
    removed   \* history: the paths of which lru_remove took a node out

vars == <<cache, fault, answer, latest, removed>>

Init ==
    /\ cache = EmptyCache
    /\ fault = FALSE
    /\ answer = Null
    /\ latest = [p \in Path |-> Null]
    /\ removed = {}

\* The scan for p reads a freed node.
Fault(p) ==
    /\ Dangling(cache, p)
    /\ fault' = TRUE
    /\ UNCHANGED <<cache, answer, latest, removed>>

Get(p) ==
    /\ ~Dangling(cache, p)
    /\ cache' = lru_get(cache, p)
    /\ answer' = [path |-> p,
                  info |-> IF Found(cache, p) = Null THEN Null
                           ELSE cache.info[Found(cache, p)]]
    /\ UNCHANGED <<fault, latest, removed>>

Put(p, s) ==
    /\ ~Dangling(cache, p)
    /\ \E n \in Fresh(cache) : cache' = lru_put(cache, p, s, n)
    /\ answer' = Null
    /\ latest' = [latest EXCEPT ![p] = s]
    /\ UNCHANGED <<fault, removed>>

Forget(p) ==
    /\ ~Dangling(cache, p)
    /\ cache' = lru_remove(cache, p)
    /\ answer' = Null
    /\ latest' = [latest EXCEPT ![p] = Null]
    /\ removed' = IF Found(cache, p) = Null THEN removed ELSE removed \cup {p}
    /\ UNCHANGED fault

Restart ==
    /\ cache' = EmptyCache
    /\ fault' = FALSE
    /\ answer' = Null
    /\ latest' = [p \in Path |-> Null]
    /\ removed' = {}

Use(p) == Get(p) \/ Forget(p) \/ Fault(p) \/ \E s \in Server : Put(p, s)

Next == (~fault /\ \E p \in Path : Use(p)) \/ Restart

Spec == Init /\ [][Next]_vars

-----------------------------------------------------------------------------
\* Type invariant, with the shape of the list and its nodes.
TypeOK ==
    /\ WellFormed(cache)
    /\ fault \in BOOLEAN
    /\ answer \in [path : Path, info : Server \cup {Null}] \cup {Null}
    /\ latest \in [Path -> Server \cup {Null}]
    /\ removed \subseteq Path

\* map[] never keeps the address of a node that lru_put or lru_remove freed, so
\* no later scan reads freed memory (lru_cache.c:100 and :151).
MapNeverDangles == \A b \in Bucket : cache.map[b] \in Live(cache) \cup {Null}

\* A bucket whose paths were never removed does not dangle, whatever was evicted from
\* it, lost in it or removed from other buckets (lru_cache.c:98-101, :155).
DanglesOnlyAfterRemoval == \A b \in Bucket :
    (\A p \in removed : Hash[p] # b) => cache.map[b] \in Live(cache) \cup {Null}

\* Whatever lru_get would return for a path alone in its bucket is what the last
\* lru_put stored for it, and nothing once lru_remove took it out (lru_cache.h:35),
\* although removals point its bucket at nodes of other buckets.
HitIsFresh == \A p \in Path : Alone(p) /\ ~fault /\ ~Dangling(cache, p) =>
    LET n == Found(cache, p) IN n # Null => cache.info[n] = latest[p]

\* Every entry of a path alone in its bucket can be found again, whatever collisions,
\* removals and evictions do around it: the scan of lru_get reaches it (lru_cache.c:63).
EveryEntryReachable == \A n \in Live(cache) :
    Alone(cache.path[n]) => Found(cache, cache.path[n]) = n

\* The cache is the one of BoundedLRU: it evicts in order of last use, it never misses
\* a path alone in its bucket, and its first read of freed memory comes after a removal.
EntriesOf(c) == [i \in DOMAIN c.list |-> [path |-> c.path[c.list[i]],
                                          info |-> c.info[c.list[i]]]]

entries == EntriesOf(cache)

Promise == INSTANCE BoundedLRU WITH Sure <- {p \in Path : Alone(p)}, broken <- fault

IsBoundedLRU == Promise!Spec

=============================================================================

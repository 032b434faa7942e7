------------------------------- MODULE LRUList -------------------------------
(***************************************************************************)
(* The path cache of the naming server (lru_cache.c, lru_cache.h) as pure  *)
(* operators on a cache record.  A record c holds                          *)
(*   list   the doubly linked list from head (most recently used) to tail; *)
(*          a sequence stands for head, tail, the prev/next links and count*)
(*   path   the path stored in each allocated node                         *)
(*   info   the server stored in each allocated node (its ss_info copy)    *)
(*   map    for each bucket the one node pointer the array map[] holds     *)
(*                                                                         *)
(* Node is the set of addresses malloc can return: a freed address may be  *)
(* handed out again.  Nothing else in the code remembers a freed node, so  *)
(* path and info are Null for it; map[] may still point at it.             *)
(*                                                                         *)
(* The module has no state of its own: LRUCache drives these operators as  *)
(* one component, NamingServer calls them as its connection threads do.    *)
(***************************************************************************)
EXTENDS Naturals, FiniteSets, SequencesExt

CONSTANTS
    Path,            \* the paths clients name
    Server,          \* the storage servers, each an (ip, client_port) pair
    Node,            \* addresses of cache nodes
    Hash,            \* the value hash_path computes for each path
    LRU_CACHE_SIZE,
    Null

\* map[] has as many buckets as the cache has places.
Bucket == 0 .. LRU_CACHE_SIZE - 1

ASSUME HashAssumption == Hash \in [Path -> Bucket]

\* With one single slot the eviction in lru_put would leave head on the freed
\* node; lru_cache.h fixes the size at 100.
ASSUME SizeAssumption == LRU_CACHE_SIZE \in Nat /\ LRU_CACHE_SIZE >= 2

ASSUME NullAssumption == Null \notin Node /\ Null \notin Path /\ Null \notin Server

hash_path(p) == Hash[p]

\* No other path in use has the bucket of p.
Alone(p) == \A q \in Path \ {p} : Hash[q] # Hash[p]

CacheType == [list : Seq(Node),
              path : [Node -> Path \cup {Null}],
              info : [Node -> Server \cup {Null}],
              map  : [Bucket -> Node \cup {Null}]]

EmptyCache == [list |-> << >>,
               path |-> [n \in Node |-> Null],
               info |-> [n \in Node |-> Null],
               map  |-> [b \in Bucket |-> Null]]

Live(c) == ToSet(c.list)

\* The shape every operation keeps: the list holds distinct allocated nodes within
\* the limit, and exactly the nodes in the list hold a path and a server.
WellFormed(c) ==
    /\ c \in CacheType
    /\ IsInjective(c.list) /\ Len(c.list) <= LRU_CACHE_SIZE
    /\ \A n \in Node : /\ n \in Live(c) <=> c.path[n] # Null
                       /\ n \in Live(c) <=> c.info[n] # Null

-----------------------------------------------------------------------------
(***************************************************************************)
(* The search shared by lru_get, lru_put and lru_remove: start at the node *)
(* map[] gives for the path's bucket and follow next, which is the         *)
(* recency list and not a chain of the bucket, to the tail.                *)
(***************************************************************************)
Start(c, p) == c.map[hash_path(p)]

\* The first dereference of the scan reads a node that was freed.
Dangling(c, p) == Start(c, p) \notin Live(c) \cup {Null}

Position(c, n) == CHOOSE i \in DOMAIN c.list : c.list[i] = n

Matches(c, p) == {i \in DOMAIN c.list : i >= Position(c, Start(c, p))
                                        /\ c.path[c.list[i]] = p}

Found(c, p) == IF Start(c, p) = Null \/ Matches(c, p) = {}
               THEN Null
               ELSE c.list[Min(Matches(c, p))]

-----------------------------------------------------------------------------
\* Unlinking a node leaves the rest of the list in its order.
Unlink(c, n) == RemoveAt(c.list, Position(c, n))

move_to_front(c, n) == [c EXCEPT !.list = <<n>> \o Unlink(c, n)]

\* Variant: a hit that does not count as a use.
lru_get_in_place(c, p) == c

\* A hit becomes the most recently used entry; a miss changes nothing.
lru_get(c, p) == IF Found(c, p) = Null THEN c ELSE move_to_front(c, Found(c, p))

Freed(c, n) == [c EXCEPT !.path[n] = Null, !.info[n] = Null]

\* Variant: an eviction that leaves map[] alone.
Evict_mapped(c) == [Freed(c, Last(c.list)) EXCEPT !.list = Front(c.list)]

\* A full cache gives up its tail, and the bucket entry that points at it.
Evict(c) ==
    LET t == Last(c.list)
        b == hash_path(c.path[t])
    IN  [Freed(c, t) EXCEPT !.list = Front(c.list),
                            !.map[b] = IF @ = t THEN Null ELSE @]

\* Variant: room is made one entry too late.
MakeRoom_late(c) == IF Len(c.list) > LRU_CACHE_SIZE THEN Evict(c) ELSE c

MakeRoom(c) == IF Len(c.list) = LRU_CACHE_SIZE THEN Evict(c) ELSE c

\* Variant: a path put again keeps the server of the first put.
Refresh_order_only(c, n, s) == move_to_front(c, n)

Refresh(c, n, s) == move_to_front([c EXCEPT !.info[n] = s], n)

\* Variant: an insertion that takes its bucket only when the bucket was empty.
Insert_behind(c, p, s, n) ==
    [list |-> <<n>> \o c.list,
     path |-> [c.path EXCEPT ![n] = p],
     info |-> [c.info EXCEPT ![n] = s],
     map  |-> [c.map EXCEPT ![hash_path(p)] = IF @ = Null THEN n ELSE @]]

\* A new node takes over its bucket's entry in map[], whatever was there.
Insert(c, p, s, n) == [list |-> <<n>> \o c.list,
                       path |-> [c.path EXCEPT ![n] = p],
                       info |-> [c.info EXCEPT ![n] = s],
                       map  |-> [c.map EXCEPT ![hash_path(p)] = n]]

\* What malloc may return: an address not in use, or Null.  The tail that is
\* evicted is freed before the call.
Fresh(c) == (Node \ Live(MakeRoom(c))) \cup {Null}

lru_put(c, p, s, n) ==
    IF Found(c, p) # Null THEN Refresh(c, Found(c, p), s)
    ELSE IF n = Null THEN MakeRoom(c)
    ELSE Insert(MakeRoom(c), p, s, n)

\* The node after n in the list, Null at the tail.
Successor(c, n) == IF n = Last(c.list) THEN Null ELSE c.list[Position(c, n) + 1]

\* A node that is the first of its scan is replaced in map[] by its list
\* neighbour, which may belong to another bucket.
Unmap(c, p, n) == IF Start(c, p) = n
                  THEN [c.map EXCEPT ![hash_path(p)] = Successor(c, n)]
                  ELSE c.map

lru_remove(c, p) ==
    LET n == Found(c, p)
    IN  IF n = Null THEN c
        ELSE [Freed(c, n) EXCEPT !.list = Unlink(c, n),
                                 !.map = Unmap(c, p, n)]

=============================================================================

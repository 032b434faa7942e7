--------------------------- MODULE LRUCacheProofs ---------------------------
(***************************************************************************)
(* Theorems about the path cache as a component, for every set of paths,   *)
(* servers and nodes, every size and every hash.  None assumes anything of *)
(* the hash: the lookups they speak of are those of a path alone in its    *)
(* bucket, and the other paths may share theirs, be evicted and be removed *)
(* in any order.  The last says what the cache is for its callers.         *)
(***************************************************************************)
EXTENDS LRUCache, LRUListProofs

\* Any operation leaves the cache well formed and the variables typed.
LEMMA TypeStep ==
    ASSUME TypeOK, [Next]_vars
    PROVE  TypeOK'
<1> USE DEF TypeOK
<1>1. ASSUME NEW p \in Path, Get(p) PROVE TypeOK'
  <2>1. WellFormed(cache')
    BY <1>1, GetFacts DEF Get
  <2>2. Found(cache, p) # Null => cache.info[Found(cache, p)] \in Server \cup {Null}
    BY FoundFacts DEF WellFormed, CacheType
  <2> QED
    BY <1>1, <2>1, <2>2 DEF Get
<1>2. ASSUME NEW p \in Path, NEW s \in Server, Put(p, s) PROVE TypeOK'
  BY <1>2, PutFacts DEF Put
<1>3. ASSUME NEW p \in Path, Forget(p) PROVE TypeOK'
  <2>1. WellFormed(cache')
    BY <1>3, RemoveFacts DEF Forget, lru_remove
  <2> QED
    BY <1>3, <2>1 DEF Forget
<1>4. ASSUME NEW p \in Path, Fault(p) PROVE TypeOK'
  BY <1>4 DEF Fault
<1>5. CASE Restart
  BY <1>5, EmptyFacts DEF Restart
<1>6. CASE UNCHANGED vars
  BY <1>6 DEF vars
<1> QED
  BY <1>1, <1>2, <1>3, <1>4, <1>5, <1>6 DEF Next, Use

\* The initial state is typed.
LEMMA TypeInit == Init => TypeOK
BY EmptyFacts DEF Init, TypeOK

\* The cache and the history keep their types, and the list its shape, whatever the
\* callers of lru_get, lru_put and lru_remove do (lru_cache.c).
THEOREM TypeCorrect == Spec => []TypeOK
BY TypeInit, TypeStep, PTL DEF Spec

-----------------------------------------------------------------------------
(***************************************************************************)
(* The invariant has three parts.  Homed: a bucket whose paths were never  *)
(* removed points at a node of its own.  Indexed: the node of a path alone *)
(* in its bucket is what the bucket points at, removals included.          *)
(* Current: that node holds the server last put.  Indexed is what makes    *)
(* Current inductive: a put that finds nothing would otherwise leave an    *)
(* old node of the path in the list.                                       *)
(***************************************************************************)
NeverRemoved(b) == \A p \in removed : Hash[p] # b

Homed == \A b \in Bucket : NeverRemoved(b) => HomedIn(cache, b)

Indexed == IndexedIn(cache)

Current == \A n \in Live(cache) :
    Alone(cache.path[n]) => cache.info[n] = latest[cache.path[n]]

Parts == Homed /\ Indexed /\ Current

Inv == TypeOK /\ Parts

\* An empty cache has nothing to be wrong about.
LEMMA EmptyParts ==
    ASSUME cache = EmptyCache
    PROVE  Parts
BY EmptyFacts DEF Parts, Homed, HomedIn, Indexed, IndexedIn, Current, EmptyCache

\* The initial state satisfies the invariant.
LEMMA InvInit == Init => Inv
BY TypeInit, EmptyParts DEF Init, Inv

\* lru_get changes nothing but the order of the list.
LEMMA InvGet ==
    ASSUME Inv, NEW p \in Path, Get(p)
    PROVE  Parts'
<1>1. /\ WellFormed(cache) /\ cache' = lru_get(cache, p)
      /\ latest' = latest /\ removed' = removed
  BY DEF Inv, TypeOK, Get
<1>2. /\ Live(cache') = Live(cache) /\ cache'.path = cache.path
      /\ cache'.info = cache.info /\ cache'.map = cache.map
  BY <1>1, GetFacts
<1>3. Indexed' /\ Current'
  BY <1>1, <1>2 DEF Inv, Parts, Indexed, IndexedIn, Current
<1>4. ASSUME NEW b \in Bucket, NeverRemoved(b)' PROVE HomedIn(cache', b)
  <2>1. HomedIn(cache, b)
    BY <1>1, <1>4 DEF Inv, Parts, Homed, NeverRemoved
  <2> QED
    BY <1>1, <2>1, GetHomed
<1>5. Homed'
  BY <1>4 DEF Homed
<1> QED
  BY <1>3, <1>5 DEF Parts

\* lru_put leaves every node of a path alone in its bucket holding the latest server.
LEMMA InvPut ==
    ASSUME Inv, NEW p \in Path, NEW s \in Server, Put(p, s)
    PROVE  Parts'
<1> PICK n \in Fresh(cache) : cache' = lru_put(cache, p, s, n)
  BY DEF Put
<1>1. /\ latest \in [Path -> Server \cup {Null}] /\ latest' = [latest EXCEPT ![p] = s]
      /\ removed' = removed /\ WellFormed(cache)
  BY DEF Inv, TypeOK, Put
<1>2. \A k \in Live(cache) : /\ cache.path[k] \in Path
                             /\ Alone(cache.path[k]) =>
                                    cache.info[k] = latest[cache.path[k]]
  BY <1>1, LiveFacts DEF Inv, Parts, Current
<1>3. /\ IndexedIn(cache')
      /\ \A k \in Live(cache') :
             \/ cache'.path[k] = p /\ cache'.info[k] = s
             \/ /\ k \in Live(cache) /\ (Alone(p) => cache.path[k] # p)
                /\ cache'.path[k] = cache.path[k] /\ cache'.info[k] = cache.info[k]
  BY PutIndexed DEF Inv, TypeOK, Parts, Indexed
<1>4. ASSUME NEW b \in Bucket, NeverRemoved(b)' PROVE HomedIn(cache', b)
  <2>1. HomedIn(cache, b)
    BY <1>1, <1>4 DEF Inv, Parts, Homed, NeverRemoved
  <2> QED
    BY <1>1, <2>1, PutHomed
<1>5. Homed'
  BY <1>4 DEF Homed
<1>6. ASSUME NEW k \in Live(cache'), Alone(cache'.path[k])
      PROVE  cache'.info[k] = latest'[cache'.path[k]]
  BY <1>1, <1>2, <1>3, <1>6
<1>7. Current'
  BY <1>6 DEF Current
<1> QED
  BY <1>3, <1>5, <1>7 DEF Indexed, Parts

\* lru_remove leaves no node of the path when it is alone in its bucket, and touches no
\* bucket but that of the path.
LEMMA InvForget ==
    ASSUME Inv, NEW p \in Path, Forget(p)
    PROVE  Parts'
<1>1. /\ latest \in [Path -> Server \cup {Null}] /\ latest' = [latest EXCEPT ![p] = Null]
      /\ cache' = lru_remove(cache, p) /\ WellFormed(cache)
      /\ removed' = IF Found(cache, p) = Null THEN removed ELSE removed \cup {p}
  BY DEF Inv, TypeOK, Forget
<1>2. \A k \in Live(cache) : /\ cache.path[k] \in Path
                             /\ Alone(cache.path[k]) =>
                                    cache.info[k] = latest[cache.path[k]]
  BY <1>1, LiveFacts DEF Inv, Parts, Current
<1>3. /\ IndexedIn(cache')
      /\ \A k \in Live(cache') : /\ k \in Live(cache) /\ (Alone(p) => cache.path[k] # p)
                                 /\ cache'.path[k] = cache.path[k]
                                 /\ cache'.info[k] = cache.info[k]
  BY <1>1, RemoveIndexed DEF Inv, Parts, Indexed
<1>4. ASSUME NEW b \in Bucket, NeverRemoved(b)' PROVE HomedIn(cache', b)
  <2>1. HomedIn(cache, b)
    BY <1>1, <1>4 DEF Inv, Parts, Homed, NeverRemoved
  <2>2. CASE Found(cache, p) = Null
    BY <1>1, <2>1, <2>2 DEF lru_remove
  <2>3. CASE Found(cache, p) # Null
    BY <1>1, <1>4, <2>1, <2>3, RemoveHomed DEF NeverRemoved, hash_path
  <2> QED
    BY <2>2, <2>3
<1>5. Homed'
  BY <1>4 DEF Homed
<1>6. ASSUME NEW k \in Live(cache'), Alone(cache'.path[k])
      PROVE  cache'.info[k] = latest'[cache'.path[k]]
  BY <1>1, <1>2, <1>3, <1>6
<1>7. Current'
  BY <1>6 DEF Current
<1> QED
  BY <1>3, <1>5, <1>7 DEF Indexed, Parts

\* Every operation preserves the invariant.
LEMMA InvStep ==
    ASSUME Inv, [Next]_vars
    PROVE  Inv'
<1>1. TypeOK'
  BY TypeStep DEF Inv
<1>2. ASSUME NEW p \in Path, Get(p) PROVE Parts'
  BY <1>2, InvGet
<1>3. ASSUME NEW p \in Path, NEW s \in Server, Put(p, s) PROVE Parts'
  BY <1>3, InvPut
<1>4. ASSUME NEW p \in Path, Forget(p) PROVE Parts'
  BY <1>4, InvForget
<1>5. ASSUME NEW p \in Path, Fault(p) PROVE Parts'
  BY <1>5 DEF Inv, Fault, Parts, Homed, NeverRemoved, Indexed, IndexedIn, Current
<1>6. CASE Restart
  <2>1. cache' = EmptyCache /\ Live(cache') = {}
    BY <1>6, EmptyFacts DEF Restart
  <2>2. IndexedIn(cache') /\ Current'
    BY <2>1 DEF IndexedIn, Current
  <2>3. \A b \in Bucket : HomedIn(cache', b)
    BY <2>1 DEF HomedIn, EmptyCache
  <2> QED
    BY <1>1, <2>2, <2>3 DEF Inv, Parts, Homed, Indexed
<1>7. CASE UNCHANGED vars
  <2>1. cache' = cache /\ latest' = latest /\ removed' = removed
    BY <1>7 DEF vars
  <2>2. Indexed'
    BY <2>1 DEF Inv, Parts, Indexed
  <2>3. Current'
    BY <2>1 DEF Inv, Parts, Current
  <2>4. Homed'
    BY <2>1 DEF Inv, Parts, Homed, NeverRemoved
  <2> QED
    BY <1>1, <2>2, <2>3, <2>4 DEF Inv, Parts
<1> QED
  BY <1>1, <1>2, <1>3, <1>4, <1>5, <1>6, <1>7 DEF Inv, Next, Use

\* For any hash and any order of operations, a bucket that keeps the address of a freed
\* node is one of which a path was removed: no eviction and no collision leaves one
\* behind (lru_cache.c:94-109, :155).
THEOREM DanglingSafety == Spec => []DanglesOnlyAfterRemoval
<1>1. Inv => DanglesOnlyAfterRemoval
  BY DEF Inv, Parts, Homed, NeverRemoved, HomedIn, DanglesOnlyAfterRemoval
<1> QED
  BY <1>1, InvInit, InvStep, PTL DEF Spec

\* For any hash, the entry of a path alone in its bucket is found by the scan that looks
\* for the path, whatever collisions, evictions and removals do to the other buckets and
\* to the order of the list (lru_cache.c:61-66, :132).
THEOREM Reachability == Spec => []EveryEntryReachable
<1>1. Inv => EveryEntryReachable
  BY IndexedFacts DEF Inv, TypeOK, Parts, Indexed, EveryEntryReachable
<1> QED
  BY <1>1, InvInit, InvStep, PTL DEF Spec

\* For any hash, a hit on a path alone in its bucket returns the server last put for it,
\* and the path is not found once it was removed (lru_cache.c:68-71, :138-176).
THEOREM Freshness == Spec => []HitIsFresh
<1>1. Inv => HitIsFresh
  BY FoundFacts DEF Inv, TypeOK, Parts, Current, HitIsFresh
<1> QED
  BY <1>1, InvInit, InvStep, PTL DEF Spec

-----------------------------------------------------------------------------
(***************************************************************************)
(* The bounded cache of BoundedLRU: its entries are the nodes of the list, *)
(* in their order, each with its path and its server.  Whatever the search *)
(* finds is an entry of the path; when it finds nothing and the path is    *)
(* alone in its bucket there is none, by Indexed.  That the cache breaks   *)
(* only after a removal is Homed.                                          *)
(***************************************************************************)
Entry == [path : Path, info : Server]

\* The entries of a well-formed cache, place by place.
LEMMA EntriesFacts ==
    ASSUME NEW c, WellFormed(c)
    PROVE  /\ Len(c.list) \in Nat /\ DOMAIN c.list = 1 .. Len(c.list)
           /\ c.list \in Seq(Node) /\ DOMAIN EntriesOf(c) = 1 .. Len(c.list)
           /\ EntriesOf(c) \in Seq(Entry)
           /\ Len(EntriesOf(c)) = Len(c.list)
           /\ \A i \in 1 .. Len(c.list) :
                  /\ c.list[i] \in Live(c)
                  /\ EntriesOf(c)[i] = [path |-> c.path[c.list[i]], info |-> c.info[c.list[i]]]
                  /\ EntriesOf(c)[i].path = c.path[c.list[i]]
                  /\ EntriesOf(c)[i].info = c.info[c.list[i]]
<1>1. /\ c.list \in Seq(Node) /\ c.path \in [Node -> Path \cup {Null}]
      /\ c.info \in [Node -> Server \cup {Null}]
  BY DEF WellFormed, CacheType
<1>2. Len(c.list) \in Nat /\ DOMAIN c.list = 1 .. Len(c.list)
  BY <1>1
<1>3. \A i \in 1 .. Len(c.list) : c.list[i] \in Live(c) /\ c.list[i] \in Node
  BY <1>1, <1>2 DEF Live, ToSet
<1>4. \A i \in 1 .. Len(c.list) : c.path[c.list[i]] \in Path /\ c.info[c.list[i]] \in Server
  BY <1>1, <1>3 DEF WellFormed
<1>5. /\ EntriesOf(c) = [i \in 1 .. Len(c.list) |-> [path |-> c.path[c.list[i]],
                                                    info |-> c.info[c.list[i]]]]
  BY <1>2 DEF EntriesOf
<1>6. EntriesOf(c) \in [1 .. Len(c.list) -> Entry]
  BY <1>4, <1>5 DEF Entry
<1>7. EntriesOf(c) \in Seq(Entry) /\ Len(EntriesOf(c)) = Len(c.list)
  BY <1>2, <1>6
<1> QED
  BY <1>1, <1>2, <1>3, <1>5, <1>7

\* Two caches have the same entries when their lists hold the same paths and servers
\* place by place.
LEMMA SameEntries ==
    ASSUME NEW c, WellFormed(c), NEW e \in Seq(Entry), Len(e) = Len(c.list),
           \A i \in 1 .. Len(c.list) :
               e[i] = [path |-> c.path[c.list[i]], info |-> c.info[c.list[i]]]
    PROVE  EntriesOf(c) = e
<1> DEFINE d == EntriesOf(c)
<1>1. /\ d \in Seq(Entry) /\ Len(d) = Len(c.list)
      /\ \A i \in 1 .. Len(c.list) :
             d[i] = [path |-> c.path[c.list[i]], info |-> c.info[c.list[i]]]
  BY EntriesFacts
<1> HIDE DEF d
<1>2. d = e
  BY <1>1, SeqEqual
<1> QED
  BY <1>2 DEF d

\* The front of a sequence, place by place.
LEMMA FrontElements ==
    ASSUME NEW T, NEW s \in Seq(T), s # << >>
    PROVE  /\ Front(s) \in Seq(T) /\ Len(Front(s)) = Len(s) - 1
           /\ \A k \in 1 .. Len(s) - 1 : Front(s)[k] = s[k]
<1>1. Len(s) \in Nat \ {0}
  OBVIOUS
<1> DEFINE n == Len(s) - 1
           f == SubSeq(s, 1, n)
<1>2. n \in Nat /\ \A i \in 1 .. n : s[i] \in T
  BY <1>1
<1> HIDE DEF n
<1>3. f \in Seq(T) /\ Len(f) = n /\ \A k \in 1 .. n : f[k] = s[k]
  BY <1>2
<1>4. Front(s) = f
  BY DEF Front, f, n
<1> QED
  BY <1>3, <1>4 DEF n

\* An element put in front of a sequence, place by place.
LEMMA ConsElements ==
    ASSUME NEW T, NEW s \in Seq(T), NEW e \in T
    PROVE  /\ <<e>> \o s \in Seq(T) /\ Len(<<e>> \o s) = Len(s) + 1
           /\ \A k \in 1 .. Len(s) + 1 : (<<e>> \o s)[k] = IF k = 1 THEN e ELSE s[k - 1]
OBVIOUS

\* The nodes of a list keep their paths and servers from one cache to the other.
Agree(N, c, m) == \A n \in N : m.path[n] = c.path[n] /\ m.info[n] = c.info[n]

\* Taking a node out of the list takes its entry out.
LEMMA RemovedEntries ==
    ASSUME NEW c, WellFormed(c), NEW k \in DOMAIN c.list, NEW m, WellFormed(m),
           m.list = RemoveAt(c.list, k), Agree(Live(m), c, m)
    PROVE  EntriesOf(m) = RemoveAt(EntriesOf(c), k)
<1> DEFINE e == RemoveAt(EntriesOf(c), k)
<1>1. /\ c.list \in Seq(Node) /\ Len(c.list) \in Nat /\ k \in 1 .. Len(c.list)
      /\ EntriesOf(c) \in Seq(Entry) /\ Len(EntriesOf(c)) = Len(c.list)
      /\ k \in DOMAIN EntriesOf(c)
  BY EntriesFacts
<1>2. /\ Len(m.list) = Len(c.list) - 1
      /\ \A i \in 1 .. Len(m.list) : m.list[i] = IF i < k THEN c.list[i] ELSE c.list[i + 1]
  BY <1>1, RemoveAtElements
<1>3. /\ e \in Seq(Entry) /\ Len(e) = Len(c.list) - 1
      /\ \A i \in 1 .. Len(e) :
             e[i] = IF i < k THEN EntriesOf(c)[i] ELSE EntriesOf(c)[i + 1]
  BY <1>1, RemoveAtElements
<1> HIDE DEF e
<1>4. ASSUME NEW i \in 1 .. Len(m.list)
      PROVE  e[i] = [path |-> m.path[m.list[i]], info |-> m.info[m.list[i]]]
  <2> DEFINE j == IF i < k THEN i ELSE i + 1
  <2>1. j \in 1 .. Len(c.list) /\ m.list[i] = c.list[j] /\ e[i] = EntriesOf(c)[j]
    BY <1>1, <1>2, <1>3
  <2> HIDE DEF j
  <2>2. EntriesOf(c)[j] = [path |-> c.path[c.list[j]], info |-> c.info[c.list[j]]]
    BY <2>1, EntriesFacts
  <2>3. m.list[i] \in Live(m)
    BY EntriesFacts
  <2> QED
    BY <2>1, <2>2, <2>3 DEF Agree
<1>5. EntriesOf(m) = e
  BY <1>2, <1>3, <1>4, SameEntries
<1> QED
  BY <1>5 DEF e

\* Moving a node to the front moves its entry, with what the node now holds.
LEMMA MovedEntries ==
    ASSUME NEW c, WellFormed(c), NEW k \in DOMAIN c.list, NEW m, WellFormed(m),
           NEW n \in Node, m.list = <<n>> \o RemoveAt(c.list, k),
           Agree(Live(m) \ {n}, c, m)
    PROVE  EntriesOf(m) = <<[path |-> m.path[n], info |-> m.info[n]]>>
                              \o RemoveAt(EntriesOf(c), k)
<1> DEFINE h == [path |-> m.path[n], info |-> m.info[n]]
           t == RemoveAt(EntriesOf(c), k)
           r == RemoveAt(c.list, k)
           e == <<h>> \o t
<1>1. /\ c.list \in Seq(Node) /\ Len(c.list) \in Nat /\ k \in 1 .. Len(c.list)
      /\ EntriesOf(c) \in Seq(Entry) /\ Len(EntriesOf(c)) = Len(c.list)
      /\ k \in DOMAIN EntriesOf(c)
  BY EntriesFacts
<1>2. /\ r \in Seq(Node) /\ Len(r) = Len(c.list) - 1
      /\ \A i \in 1 .. Len(c.list) - 1 : r[i] = IF i < k THEN c.list[i] ELSE c.list[i + 1]
  BY <1>1, RemoveAtElements
<1>3. /\ t \in Seq(Entry) /\ Len(t) = Len(c.list) - 1
      /\ \A i \in 1 .. Len(c.list) - 1 :
             t[i] = IF i < k THEN EntriesOf(c)[i] ELSE EntriesOf(c)[i + 1]
  BY <1>1, RemoveAtElements
<1> HIDE DEF r, t
<1>4. /\ m.list = <<n>> \o r /\ Len(m.list) = Len(c.list)
      /\ \A i \in 1 .. Len(c.list) : m.list[i] = IF i = 1 THEN n ELSE r[i - 1]
  BY <1>1, <1>2, ConsElements DEF r
<1>5. /\ n = m.list[1] /\ 1 \in 1 .. Len(m.list)
      /\ \A i \in 1 .. Len(m.list) : i # 1 => m.list[i] # n
  <2>1. n = m.list[1] /\ 1 \in 1 .. Len(m.list) /\ DOMAIN m.list = 1 .. Len(m.list)
    BY <1>1, <1>4, EntriesFacts
  <2> QED
    BY <2>1 DEF WellFormed, IsInjective
<1>6. h \in Entry
  <2>1. EntriesOf(m)[1] \in Entry
    BY <1>5, EntriesFacts
  <2>2. EntriesOf(m)[1] = h
    BY <1>5, EntriesFacts
  <2> QED
    BY <2>1, <2>2
<1> HIDE DEF h
<1>7. /\ e \in Seq(Entry) /\ Len(e) = Len(c.list)
      /\ \A i \in 1 .. Len(c.list) : e[i] = IF i = 1 THEN h ELSE t[i - 1]
  BY <1>1, <1>3, <1>6, ConsElements
<1> HIDE DEF e
<1>8. ASSUME NEW i \in 1 .. Len(m.list)
      PROVE  e[i] = [path |-> m.path[m.list[i]], info |-> m.info[m.list[i]]]
  <2>1. CASE i = 1
    BY <1>4, <1>5, <1>7, <2>1 DEF h
  <2>2. CASE i # 1
    <3> DEFINE j == IF i - 1 < k THEN i - 1 ELSE i
    <3>1. i - 1 \in 1 .. Len(c.list) - 1 /\ i - 1 + 1 = i /\ i \in 1 .. Len(c.list)
      BY <1>1, <1>4, <2>2
    <3>2. j \in 1 .. Len(c.list) /\ m.list[i] = c.list[j] /\ e[i] = EntriesOf(c)[j]
      BY <1>1, <1>2, <1>3, <1>4, <1>7, <2>2, <3>1, SMTT(30)
    <3> HIDE DEF j
    <3>3. EntriesOf(c)[j] = [path |-> c.path[c.list[j]], info |-> c.info[c.list[j]]]
      BY <3>2, EntriesFacts
    <3>4. m.list[i] \in Live(m) \ {n}
      BY <1>5, <2>2, EntriesFacts
    <3> QED
      BY <3>2, <3>3, <3>4 DEF Agree
  <2> QED
    BY <2>1, <2>2
<1>9. EntriesOf(m) = e
  BY <1>4, <1>7, <1>8, SameEntries
<1> QED
  BY <1>9 DEF e, h, t

\* A new node puts its entry in front.
LEMMA InsertedEntries ==
    ASSUME NEW c, WellFormed(c), NEW m, WellFormed(m), NEW n \in Node,
           m.list = <<n>> \o c.list, Agree(Live(c), c, m)
    PROVE  EntriesOf(m) = <<[path |-> m.path[n], info |-> m.info[n]]>> \o EntriesOf(c)
<1> DEFINE h == [path |-> m.path[n], info |-> m.info[n]]
           t == EntriesOf(c)
           e == <<h>> \o t
<1>1. /\ c.list \in Seq(Node) /\ Len(c.list) \in Nat
      /\ t \in Seq(Entry) /\ Len(t) = Len(c.list)
      /\ \A i \in 1 .. Len(c.list) :
             /\ c.list[i] \in Live(c)
             /\ t[i] = [path |-> c.path[c.list[i]], info |-> c.info[c.list[i]]]
  BY EntriesFacts DEF WellFormed, CacheType
<1> HIDE DEF t
<1>2. /\ Len(m.list) = Len(c.list) + 1
      /\ \A i \in 1 .. Len(c.list) + 1 : m.list[i] = IF i = 1 THEN n ELSE c.list[i - 1]
  BY <1>1, ConsElements
<1>3. n = m.list[1] /\ 1 \in 1 .. Len(m.list)
  BY <1>1, <1>2
<1>4. h \in Entry
  <2>1. EntriesOf(m)[1] \in Entry
    BY <1>3, EntriesFacts
  <2>2. EntriesOf(m)[1] = h
    BY <1>3, EntriesFacts
  <2> QED
    BY <2>1, <2>2
<1> HIDE DEF h
<1>5. /\ e \in Seq(Entry) /\ Len(e) = Len(c.list) + 1
      /\ \A i \in 1 .. Len(c.list) + 1 : e[i] = IF i = 1 THEN h ELSE t[i - 1]
  BY <1>1, <1>4, ConsElements
<1> HIDE DEF e
<1>6. ASSUME NEW i \in 1 .. Len(m.list)
      PROVE  e[i] = [path |-> m.path[m.list[i]], info |-> m.info[m.list[i]]]
  <2>1. CASE i = 1
    BY <1>2, <1>3, <1>5, <2>1 DEF h
  <2>2. CASE i # 1
    <3>1. i - 1 \in 1 .. Len(c.list) /\ i \in 1 .. Len(c.list) + 1
      BY <1>1, <1>2, <2>2
    <3>2. m.list[i] = c.list[i - 1] /\ e[i] = t[i - 1]
      BY <1>2, <1>5, <2>2, <3>1
    <3>3. t[i - 1] = [path |-> c.path[c.list[i - 1]], info |-> c.info[c.list[i - 1]]]
      BY <1>1, <3>1
    <3>4. /\ m.path[c.list[i - 1]] = c.path[c.list[i - 1]]
          /\ m.info[c.list[i - 1]] = c.info[c.list[i - 1]]
      BY <1>1, <3>1 DEF Agree
    <3> QED
      BY <3>2, <3>3, <3>4
  <2> QED
    BY <2>1, <2>2
<1>7. EntriesOf(m) = e
  BY <1>2, <1>5, <1>6, SameEntries
<1> QED
  BY <1>7 DEF e, h, t

\* Making room in a full cache gives up the last entry.
LEMMA RoomEntries ==
    ASSUME NEW c, WellFormed(c)
    PROVE  EntriesOf(MakeRoom(c)) = IF Len(c.list) = LRU_CACHE_SIZE THEN Front(EntriesOf(c))
                                                                   ELSE EntriesOf(c)
<1>1. CASE Len(c.list) # LRU_CACHE_SIZE
  BY <1>1 DEF MakeRoom
<1>2. CASE Len(c.list) = LRU_CACHE_SIZE
  <2> DEFINE m == MakeRoom(c)
             e == Front(EntriesOf(c))
  <2>1. WellFormed(m) /\ Agree(Live(m), c, m)
    BY MakeRoomFacts DEF Agree
  <2>2. m.list = Front(c.list)
    BY <1>2 DEF MakeRoom, Evict, Freed
  <2> HIDE DEF m
  <2>3. /\ c.list \in Seq(Node) /\ Len(c.list) \in Nat \ {0}
        /\ EntriesOf(c) \in Seq(Entry) /\ Len(EntriesOf(c)) = Len(c.list)
        /\ c.list # << >> /\ EntriesOf(c) # << >>
    BY <1>2, EntriesFacts, SizeAssumption DEF WellFormed, CacheType
  <2>4. /\ Len(m.list) = Len(c.list) - 1
        /\ \A i \in 1 .. Len(m.list) : m.list[i] = c.list[i]
    BY <2>2, <2>3, FrontElements
  <2>5. /\ e \in Seq(Entry) /\ Len(e) = Len(c.list) - 1
        /\ \A i \in 1 .. Len(e) : e[i] = EntriesOf(c)[i]
    BY <2>3, FrontElements
  <2> HIDE DEF e
  <2>6. ASSUME NEW i \in 1 .. Len(m.list)
        PROVE  e[i] = [path |-> m.path[m.list[i]], info |-> m.info[m.list[i]]]
    <3>1. i \in 1 .. Len(c.list) /\ m.list[i] = c.list[i] /\ e[i] = EntriesOf(c)[i]
      BY <2>3, <2>4, <2>5
    <3>2. EntriesOf(c)[i] = [path |-> c.path[c.list[i]], info |-> c.info[c.list[i]]]
      BY <3>1, EntriesFacts
    <3>3. m.list[i] \in Live(m)
      BY <2>1, EntriesFacts
    <3> QED
      BY <2>1, <3>1, <3>2, <3>3 DEF Agree
  <2>7. EntriesOf(m) = e
    BY <2>1, <2>4, <2>5, <2>6, SameEntries
  <2> QED
    BY <1>2, <2>7 DEF e, m
<1> QED
  BY <1>1, <1>2

\* What the search finds is an entry of the path; a path alone in its bucket that is not
\* found has none.
LEMMA WhereFound ==
    ASSUME Inv, NEW p \in Path
    PROVE  /\ Found(cache, p) = Null => Promise!MayMiss(p)
           /\ Found(cache, p) # Null => Position(cache, Found(cache, p)) \in Promise!At(p)
<1>1. WellFormed(cache)
  BY DEF Inv, TypeOK
<1>2. /\ DOMAIN entries = 1 .. Len(cache.list) /\ DOMAIN cache.list = 1 .. Len(cache.list)
      /\ \A i \in 1 .. Len(cache.list) : /\ cache.list[i] \in Live(cache)
                                         /\ entries[i].path = cache.path[cache.list[i]]
  <2>1. DOMAIN EntriesOf(cache) = 1 .. Len(cache.list)
    BY <1>1, EntriesFacts
  <2> QED
    BY <1>1, <2>1, EntriesFacts DEF entries
<1>3. ASSUME NEW i \in 1 .. Len(cache.list), entries[i].path = p, Alone(p)
      PROVE  Found(cache, p) = cache.list[i] /\ cache.list[i] # Null
  BY <1>1, <1>2, <1>3, IndexedFacts, LiveFacts DEF Inv, Parts, Indexed
<1>4. CASE Found(cache, p) = Null
  BY <1>2, <1>3, <1>4 DEF Promise!At, Promise!MayMiss
<1>5. CASE Found(cache, p) # Null
  <2> DEFINE f == Found(cache, p)
             k == Position(cache, f)
  <2>1. f \in Live(cache) /\ cache.path[f] = p
    BY <1>1, <1>5, FoundFacts
  <2>2. k \in 1 .. Len(cache.list) /\ cache.list[k] = f
    BY <1>2, <2>1, PositionFacts
  <2> HIDE DEF k, f
  <2>3. k \in Promise!At(p)
    BY <1>2, <2>1, <2>2 DEF Promise!At
  <2> QED
    BY <1>5, <2>3 DEF f, k
<1> QED
  BY <1>4, <1>5

\* A get is a hit on the entry of its path, or a miss when there is none.
LEMMA GetPromised ==
    ASSUME Inv, Inv', NEW p \in Path, Get(p)
    PROVE  Promise!Hit(p) \/ Promise!Miss(p)
<1> DEFINE f == Found(cache, p)
           k == Position(cache, f)
<1>1. /\ WellFormed(cache) /\ WellFormed(cache') /\ cache' = lru_get(cache, p)
      /\ answer' = [path |-> p, info |-> IF f = Null THEN Null ELSE cache.info[f]]
      /\ UNCHANGED <<removed, fault>>
  BY DEF Inv, TypeOK, Get
<1>2. CASE f = Null
  <2>1. cache' = cache /\ answer' = [path |-> p, info |-> Null]
    BY <1>1, <1>2 DEF lru_get
  <2>2. Promise!MayMiss(p)
    BY <1>2, WhereFound
  <2> QED
    BY <1>1, <2>1, <2>2 DEF Promise!Miss, entries
<1>3. CASE f # Null
  <2>1. k \in Promise!At(p)
    BY <1>3, WhereFound
  <2>2. f \in Live(cache) /\ f \in Node /\ cache.path[f] = p
    BY <1>1, <1>3, FoundFacts
  <2>3. k \in DOMAIN cache.list /\ cache.list[k] = f
    BY <2>2, PositionFacts
  <2>4. cache' = move_to_front(cache, f)
    BY <1>1, <1>3 DEF lru_get
  <2> HIDE DEF f, k
  <2>5. /\ cache'.list = <<f>> \o RemoveAt(cache.list, k)
        /\ cache'.path = cache.path /\ cache'.info = cache.info
    BY <1>1, <2>2, <2>4, MoveToFrontFacts DEF move_to_front, Unlink, k, WellFormed, CacheType
  <2>6. Agree(Live(cache') \ {f}, cache, cache')
    BY <2>5 DEF Agree
  <2>7. EntriesOf(cache') = <<[path |-> cache'.path[f], info |-> cache'.info[f]]>>
                                \o RemoveAt(EntriesOf(cache), k)
    BY <1>1, <2>2, <2>3, <2>5, <2>6, MovedEntries
  <2>8. entries[k] = [path |-> cache.path[f], info |-> cache.info[f]]
    BY <1>1, <2>3, EntriesFacts DEF entries
  <2>9. entries' = <<entries[k]>> \o RemoveAt(entries, k)
    BY <2>5, <2>7, <2>8 DEF entries
  <2>10. answer' = [path |-> p, info |-> entries[k].info]
    BY <1>1, <1>3, <2>8 DEF f
  <2> QED
    BY <1>1, <2>1, <2>9, <2>10 DEF Promise!Hit, Promise!RemoveAt, RemoveAt
<1> QED
  BY <1>2, <1>3

\* A put replaces the entry of its path, or adds one after making room; without memory
\* it only makes room.
LEMMA PutPromised ==
    ASSUME Inv, Inv', NEW p \in Path, NEW s \in Server, Put(p, s)
    PROVE  Promise!Replace(p, s) \/ Promise!Add(p, s) \/ Promise!AddFails(p)
<1> DEFINE f == Found(cache, p)
           k == Position(cache, f)
           m == MakeRoom(cache)
<1> PICK n \in Fresh(cache) : cache' = lru_put(cache, p, s, n)
  BY DEF Put
<1>1. /\ WellFormed(cache) /\ WellFormed(cache') /\ answer' = Null
      /\ UNCHANGED <<removed, fault>>
  BY DEF Inv, TypeOK, Put
<1>2. CASE f # Null
  <2>1. k \in Promise!At(p)
    BY <1>2, WhereFound
  <2>2. f \in Live(cache) /\ f \in Node /\ cache.path[f] = p
    BY <1>1, <1>2, FoundFacts
  <2>3. k \in DOMAIN cache.list /\ cache.list[k] = f
    BY <2>2, PositionFacts
  <2>4. cache' = Refresh(cache, f, s)
    BY <1>2 DEF lru_put
  <2> HIDE DEF f, k
  <2>5. cache'.path = cache.path /\ cache'.info = [cache.info EXCEPT ![f] = s]
    BY <1>1, <2>2, <2>4, RefreshFacts
  <2>6. cache'.list = <<f>> \o RemoveAt(cache.list, k)
    <3> DEFINE d == [cache EXCEPT !.info[f] = s]
    <3>1. d.list = cache.list
      BY <1>1 DEF WellFormed, CacheType
    <3>2. cache'.list = <<f>> \o RemoveAt(d.list, Position(d, f))
      BY <1>1, <2>4 DEF Refresh, move_to_front, Unlink, WellFormed, CacheType
    <3>3. Position(d, f) = k
      BY <3>1 DEF Position, k
    <3> QED
      BY <3>1, <3>2, <3>3
  <2>7. cache.info \in [Node -> Server \cup {Null}]
    BY <1>1 DEF WellFormed, CacheType
  <2>8. Agree(Live(cache') \ {f}, cache, cache') /\ cache'.info[f] = s /\ cache'.path[f] = p
    BY <2>2, <2>5, <2>7 DEF Agree
  <2>9. EntriesOf(cache') = <<[path |-> p, info |-> s]>> \o RemoveAt(EntriesOf(cache), k)
    <3>1. EntriesOf(cache') = <<[path |-> cache'.path[f], info |-> cache'.info[f]]>>
                                  \o RemoveAt(EntriesOf(cache), k)
      BY <1>1, <2>2, <2>3, <2>6, <2>8, MovedEntries
    <3> QED
      BY <2>8, <3>1
  <2> QED
    BY <1>1, <2>1, <2>9 DEF Promise!Replace, Promise!RemoveAt, RemoveAt, entries
<1>3. CASE f = Null
  <2>1. Promise!MayMiss(p)
    BY <1>3, WhereFound
  <2>2. WellFormed(m)
    BY <1>1, MakeRoomFacts
  <2>3. Promise!Room = EntriesOf(m)
    <3>1. Len(entries) = Len(cache.list)
      BY <1>1, EntriesFacts DEF entries
    <3>2. Promise!Front(entries) = Front(entries)
      BY DEF Promise!Front, Front
    <3> QED
      BY <1>1, <3>1, <3>2, RoomEntries DEF Promise!Room, entries
  <2> HIDE DEF m, f
  <2>4. CASE n = Null
    <3>1. cache' = m
      BY <1>3, <2>4 DEF lru_put, m, f
    <3> QED
      BY <1>1, <2>1, <2>3, <3>1 DEF Promise!AddFails, entries
  <2>5. CASE n # Null
    <3>1. n \in Node /\ n \notin Live(m) /\ cache' = Insert(m, p, s, n)
      BY <1>3, <2>5 DEF Fresh, lru_put, m, f
    <3>2. /\ cache'.list = <<n>> \o m.list
          /\ cache'.path = [m.path EXCEPT ![n] = p]
          /\ cache'.info = [m.info EXCEPT ![n] = s]
      BY <3>1 DEF Insert
    <3>3. /\ m.path \in [Node -> Path \cup {Null}] /\ m.info \in [Node -> Server \cup {Null}]
          /\ Live(m) \subseteq Node
      BY <2>2 DEF WellFormed, CacheType, Live, ToSet
    <3>4. Agree(Live(m), m, cache') /\ cache'.path[n] = p /\ cache'.info[n] = s
      BY <3>1, <3>2, <3>3 DEF Agree
    <3>5. EntriesOf(cache') = <<[path |-> p, info |-> s]>> \o EntriesOf(m)
      BY <1>1, <2>2, <3>1, <3>2, <3>4, InsertedEntries
    <3> QED
      BY <1>1, <2>1, <2>3, <3>5 DEF Promise!Add, entries
  <2> QED
    BY <2>4, <2>5
<1> QED
  BY <1>2, <1>3

\* A removal takes out the entry that is found, if there is one.
LEMMA ForgetPromised ==
    ASSUME Inv, Inv', NEW p \in Path, Forget(p)
    PROVE  Promise!Forget(p) \/ Promise!ForgetNothing(p)
<1> DEFINE f == Found(cache, p)
           k == Position(cache, f)
<1>1. /\ WellFormed(cache) /\ WellFormed(cache') /\ cache' = lru_remove(cache, p)
      /\ removed' = IF f = Null THEN removed ELSE removed \cup {p}
      /\ answer' = Null /\ fault' = fault
  BY DEF Inv, TypeOK, Forget
<1>2. CASE f = Null
  <2>1. cache' = cache /\ removed' = removed /\ Promise!MayMiss(p)
    BY <1>1, <1>2, WhereFound DEF lru_remove
  <2> QED
    BY <1>1, <2>1 DEF Promise!ForgetNothing, entries
<1>3. CASE f # Null
  <2>1. k \in Promise!At(p) /\ removed' = removed \cup {p}
    BY <1>1, <1>3, WhereFound
  <2>2. f \in Live(cache)
    BY <1>1, <1>3, FoundFacts
  <2>3. k \in DOMAIN cache.list
    BY <2>2, PositionFacts
  <2>4. cache'.list = RemoveAt(cache.list, k)
    BY <1>1, <1>3 DEF lru_remove, Unlink, Freed, WellFormed, CacheType
  <2>5. Agree(Live(cache'), cache, cache')
    BY <1>1, <1>3, RemoveFacts DEF Agree
  <2> HIDE DEF f, k
  <2>6. EntriesOf(cache') = RemoveAt(EntriesOf(cache), k)
    BY <1>1, <2>3, <2>4, <2>5, RemovedEntries
  <2> QED
    BY <1>1, <2>1, <2>6 DEF Promise!Forget, Promise!RemoveAt, RemoveAt, entries
<1> QED
  BY <1>2, <1>3

\* A scan reads a freed node only after a removal: at a path alone in its bucket, only
\* after a removal of that path.
LEMMA FaultPromised ==
    ASSUME Inv, NEW p \in Path, Fault(p)
    PROVE  Promise!Break(p)
<1>1. hash_path(p) \in Bucket /\ ~HomedIn(cache, hash_path(p))
  BY HashFacts DEF Fault, Dangling, Start, HomedIn
<1>2. PICK q \in removed : Hash[q] = hash_path(p)
  BY <1>1 DEF Inv, Parts, Homed, NeverRemoved
<1>3. q \in Path
  BY DEF Inv, TypeOK
<1>4. Alone(p) => p \in removed
  BY <1>2, <1>3, AloneFacts DEF hash_path
<1> QED
  BY <1>2, <1>4 DEF Fault, Promise!Break, entries

\* Every step of the cache is a step of the bounded cache, or changes nothing of it.
LEMMA StepPromised ==
    ASSUME Inv, Inv', [Next]_vars
    PROVE  [Promise!Next]_(Promise!vars)
<1>1. ASSUME NEW p \in Path, Get(p) PROVE Promise!Use(p)
  BY <1>1, GetPromised DEF Promise!Use
<1>2. ASSUME NEW p \in Path, NEW s \in Server, Put(p, s) PROVE Promise!Use(p)
  BY <1>2, PutPromised DEF Promise!Use
<1>3. ASSUME NEW p \in Path, Forget(p) PROVE Promise!Use(p)
  BY <1>3, ForgetPromised DEF Promise!Use
<1>4. ASSUME NEW p \in Path, Fault(p) PROVE Promise!Use(p)
  BY <1>4, FaultPromised DEF Promise!Use
<1>5. CASE Restart
  <2>1. EntriesOf(cache') = << >>
    BY <1>5 DEF Restart, EntriesOf, EmptyCache
  <2> QED
    BY <1>5, <2>1 DEF Restart, Promise!Next, Promise!Restart, entries
<1>6. CASE UNCHANGED vars
  BY <1>6 DEF vars, Promise!vars, entries
<1>7. ASSUME ~fault, NEW p \in Path, Use(p) PROVE Promise!Next
  <2>1. Promise!Use(p)
    BY <1>1, <1>2, <1>3, <1>4, <1>7 DEF Use
  <2> QED
    BY <1>7, <2>1 DEF Promise!Next
<1> QED
  BY <1>5, <1>6, <1>7 DEF Next

\* The cache is the bounded cache of BoundedLRU, for every hash: it gives up the entry
\* used least recently, it never misses an entry of a path alone in its bucket, and it
\* reads freed memory only after a removal (lru_cache.c:43-176).
THEOREM BoundedMap == Spec => IsBoundedLRU
<1>1. Init => Promise!Init
  <2> SUFFICES ASSUME Init PROVE Promise!Init
    OBVIOUS
  <2>1. EntriesOf(cache) = << >>
    BY DEF Init, EntriesOf, EmptyCache
  <2> QED
    BY <2>1 DEF Init, Promise!Init, entries
<1>2. Inv /\ Inv' /\ [Next]_vars => [Promise!Next]_(Promise!vars)
  BY StepPromised
<1> QED
  BY <1>1, <1>2, InvInit, InvStep, PTL DEF Spec, IsBoundedLRU, Promise!Spec
=============================================================================

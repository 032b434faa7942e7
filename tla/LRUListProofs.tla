--------------------------- MODULE LRUListProofs ----------------------------
(***************************************************************************)
(* What the operations of the path cache preserve, for every set of paths, *)
(* servers and nodes, every size and every hash function: facts about LRUList *)
(* that the proofs of LRUCache and of NamingServer rest on.                *)
(***************************************************************************)
EXTENDS LRUList, SequenceTheorems, FiniteSetTheorems, WellFoundedInduction, TLAPS

\* A set of naturals that is not empty has a least element, and Min returns it.
LEMMA MinIsLeast ==
    ASSUME NEW S \in SUBSET Nat, S # {}
    PROVE  /\ Min(S) \in S
           /\ \A x \in S : Min(S) <= x
<1>1. \E m \in S : \A y \in S : <<y, m>> \notin OpToRel(<, Nat)
  BY NatLessThanWellFounded, WFMin
<1>2. OpToRel(<, Nat) = {r \in Nat \X Nat : r[1] < r[2]}
  BY DEF OpToRel
<1>3. PICK m \in S : \A y \in S : <<y, m>> \notin {r \in Nat \X Nat : r[1] < r[2]}
  BY <1>1, <1>2
<1>4. \A y \in S : m <= y
  <2> SUFFICES ASSUME NEW y \in S, ~(m <= y) PROVE FALSE
    OBVIOUS
  <2>1. y \in Nat /\ m \in Nat /\ y < m
    OBVIOUS
  <2> QED
    BY <1>3, <2>1
<1> QED
  BY <1>4 DEF Min

\* Removing the element at one place from a sequence: the others keep their order.
LEMMA RemoveAtElements ==
    ASSUME NEW T, NEW s \in Seq(T), NEW i \in DOMAIN s
    PROVE  /\ RemoveAt(s, i) \in Seq(T)
           /\ Len(RemoveAt(s, i)) = Len(s) - 1
           /\ \A k \in 1 .. Len(s) - 1 :
                  RemoveAt(s, i)[k] = IF k < i THEN s[k] ELSE s[k + 1]
<1> DEFINE r == RemoveAt(s, i)
<1>1. i \in 1 .. Len(s) /\ Len(s) \in Nat
  OBVIOUS
<1>2. r \in Seq(T) /\ Len(r) = Len(s) - 1
  BY <1>1, SMTT(30) DEF RemoveAt
<1>3. \A k \in 1 .. Len(s) - 1 : r[k] = IF k < i THEN s[k] ELSE s[k + 1]
  <2> DEFINE a == SubSeq(s, 1, i - 1)
             b == SubSeq(s, i + 1, Len(s))
  <2>1. a \in Seq(T) /\ Len(a) = i - 1 /\ \A k \in 1 .. i - 1 : a[k] = s[k]
    BY <1>1
  <2>2. b \in Seq(T) /\ Len(b) = Len(s) - i
        /\ \A k \in 1 .. Len(s) - i : b[k] = s[i + k]
    BY <1>1
  <2> HIDE DEF a, b
  <2> DEFINE q == a \o b
  <2>3. \A k \in 1 .. Len(s) - 1 : q[k] = IF k <= i - 1 THEN a[k] ELSE b[k - (i - 1)]
    BY <1>1, <2>1, <2>2, SMTT(30)
  <2> HIDE DEF q
  <2>4. ASSUME NEW k \in 1 .. Len(s) - 1
        PROVE  q[k] = IF k < i THEN s[k] ELSE s[k + 1]
    <3>1. k \in Nat /\ i \in Nat
      BY <1>1
    <3>2. CASE k < i
      BY <1>1, <2>1, <2>3, <3>1, <3>2
    <3>3. CASE ~(k < i)
      <4>1. k - (i - 1) \in 1 .. Len(s) - i /\ i + (k - (i - 1)) = k + 1
        BY <1>1, <3>1, <3>3
      <4>2. b[k - (i - 1)] = s[k + 1]
        BY <2>2, <4>1
      <4>3. q[k] = b[k - (i - 1)]
        BY <1>1, <2>3, <3>1, <3>3
      <4> QED
        BY <3>3, <4>2, <4>3
    <3> QED
      BY <3>2, <3>3
  <2> QED
    BY <2>4 DEF RemoveAt, a, b, q
<1> QED
  BY <1>2, <1>3

\* Removing the element at one place from a sequence without repetitions.
LEMMA RemoveAtFacts ==
    ASSUME NEW T, NEW s \in Seq(T), IsInjective(s), NEW i \in DOMAIN s
    PROVE  /\ RemoveAt(s, i) \in Seq(T)
           /\ Len(RemoveAt(s, i)) = Len(s) - 1
           /\ IsInjective(RemoveAt(s, i))
           /\ ToSet(RemoveAt(s, i)) = ToSet(s) \ {s[i]}
<1> DEFINE r == RemoveAt(s, i)
<1>1. i \in 1 .. Len(s) /\ Len(s) \in Nat
  OBVIOUS
<1>2. r \in Seq(T) /\ Len(r) = Len(s) - 1
  BY RemoveAtElements
<1>3. \A k \in 1 .. Len(s) - 1 : r[k] = IF k < i THEN s[k] ELSE s[k + 1]
  BY RemoveAtElements
<1>4. IsInjective(r)
  BY <1>1, <1>2, <1>3 DEF IsInjective
<1>5. ToSet(r) = ToSet(s) \ {s[i]}
  <2>1. ASSUME NEW x \in ToSet(r) PROVE x \in ToSet(s) \ {s[i]}
    BY <1>1, <1>2, <1>3, <2>1 DEF ToSet, IsInjective
  <2>2. ASSUME NEW x \in ToSet(s), x # s[i] PROVE x \in ToSet(r)
    <3>1. PICK k \in 1 .. Len(s) : s[k] = x
      BY <2>2 DEF ToSet
    <3>2. CASE k < i
      BY <1>1, <1>2, <1>3, <3>1, <3>2 DEF ToSet
    <3>3. CASE k > i
      <4>1. k - 1 \in DOMAIN r /\ r[k - 1] = s[k]
        BY <1>1, <1>2, <1>3, <3>1, <3>3
      <4> QED
        BY <3>1, <4>1 DEF ToSet
    <3> QED
      BY <1>1, <2>2, <3>1, <3>2, <3>3
  <2> QED
    BY <2>1, <2>2
<1> QED
  BY <1>2, <1>4, <1>5

\* Putting a new element in front of a sequence without repetitions.
LEMMA ConsFacts ==
    ASSUME NEW T, NEW s \in Seq(T), IsInjective(s), NEW e \in T, e \notin ToSet(s)
    PROVE  /\ <<e>> \o s \in Seq(T)
           /\ Len(<<e>> \o s) = Len(s) + 1
           /\ IsInjective(<<e>> \o s)
           /\ ToSet(<<e>> \o s) = ToSet(s) \cup {e}
<1> DEFINE r == <<e>> \o s
<1>1. r \in Seq(T) /\ Len(r) = Len(s) + 1 /\ Len(s) \in Nat
  OBVIOUS
<1>2. \A k \in 1 .. Len(s) + 1 : r[k] = IF k = 1 THEN e ELSE s[k - 1]
  OBVIOUS
<1>3. IsInjective(r)
  BY <1>1, <1>2 DEF IsInjective, ToSet
<1>4. ToSet(r) = ToSet(s) \cup {e}
  <2>1. ASSUME NEW x \in ToSet(r) PROVE x \in ToSet(s) \cup {e}
    BY <1>1, <1>2, <2>1 DEF ToSet
  <2>2. ASSUME NEW x \in ToSet(s) PROVE x \in ToSet(r)
    <3>1. PICK k \in 1 .. Len(s) : s[k] = x
      BY <2>2 DEF ToSet
    <3>2. k + 1 \in DOMAIN r /\ r[k + 1] = x
      BY <1>1, <1>2, <3>1
    <3> QED
      BY <3>2 DEF ToSet
  <2>3. e \in ToSet(r)
    <3>1. 1 \in DOMAIN r /\ r[1] = e
      BY <1>1, <1>2
    <3> QED
      BY <3>1 DEF ToSet
  <2> QED
    BY <2>1, <2>2, <2>3
<1> QED
  BY <1>1, <1>3, <1>4

\* The sequence without its last element.
LEMMA FrontFacts ==
    ASSUME NEW T, NEW s \in Seq(T), IsInjective(s), s # << >>
    PROVE  /\ Front(s) \in Seq(T)
           /\ Len(Front(s)) = Len(s) - 1
           /\ IsInjective(Front(s))
           /\ Last(s) \in ToSet(s)
           /\ ToSet(Front(s)) = ToSet(s) \ {Last(s)}
<1> DEFINE r == Front(s)
<1>1. Len(s) \in Nat /\ Len(s) > 0
  OBVIOUS
<1>2. r \in Seq(T) /\ Len(r) = Len(s) - 1 /\ \A k \in 1 .. Len(s) - 1 : r[k] = s[k]
  <2>1. ASSUME NEW i \in 1 .. Len(s)
        PROVE  SubSeq(s, 1, i - 1) \in Seq(T) /\ Len(SubSeq(s, 1, i - 1)) = i - 1
               /\ \A k \in 1 .. i - 1 : SubSeq(s, 1, i - 1)[k] = s[k]
    BY <1>1
  <2>2. Len(s) \in 1 .. Len(s)
    BY <1>1
  <2> QED
    BY <2>1, <2>2 DEF Front
<1>3. IsInjective(r)
  BY <1>1, <1>2 DEF IsInjective
<1>4. Last(s) \in ToSet(s)
  BY <1>1 DEF Last, ToSet
<1>5. ToSet(r) = ToSet(s) \ {Last(s)}
  <2>1. ASSUME NEW x \in ToSet(r) PROVE x \in ToSet(s) \ {Last(s)}
    BY <1>1, <1>2, <2>1 DEF ToSet, Last, IsInjective
  <2>2. ASSUME NEW x \in ToSet(s), x # Last(s) PROVE x \in ToSet(r)
    BY <1>1, <1>2, <2>2 DEF ToSet, Last
  <2> QED
    BY <2>1, <2>2
<1> QED
  BY <1>2, <1>3, <1>4, <1>5

-----------------------------------------------------------------------------
(* The search. *)

\* A node of the list has a place in it.
LEMMA PositionFacts ==
    ASSUME NEW c, NEW n \in Live(c)
    PROVE  Position(c, n) \in DOMAIN c.list /\ c.list[Position(c, n)] = n
BY DEF Position, Live, ToSet

\* A hash is a bucket.
LEMMA HashFacts ==
    ASSUME NEW p \in Path
    PROVE  hash_path(p) \in Bucket
BY HashAssumption DEF hash_path

\* The places a search looks at hold what it looks for; the first is found.
LEMMA MatchesFacts ==
    ASSUME NEW c, WellFormed(c), NEW p \in Path, Matches(c, p) # {}
    PROVE  /\ Min(Matches(c, p)) \in Matches(c, p)
           /\ \A i \in Matches(c, p) : Min(Matches(c, p)) <= i
<1>1. c.list \in Seq(Node)
  BY DEF WellFormed, CacheType
<1>2. Matches(c, p) \in SUBSET Nat
  BY <1>1 DEF Matches
<1> QED
  BY <1>2, MinIsLeast

\* A search that finds a node finds one of the list, and one of the right path.
LEMMA FoundFacts ==
    ASSUME NEW c, WellFormed(c), NEW p \in Path, Found(c, p) # Null
    PROVE  /\ Found(c, p) \in Live(c)
           /\ Found(c, p) \in Node
           /\ c.path[Found(c, p)] = p
<1>1. c.list \in Seq(Node)
  BY DEF WellFormed, CacheType
<1>2. Matches(c, p) # {} /\ Found(c, p) = c.list[Min(Matches(c, p))]
  BY DEF Found
<1> DEFINE i == Min(Matches(c, p))
<1>3. i \in Matches(c, p)
  BY <1>2, MatchesFacts
<1> HIDE DEF i
<1>4. i \in DOMAIN c.list /\ c.path[c.list[i]] = p
  BY <1>3 DEF Matches
<1>5. c.list[i] \in Node /\ c.list[i] \in Live(c)
  BY <1>1, <1>4 DEF Live, ToSet
<1> QED
  BY <1>2, <1>4, <1>5 DEF i

\* A search whose bucket points at a node of its path ends there.
LEMMA FoundAtStart ==
    ASSUME NEW c, WellFormed(c), NEW p \in Path,
           Start(c, p) \in Live(c), c.path[Start(c, p)] = p
    PROVE  Found(c, p) = Start(c, p)
<1> DEFINE i == Position(c, Start(c, p))
<1>1. c.list \in Seq(Node) /\ Start(c, p) \in Node /\ Start(c, p) # Null
  BY NullAssumption DEF WellFormed, CacheType, Live, ToSet
<1>2. i \in DOMAIN c.list /\ c.list[i] = Start(c, p) /\ i \in Nat
  BY <1>1, PositionFacts
<1>3. i \in Matches(c, p)
  BY <1>2 DEF Matches
<1>4. Min(Matches(c, p)) \in Matches(c, p) /\ Min(Matches(c, p)) <= i
  BY <1>3, MatchesFacts
<1>5. Min(Matches(c, p)) >= i /\ Min(Matches(c, p)) \in Nat
  BY <1>1, <1>4 DEF Matches
<1>6. Min(Matches(c, p)) = i
  BY <1>2, <1>4, <1>5
<1> QED
  BY <1>1, <1>2, <1>3, <1>6 DEF Found

-----------------------------------------------------------------------------
(* The operations. *)

\* Taking a node out of the list.
LEMMA UnlinkFacts ==
    ASSUME NEW c, WellFormed(c), NEW n \in Live(c)
    PROVE  /\ Unlink(c, n) \in Seq(Node)
           /\ Len(Unlink(c, n)) = Len(c.list) - 1
           /\ IsInjective(Unlink(c, n))
           /\ ToSet(Unlink(c, n)) = Live(c) \ {n}
<1>1. c.list \in Seq(Node) /\ IsInjective(c.list)
  BY DEF WellFormed, CacheType
<1>2. Position(c, n) \in DOMAIN c.list /\ c.list[Position(c, n)] = n
  BY PositionFacts
<1> QED
  BY <1>1, <1>2, RemoveAtFacts DEF Unlink, Live

\* The empty cache.
LEMMA EmptyFacts == WellFormed(EmptyCache) /\ Live(EmptyCache) = {}
<1>1. ToSet(<< >>) = {} /\ IsInjective(<< >>)
  BY DEF ToSet, IsInjective
<1>2. EmptyCache \in CacheType
  BY DEF EmptyCache, CacheType
<1> QED
  BY <1>1, <1>2, SizeAssumption DEF EmptyCache, WellFormed, Live

\* Moving a node to the front changes the order of the list and nothing else.
LEMMA MoveToFrontFacts ==
    ASSUME NEW c, WellFormed(c), NEW n \in Live(c)
    PROVE  LET m == move_to_front(c, n)
           IN  /\ WellFormed(m)
               /\ Live(m) = Live(c)
               /\ m.path = c.path /\ m.info = c.info /\ m.map = c.map
<1> DEFINE m == move_to_front(c, n)
           l == Unlink(c, n)
<1>1. c \in CacheType /\ n \in Node
  BY DEF WellFormed, CacheType, Live, ToSet
<1>2. l \in Seq(Node) /\ Len(l) = Len(c.list) - 1 /\ IsInjective(l)
      /\ ToSet(l) = Live(c) \ {n}
  BY UnlinkFacts
<1> HIDE DEF l
<1>3. /\ <<n>> \o l \in Seq(Node) /\ Len(<<n>> \o l) = Len(l) + 1
      /\ IsInjective(<<n>> \o l) /\ ToSet(<<n>> \o l) = ToSet(l) \cup {n}
  BY <1>1, <1>2, ConsFacts
<1>4. m.list = <<n>> \o l /\ m.path = c.path /\ m.info = c.info /\ m.map = c.map
  BY <1>1 DEF move_to_front, CacheType, l
<1>5. m \in CacheType
  BY <1>1, <1>3 DEF move_to_front, CacheType, l
<1>6. Live(m) = Live(c)
  BY <1>2, <1>3, <1>4 DEF Live
<1>7. Len(m.list) = Len(c.list) /\ Len(c.list) <= LRU_CACHE_SIZE
  BY <1>1, <1>2, <1>3, <1>4 DEF CacheType, WellFormed
<1> QED
  BY <1>3, <1>4, <1>5, <1>6, <1>7 DEF WellFormed

\* lru_get changes the order of the list and nothing else.
LEMMA GetFacts ==
    ASSUME NEW c, WellFormed(c), NEW p \in Path
    PROVE  LET m == lru_get(c, p)
           IN  /\ WellFormed(m)
               /\ Live(m) = Live(c)
               /\ m.path = c.path /\ m.info = c.info /\ m.map = c.map
BY FoundFacts, MoveToFrontFacts DEF lru_get

\* Making room takes at most the tail out, and what map[] says of it.
LEMMA MakeRoomFacts ==
    ASSUME NEW c, WellFormed(c)
    PROVE  LET m == MakeRoom(c)
           IN  /\ WellFormed(m)
               /\ Len(m.list) < LRU_CACHE_SIZE
               /\ Live(m) \subseteq Live(c)
               /\ \A n \in Live(m) : m.path[n] = c.path[n] /\ m.info[n] = c.info[n]
               /\ \A b \in Bucket : \/ m.map[b] = c.map[b]
                                    \/ m.map[b] = Null /\ c.map[b] \in Live(c) \ Live(m)
               /\ \A n \in Live(c) \ Live(m) : m.map[hash_path(c.path[n])] # n
<1>1. c \in CacheType /\ IsInjective(c.list) /\ Len(c.list) <= LRU_CACHE_SIZE
      /\ Len(c.list) \in Nat /\ LRU_CACHE_SIZE \in Nat /\ LRU_CACHE_SIZE >= 2
  BY SizeAssumption DEF WellFormed, CacheType
<1>2. CASE Len(c.list) # LRU_CACHE_SIZE
  BY <1>1, <1>2 DEF MakeRoom
<1>3. CASE Len(c.list) = LRU_CACHE_SIZE
  <2> DEFINE m == Evict(c)
             t == Last(c.list)
             b == hash_path(c.path[t])
             l == Front(c.list)
  <2>1. c.list \in Seq(Node) /\ c.list # << >>
    BY <1>1, <1>3 DEF CacheType
  <2>2. /\ l \in Seq(Node) /\ Len(l) = Len(c.list) - 1 /\ IsInjective(l)
        /\ t \in Live(c) /\ ToSet(l) = Live(c) \ {t}
    BY <1>1, <2>1, FrontFacts DEF Live
  <2>3. t \in Node /\ c.path[t] \in Path /\ b \in Bucket
    <3>1. t \in Node
      BY <2>1, <2>2 DEF Live, ToSet
    <3>2. c.path[t] \in Path
      BY <1>1, <2>2, <3>1 DEF WellFormed, CacheType
    <3> QED
      BY <3>1, <3>2, HashFacts
  <2>4. /\ m.list = l
        /\ m.path = [c.path EXCEPT ![t] = Null]
        /\ m.info = [c.info EXCEPT ![t] = Null]
        /\ m.map = [c.map EXCEPT ![b] = IF @ = t THEN Null ELSE @]
    BY <1>1 DEF Evict, Freed, CacheType
  <2>5. Freed(c, t) \in CacheType
    BY <1>1 DEF Freed, CacheType
  <2>6. m \in CacheType
    BY <2>2, <2>5 DEF Evict, CacheType
  <2> HIDE DEF m, l, t, b
  <2>7. Live(m) = Live(c) \ {t}
    BY <2>2, <2>4 DEF Live
  <2>8. WellFormed(m)
    <3>1. \A n \in Node : /\ n \in Live(m) <=> m.path[n] # Null
                          /\ n \in Live(m) <=> m.info[n] # Null
      BY <1>1, <2>3, <2>4, <2>7 DEF WellFormed, CacheType
    <3>2. IsInjective(m.list) /\ Len(m.list) <= LRU_CACHE_SIZE
      BY <1>1, <2>2, <2>4
    <3> QED
      BY <2>6, <3>1, <3>2 DEF WellFormed
  <2>9. \A n \in Live(m) : m.path[n] = c.path[n] /\ m.info[n] = c.info[n]
    BY <1>1, <2>3, <2>4, <2>7 DEF CacheType
  <2>10. \A d \in Bucket : \/ m.map[d] = c.map[d]
                           \/ m.map[d] = Null /\ c.map[d] \in Live(c) \ Live(m)
    BY <1>1, <2>2, <2>3, <2>4, <2>7 DEF CacheType
  <2>11. m.map[b] # t
    BY <1>1, <2>3, <2>4, NullAssumption DEF CacheType
  <2>12. \A n \in Live(c) \ Live(m) : m.map[hash_path(c.path[n])] # n
    BY <2>7, <2>11 DEF b
  <2>13. Len(m.list) < LRU_CACHE_SIZE
    BY <1>1, <1>3, <2>2, <2>4
  <2>14. MakeRoom(c) = m
    BY <1>3 DEF MakeRoom, m
  <2> QED
    BY <2>7, <2>8, <2>9, <2>10, <2>12, <2>13, <2>14
<1> QED
  BY <1>2, <1>3

\* A new node joins the list.
LEMMA InsertLive ==
    ASSUME NEW c, WellFormed(c), NEW p, NEW s, NEW n \in Node, n \notin Live(c)
    PROVE  Live(Insert(c, p, s, n)) = Live(c) \cup {n}
<1>1. c.list \in Seq(Node) /\ IsInjective(c.list)
  BY DEF WellFormed, CacheType
<1>2. ToSet(<<n>> \o c.list) = ToSet(c.list) \cup {n}
  BY <1>1, ConsFacts DEF Live
<1> QED
  BY <1>2 DEF Live, Insert

\* A new node leaves the cache well formed when there is room for it.
LEMMA InsertFacts ==
    ASSUME NEW c, WellFormed(c), Len(c.list) < LRU_CACHE_SIZE,
           NEW p \in Path, NEW s \in Server, NEW n \in Node, n \notin Live(c)
    PROVE  WellFormed(Insert(c, p, s, n))
<1> DEFINE m == Insert(c, p, s, n)
<1>1. c \in CacheType /\ IsInjective(c.list) /\ c.list \in Seq(Node)
      /\ Len(c.list) \in Nat /\ LRU_CACHE_SIZE \in Nat
  BY SizeAssumption DEF WellFormed, CacheType
<1>2. /\ <<n>> \o c.list \in Seq(Node) /\ Len(<<n>> \o c.list) = Len(c.list) + 1
      /\ IsInjective(<<n>> \o c.list)
      /\ ToSet(<<n>> \o c.list) = ToSet(c.list) \cup {n}
  BY <1>1, ConsFacts DEF Live
<1>3. hash_path(p) \in Bucket
  BY HashFacts
<1>4. /\ m.list = <<n>> \o c.list
      /\ m.path = [c.path EXCEPT ![n] = p]
      /\ m.info = [c.info EXCEPT ![n] = s]
      /\ m.map = [c.map EXCEPT ![hash_path(p)] = n]
  BY DEF Insert
<1>5. m \in CacheType
  BY <1>1, <1>2, <1>3 DEF Insert, CacheType
<1>6. Live(m) = Live(c) \cup {n}
  BY InsertLive
<1> HIDE DEF m
<1>7. \A k \in Node : /\ k \in Live(m) <=> m.path[k] # Null
                      /\ k \in Live(m) <=> m.info[k] # Null
  BY <1>1, <1>4, <1>6, NullAssumption DEF WellFormed, CacheType
<1>8. IsInjective(m.list) /\ Len(m.list) <= LRU_CACHE_SIZE
  BY <1>1, <1>2, <1>4
<1>9. WellFormed(m)
  BY <1>5, <1>7, <1>8 DEF WellFormed
<1> QED
  BY <1>9 DEF m

\* Putting a path again stores the server in its node and moves it to the front.
LEMMA RefreshFacts ==
    ASSUME NEW c, WellFormed(c), NEW s \in Server, NEW n \in Live(c)
    PROVE  LET m == Refresh(c, n, s)
           IN  /\ WellFormed(m)
               /\ Live(m) = Live(c)
               /\ m.path = c.path /\ m.map = c.map
               /\ m.info = [c.info EXCEPT ![n] = s]
<1> DEFINE k == [c EXCEPT !.info[n] = s]
<1>1. c \in CacheType /\ n \in Node
  BY DEF WellFormed, CacheType, Live, ToSet
<1>2. k.list = c.list /\ k.path = c.path /\ k.map = c.map
      /\ k.info = [c.info EXCEPT ![n] = s]
  BY <1>1 DEF CacheType
<1>3. k \in CacheType
  BY <1>1 DEF CacheType
<1> HIDE DEF k
<1>4. Live(k) = Live(c)
  BY <1>2 DEF Live
<1>5. \A j \in Node : j \in Live(k) <=> k.info[j] # Null
  BY <1>1, <1>2, <1>4, NullAssumption DEF WellFormed, CacheType
<1>6. WellFormed(k)
  BY <1>2, <1>3, <1>4, <1>5 DEF WellFormed
<1> QED
  BY <1>2, <1>4, <1>6, MoveToFrontFacts DEF Refresh, k

\* lru_put keeps the cache well formed, whatever malloc returns.
LEMMA PutFacts ==
    ASSUME NEW c, WellFormed(c), NEW p \in Path, NEW s \in Server, NEW n \in Fresh(c)
    PROVE  WellFormed(lru_put(c, p, s, n))
<1>1. CASE Found(c, p) # Null
  BY <1>1, FoundFacts, RefreshFacts DEF lru_put
<1>2. CASE Found(c, p) = Null /\ n = Null
  BY <1>2, MakeRoomFacts DEF lru_put
<1>3. CASE Found(c, p) = Null /\ n # Null
  <2>1. n \in Node /\ n \notin Live(MakeRoom(c))
    BY <1>3 DEF Fresh
  <2>2. WellFormed(MakeRoom(c)) /\ Len(MakeRoom(c).list) < LRU_CACHE_SIZE
    BY MakeRoomFacts
  <2> QED
    BY <1>3, <2>1, <2>2, InsertFacts DEF lru_put
<1> QED
  BY <1>1, <1>2, <1>3

\* The node after a node of the list is a node, or there is none.
LEMMA SuccessorFacts ==
    ASSUME NEW c, WellFormed(c), NEW n \in Live(c)
    PROVE  Successor(c, n) \in Node \cup {Null}
<1> DEFINE i == Position(c, n)
<1>1. c.list \in Seq(Node) /\ i \in 1 .. Len(c.list) /\ c.list[i] = n
      /\ Len(c.list) \in Nat
  BY PositionFacts DEF WellFormed, CacheType
<1>2. ASSUME n # Last(c.list) PROVE i + 1 \in 1 .. Len(c.list)
  BY <1>1, <1>2 DEF Last
<1> QED
  BY <1>1, <1>2 DEF Successor

\* lru_remove takes out the node it finds and changes at most the entry of the
\* path's bucket in map[], when that entry was the node.
LEMMA RemoveFacts ==
    ASSUME NEW c, WellFormed(c), NEW p \in Path, Found(c, p) # Null
    PROVE  LET m == lru_remove(c, p)
               n == Found(c, p)
           IN  /\ WellFormed(m)
               /\ Live(m) = Live(c) \ {n}
               /\ \A k \in Live(m) : m.path[k] = c.path[k] /\ m.info[k] = c.info[k]
               /\ \A b \in Bucket : \/ m.map[b] = c.map[b]
                                    \/ b = hash_path(p) /\ c.map[b] = n
<1> DEFINE m == lru_remove(c, p)
           n == Found(c, p)
<1>1. c \in CacheType /\ n \in Node /\ n \in Live(c) /\ hash_path(p) \in Bucket
  BY FoundFacts, HashFacts DEF WellFormed
<1>2. /\ Unlink(c, n) \in Seq(Node)
      /\ Len(Unlink(c, n)) = Len(c.list) - 1
      /\ IsInjective(Unlink(c, n))
      /\ ToSet(Unlink(c, n)) = Live(c) \ {n}
  BY <1>1, UnlinkFacts
<1>3. Unmap(c, p, n) \in [Bucket -> Node \cup {Null}]
  BY <1>1, SuccessorFacts DEF Unmap, CacheType
<1>4. /\ m.list = Unlink(c, n)
      /\ m.path = [c.path EXCEPT ![n] = Null]
      /\ m.info = [c.info EXCEPT ![n] = Null]
      /\ m.map = Unmap(c, p, n)
  BY <1>1 DEF lru_remove, Freed, CacheType
<1>5. Freed(c, n) \in CacheType
  BY <1>1 DEF Freed, CacheType
<1>6. m \in CacheType
  BY <1>2, <1>3, <1>5 DEF lru_remove, CacheType
<1> HIDE DEF m, n
<1>7. Live(m) = Live(c) \ {n}
  BY <1>2, <1>4 DEF Live
<1>8. \A k \in Node : /\ k \in Live(m) <=> m.path[k] # Null
                      /\ k \in Live(m) <=> m.info[k] # Null
  BY <1>1, <1>4, <1>7 DEF WellFormed, CacheType
<1>9. Len(m.list) <= LRU_CACHE_SIZE
  BY <1>1, <1>2, <1>4, SizeAssumption DEF WellFormed, CacheType
<1>10. WellFormed(m)
  BY <1>2, <1>4, <1>6, <1>8, <1>9 DEF WellFormed
<1>11. \A k \in Live(m) : m.path[k] = c.path[k] /\ m.info[k] = c.info[k]
  BY <1>1, <1>4, <1>7 DEF CacheType
<1>12. \A b \in Bucket : \/ m.map[b] = c.map[b]
                         \/ b = hash_path(p) /\ c.map[b] = n
  BY <1>1, <1>4 DEF Unmap, Start, CacheType
<1> QED
  BY <1>7, <1>10, <1>11, <1>12 DEF m, n

-----------------------------------------------------------------------------
(***************************************************************************)
(* Paths alone in their bucket, whatever the other paths do.  A node of    *)
(* the list that holds such a path is what the bucket points at: two nodes *)
(* never hold the path, and its search starts where it ends.  A removal    *)
(* may leave the bucket pointing at a node of another path, or at a freed  *)
(* one, but then no node of the list holds the path.                       *)
(***************************************************************************)
IndexedIn(c) == \A n \in Live(c) : Alone(c.path[n]) => c.map[hash_path(c.path[n])] = n

\* A node of the list holds a path and a server.
LEMMA LiveFacts ==
    ASSUME NEW c, WellFormed(c), NEW n \in Live(c)
    PROVE  /\ n \in Node /\ n # Null
           /\ c.path[n] \in Path /\ c.info[n] \in Server
           /\ hash_path(c.path[n]) \in Bucket
<1>1. n \in Node
  BY DEF WellFormed, CacheType, Live, ToSet
<1>2. c.path[n] \in Path /\ c.info[n] \in Server
  BY <1>1 DEF WellFormed, CacheType
<1> QED
  BY <1>1, <1>2, HashFacts, NullAssumption

\* Another path has another bucket.
LEMMA AloneFacts ==
    ASSUME NEW p \in Path, NEW q \in Path, Alone(p), p # q
    PROVE  hash_path(p) # hash_path(q)
BY DEF Alone, hash_path

\* A path alone in its bucket that some node of the list holds is found, in that node.
LEMMA IndexedFacts ==
    ASSUME NEW c, WellFormed(c), IndexedIn(c), NEW n \in Live(c), Alone(c.path[n])
    PROVE  Found(c, c.path[n]) = n
BY LiveFacts, FoundAtStart DEF IndexedIn, Start

\* Making room leaves the nodes that stay what their buckets point at.
LEMMA RoomIndexed ==
    ASSUME NEW c, WellFormed(c), IndexedIn(c)
    PROVE  IndexedIn(MakeRoom(c))
<1> SUFFICES ASSUME NEW k \in Live(MakeRoom(c)), Alone(MakeRoom(c).path[k])
             PROVE  MakeRoom(c).map[hash_path(MakeRoom(c).path[k])] = k
  BY DEF IndexedIn
<1>1. MakeRoom(c).path[k] = c.path[k] /\ k \in Live(c)
  BY MakeRoomFacts
<1>2. hash_path(c.path[k]) \in Bucket /\ c.map[hash_path(c.path[k])] = k
  BY <1>1, LiveFacts DEF IndexedIn
<1> QED
  BY <1>1, <1>2, MakeRoomFacts

\* After lru_put a node of the list holds what was put, or what it held; a path alone in
\* its bucket is in no other node, and its node is what the bucket points at.
LEMMA PutIndexed ==
    ASSUME NEW c, WellFormed(c), IndexedIn(c),
           NEW p \in Path, NEW s \in Server, NEW n \in Fresh(c), NEW r, r = lru_put(c, p, s, n)
    PROVE  /\ IndexedIn(r)
           /\ \A k \in Live(r) :
                  \/ r.path[k] = p /\ r.info[k] = s
                  \/ /\ k \in Live(c) /\ (Alone(p) => c.path[k] # p)
                     /\ r.path[k] = c.path[k] /\ r.info[k] = c.info[k]
<1> DEFINE m == MakeRoom(c)
<1>1. /\ c.path \in [Node -> Path \cup {Null}]
      /\ c.info \in [Node -> Server \cup {Null}]
      /\ Live(c) \subseteq Node
  BY DEF WellFormed, CacheType, Live, ToSet
<1>2. \A k \in Live(c) : /\ c.path[k] \in Path
                         /\ Alone(c.path[k]) => Found(c, c.path[k]) = k
  BY LiveFacts, IndexedFacts
<1>3. CASE Found(c, p) # Null
  <2> DEFINE f == Found(c, p)
  <2>1. f \in Live(c) /\ c.path[f] = p
    BY <1>3, FoundFacts
  <2>2. Live(r) = Live(c) /\ r.path = c.path /\ r.map = c.map /\ r.info = [c.info EXCEPT ![f] = s]
    BY <1>3, <2>1, RefreshFacts DEF lru_put
  <2>3. IndexedIn(r)
    BY <2>2 DEF IndexedIn
  <2>4. \A k \in Live(c) : Alone(p) /\ c.path[k] = p => k = f
    BY <1>2
  <2> HIDE DEF f
  <2> QED
    BY <1>1, <2>1, <2>2, <2>3, <2>4
<1>4. CASE Found(c, p) = Null
  <2>1. \A k \in Live(c) : Alone(p) => c.path[k] # p
    BY <1>2, <1>4, LiveFacts
  <2>2. /\ WellFormed(m) /\ Live(m) \subseteq Live(c)
        /\ \A k \in Live(m) : m.path[k] = c.path[k] /\ m.info[k] = c.info[k]
    BY MakeRoomFacts
  <2>3. IndexedIn(m)
    BY RoomIndexed
  <2>4. m.path \in [Node -> Path \cup {Null}] /\ m.info \in [Node -> Server \cup {Null}]
        /\ m.map \in [Bucket -> Node \cup {Null}]
    BY <2>2 DEF WellFormed, CacheType
  <2> HIDE DEF m
  <2>5. CASE n = Null
    BY <1>4, <2>1, <2>2, <2>3, <2>5 DEF lru_put, m
  <2>6. CASE n # Null
    <3>1. n \in Node /\ n \notin Live(m) /\ r = Insert(m, p, s, n)
      BY <1>4, <2>6 DEF Fresh, lru_put, m
    <3>2. Live(r) = Live(m) \cup {n}
      BY <2>2, <3>1, InsertLive
    <3>3. /\ r.path = [m.path EXCEPT ![n] = p]
          /\ r.info = [m.info EXCEPT ![n] = s]
          /\ r.map = [m.map EXCEPT ![hash_path(p)] = n]
      BY <3>1 DEF Insert
    <3>4. hash_path(p) \in Bucket
      BY HashFacts
    <3>5. r.path[n] = p /\ r.info[n] = s /\ r.map[hash_path(p)] = n
      BY <2>4, <3>1, <3>3, <3>4
    <3>6. \A k \in Live(m) : r.path[k] = m.path[k] /\ r.info[k] = m.info[k]
      BY <1>1, <2>2, <2>4, <3>1, <3>3
    <3>7. ASSUME NEW k \in Live(m), Alone(m.path[k])
          PROVE  r.map[hash_path(m.path[k])] = k
      <4>1. /\ m.path[k] \in Path /\ hash_path(m.path[k]) \in Bucket
            /\ m.map[hash_path(m.path[k])] = k
        BY <2>2, <2>3, <3>7, LiveFacts DEF IndexedIn
      <4>2. m.path[k] # p
        BY <2>1, <2>2, <3>7
      <4>3. hash_path(m.path[k]) # hash_path(p)
        BY <3>7, <4>1, <4>2, AloneFacts
      <4> QED
        BY <2>4, <3>3, <3>4, <4>1, <4>3
    <3>8. IndexedIn(r)
      BY <3>2, <3>5, <3>6, <3>7 DEF IndexedIn
    <3> QED
      BY <2>1, <2>2, <3>2, <3>5, <3>6, <3>8
  <2> QED
    BY <2>5, <2>6
<1> QED
  BY <1>3, <1>4

\* After lru_remove a node of the list holds what it held; a path alone in its bucket is
\* in no node once it was removed.
LEMMA RemoveIndexed ==
    ASSUME NEW c, WellFormed(c), IndexedIn(c),
           NEW p \in Path, NEW r, r = lru_remove(c, p)
    PROVE  /\ IndexedIn(r)
           /\ \A k \in Live(r) : /\ k \in Live(c) /\ (Alone(p) => c.path[k] # p)
                                 /\ r.path[k] = c.path[k] /\ r.info[k] = c.info[k]
<1>1. \A k \in Live(c) : /\ c.path[k] \in Path /\ k # Null
                         /\ hash_path(c.path[k]) \in Bucket
                         /\ Alone(c.path[k]) => Found(c, c.path[k]) = k
  BY LiveFacts, IndexedFacts
<1>2. CASE Found(c, p) = Null
  BY <1>1, <1>2 DEF lru_remove
<1>3. CASE Found(c, p) # Null
  <2> DEFINE n == Found(c, p)
  <2>1. /\ Live(r) = Live(c) \ {n}
        /\ \A k \in Live(r) : r.path[k] = c.path[k] /\ r.info[k] = c.info[k]
        /\ \A b \in Bucket : \/ r.map[b] = c.map[b]
                             \/ b = hash_path(p) /\ c.map[b] = n
    BY <1>3, RemoveFacts
  <2>2. \A k \in Live(r) : k \in Live(c) /\ k # n /\ (Alone(p) => c.path[k] # p)
    BY <1>1, <2>1
  <2> HIDE DEF n
  <2>3. IndexedIn(r)
    BY <1>1, <2>1, <2>2 DEF IndexedIn
  <2> QED
    BY <2>1, <2>2, <2>3
<1> QED
  BY <1>2, <1>3

-----------------------------------------------------------------------------
(* Buckets whose paths were never removed: what such a bucket points at is *)
(* a node of the bucket, so an evicted node is forgotten by the one entry  *)
(* that can point at it.                                                   *)

HomedIn(c, b) == c.map[b] # Null => c.map[b] \in Live(c) /\ hash_path(c.path[c.map[b]]) = b

\* lru_get leaves the buckets, and the nodes they point at, as they are.
LEMMA GetHomed ==
    ASSUME NEW c, WellFormed(c), NEW p \in Path, NEW b \in Bucket, HomedIn(c, b)
    PROVE  HomedIn(lru_get(c, p), b)
BY GetFacts DEF HomedIn

\* lru_put keeps a bucket pointing at a node of its own.
LEMMA PutHomed ==
    ASSUME NEW c, WellFormed(c), NEW b \in Bucket, HomedIn(c, b),
           NEW p \in Path, NEW s \in Server, NEW n \in Fresh(c)
    PROVE  HomedIn(lru_put(c, p, s, n), b)
<1> DEFINE m == MakeRoom(c)
           r == lru_put(c, p, s, n)
<1>1. c.map \in [Bucket -> Node \cup {Null}]
  BY DEF WellFormed, CacheType
<1>2. CASE Found(c, p) # Null
  <2> DEFINE f == Found(c, p)
             k == Refresh(c, f, s)
  <2>1. f \in Live(c)
    BY <1>2, FoundFacts
  <2> HIDE DEF f
  <2>2. Live(k) = Live(c) /\ k.path = c.path /\ k.map = c.map
    BY <2>1, RefreshFacts
  <2>3. r = k
    BY <1>2 DEF lru_put, f
  <2> HIDE DEF k, r
  <2>4. HomedIn(r, b)
    BY <2>2, <2>3 DEF HomedIn
  <2> QED
    BY <2>4 DEF r
<1>3. WellFormed(m)
  BY MakeRoomFacts
<1>4. ASSUME m.map[b] # Null
      PROVE  m.map[b] \in Live(m) /\ hash_path(m.path[m.map[b]]) = b
  <2>1. m.map[b] = c.map[b] /\ m.map[b] \in Live(c) /\ hash_path(c.path[m.map[b]]) = b
    BY <1>4, MakeRoomFacts DEF HomedIn
  <2>2. m.map[b] \in Live(m)
    BY <2>1, MakeRoomFacts
  <2> QED
    BY <2>1, <2>2, MakeRoomFacts
<1> HIDE DEF m
<1>5. CASE Found(c, p) = Null /\ n = Null
  BY <1>4, <1>5 DEF lru_put, HomedIn, m
<1>6. CASE Found(c, p) = Null /\ n # Null
  <2>1. n \in Node /\ n \notin Live(m) /\ r = Insert(m, p, s, n)
    BY <1>6 DEF Fresh, lru_put, m
  <2> HIDE DEF r
  <2>2. Live(r) = Live(m) \cup {n}
    BY <1>3, <2>1, InsertLive
  <2>3. r.path = [m.path EXCEPT ![n] = p] /\ r.map = [m.map EXCEPT ![hash_path(p)] = n]
    BY <2>1 DEF Insert
  <2>4. m.map \in [Bucket -> Node \cup {Null}] /\ m.path \in [Node -> Path \cup {Null}]
    BY <1>3 DEF WellFormed, CacheType
  <2>5. HomedIn(r, b)
    BY <1>4, <2>1, <2>2, <2>3, <2>4 DEF HomedIn
  <2> QED
    BY <2>5 DEF r
<1> QED
  BY <1>2, <1>5, <1>6

\* A removal from another bucket leaves a bucket pointing at a node of its own.
LEMMA RemoveHomed ==
    ASSUME NEW c, WellFormed(c), NEW b \in Bucket, HomedIn(c, b),
           NEW p \in Path, hash_path(p) # b
    PROVE  HomedIn(lru_remove(c, p), b)
<1>1. CASE Found(c, p) = Null
  BY <1>1 DEF lru_remove
<1>2. CASE Found(c, p) # Null
  <2> DEFINE n == Found(c, p)
             r == lru_remove(c, p)
  <2>1. c.path[n] = p
    BY <1>2, FoundFacts
  <2>2. /\ Live(r) = Live(c) \ {n} /\ r.map[b] = c.map[b]
        /\ \A k \in Live(r) : r.path[k] = c.path[k]
    BY <1>2, RemoveFacts
  <2> HIDE DEF n, r
  <2>3. HomedIn(r, b)
    BY <2>1, <2>2 DEF HomedIn
  <2> QED
    BY <2>3 DEF r
<1> QED
  BY <1>1, <1>2

-----------------------------------------------------------------------------
(***************************************************************************)
(* How far a node is from the head.  A node lru_get has handed out is used *)
(* after the lock was given back: what may have happened to it in between  *)
(* depends on how often it was moved towards the tail.                     *)
(***************************************************************************)

\* A node is at one place of the list.
LEMMA PositionIs ==
    ASSUME NEW c, IsInjective(c.list), NEW j \in DOMAIN c.list
    PROVE  Position(c, c.list[j]) = j
<1>1. c.list[j] \in Live(c)
  BY DEF Live, ToSet
<1> QED
  BY <1>1, PositionFacts DEF IsInjective

\* Taking a node out moves no other towards the tail.
LEMMA UnlinkPosition ==
    ASSUME NEW c, WellFormed(c), NEW n \in Live(c), NEW k \in Live(c), k # n
    PROVE  \E j \in DOMAIN Unlink(c, n) : Unlink(c, n)[j] = k /\ j <= Position(c, k)
<1> DEFINE l == c.list
           a == Position(c, n)
           b == Position(c, k)
           u == Unlink(c, n)
<1>1. l \in Seq(Node) /\ Len(l) \in Nat /\ DOMAIN l = 1 .. Len(l)
  BY DEF WellFormed, CacheType
<1>2. a \in 1 .. Len(l) /\ l[a] = n /\ b \in 1 .. Len(l) /\ l[b] = k
  BY <1>1, PositionFacts
<1>3. /\ u \in Seq(Node) /\ Len(u) = Len(l) - 1
      /\ \A i \in 1 .. Len(l) - 1 : u[i] = IF i < a THEN l[i] ELSE l[i + 1]
  BY <1>1, <1>2, RemoveAtElements DEF Unlink
<1> HIDE DEF l, a, b, u
<1>4. a # b
  BY <1>2
<1>5. CASE b < a
  <2>1. b \in 1 .. Len(l) - 1 /\ u[b] = k
    BY <1>1, <1>2, <1>3, <1>5
  <2> QED
    BY <1>1, <1>2, <1>3, <2>1 DEF u, b
<1>6. CASE b > a
  <2>1. b - 1 \in 1 .. Len(l) - 1 /\ ~(b - 1 < a) /\ (b - 1) + 1 = b
    BY <1>1, <1>2, <1>6
  <2>2. u[b - 1] = k /\ b - 1 \in DOMAIN u /\ b - 1 <= b
    BY <1>1, <1>2, <1>3, <2>1
  <2> QED
    BY <2>2 DEF u, b
<1> QED
  BY <1>1, <1>2, <1>4, <1>5, <1>6

\* A place in a list is the next one behind a new head.
LEMMA ConsPosition ==
    ASSUME NEW l \in Seq(Node), NEW e \in Node
    PROVE  /\ DOMAIN (<<e>> \o l) = 1 .. Len(l) + 1
           /\ (<<e>> \o l)[1] = e
           /\ \A j \in DOMAIN l : j + 1 \in 1 .. Len(l) + 1 /\ (<<e>> \o l)[j + 1] = l[j]
OBVIOUS

\* Moving a node to the front moves the others one place towards the tail at most.
LEMMA FrontPosition ==
    ASSUME NEW c, WellFormed(c), NEW n \in Live(c)
    PROVE  LET m == move_to_front(c, n)
           IN  /\ Position(m, n) = 1
               /\ \A k \in Live(c) : Position(m, k) <= Position(c, k) + 1
<1> DEFINE m == move_to_front(c, n)
           u == Unlink(c, n)
<1>1. c \in CacheType /\ n \in Node /\ u \in Seq(Node)
  BY UnlinkFacts DEF WellFormed, CacheType, Live, ToSet
<1>2. m.list = <<n>> \o u
  BY <1>1 DEF move_to_front, CacheType
<1>3. IsInjective(m.list)
  BY MoveToFrontFacts DEF WellFormed
<1> HIDE DEF m, u
<1>4. /\ DOMAIN m.list = 1 .. Len(u) + 1 /\ m.list[1] = n
      /\ \A j \in DOMAIN u : j + 1 \in DOMAIN m.list /\ m.list[j + 1] = u[j]
  BY <1>1, <1>2, ConsPosition
<1>5. 1 \in DOMAIN m.list
  BY <1>1, <1>4
<1>6. Position(m, n) = 1
  BY <1>3, <1>4, <1>5, PositionIs
<1>7. ASSUME NEW k \in Live(c) PROVE Position(m, k) <= Position(c, k) + 1
  <2>1. Position(c, k) \in Nat
    BY <1>1, PositionFacts DEF CacheType
  <2>2. CASE k = n
    BY <1>6, <2>1, <2>2, PositionFacts, <1>1 DEF CacheType
  <2>3. CASE k # n
    <3>1. PICK j \in DOMAIN u : u[j] = k /\ j <= Position(c, k)
      BY <2>3, UnlinkPosition DEF u
    <3>2. Position(m, k) = j + 1
      BY <1>3, <1>4, <3>1, PositionIs
    <3>3. j \in Nat
      BY <1>1, <3>1
    <3> QED
      BY <2>1, <3>1, <3>2, <3>3
  <2> QED
    BY <2>2, <2>3
<1> QED
  BY <1>6, <1>7 DEF m

\* lru_get brings the node it returns to the front.
LEMMA GetPosition ==
    ASSUME NEW c, WellFormed(c), NEW p \in Path, Found(c, p) # Null
    PROVE  /\ Position(lru_get(c, p), Found(c, p)) = 1
           /\ \A k \in Live(c) : Position(lru_get(c, p), k) <= Position(c, k) + 1
BY FoundFacts, FrontPosition DEF lru_get

\* Making room takes a node out only from the last place of a full cache.
LEMMA RoomPosition ==
    ASSUME NEW c, WellFormed(c), NEW k \in Live(c), Position(c, k) < LRU_CACHE_SIZE
    PROVE  /\ k \in Live(MakeRoom(c)) /\ MakeRoom(c).path[k] = c.path[k]
           /\ Position(MakeRoom(c), k) = Position(c, k)
<1> DEFINE m == MakeRoom(c)
           l == c.list
           b == Position(c, k)
<1>1. /\ l \in Seq(Node) /\ Len(l) \in Nat /\ DOMAIN l = 1 .. Len(l)
      /\ b \in 1 .. Len(l) /\ l[b] = k /\ LRU_CACHE_SIZE \in Nat
  BY PositionFacts, SizeAssumption DEF WellFormed, CacheType
<1>2. WellFormed(m) /\ \A n \in Live(m) : m.path[n] = c.path[n]
  BY MakeRoomFacts
<1>3. b \in DOMAIN m.list /\ m.list[b] = k
  <2>1. CASE Len(l) # LRU_CACHE_SIZE
    BY <1>1, <2>1 DEF MakeRoom
  <2>2. CASE Len(l) = LRU_CACHE_SIZE
    <3>1. m.list = Front(l)
      <4>1. c \in CacheType
        BY DEF WellFormed
      <4> QED
        BY <2>2, <4>1 DEF MakeRoom, Evict, Freed, CacheType
    <3>2. Front(l) = SubSeq(l, 1, Len(l) - 1)
      BY DEF Front
    <3>3. b \in 1 .. Len(l) - 1
      BY <1>1, <2>2
    <3> HIDE DEF m, l, b
    <3> QED
      BY <1>1, <3>1, <3>2, <3>3
  <2> QED
    BY <2>1, <2>2
<1> HIDE DEF m, b
<1>4. k \in Live(m)
  BY <1>3 DEF Live, ToSet
<1>5. Position(m, k) = b
  BY <1>2, <1>3, PositionIs DEF WellFormed
<1> QED
  BY <1>2, <1>4, <1>5 DEF m, b

\* lru_put frees no node but the one in the last place, and moves the others one place
\* towards the tail at most.
LEMMA PutPosition ==
    ASSUME NEW c, WellFormed(c), NEW p \in Path, NEW s \in Server, NEW n \in Fresh(c),
           NEW k \in Live(c), Position(c, k) < LRU_CACHE_SIZE
    PROVE  LET r == lru_put(c, p, s, n)
           IN  /\ k \in Live(r) /\ r.path[k] = c.path[k]
               /\ Position(r, k) <= Position(c, k) + 1
<1> DEFINE r == lru_put(c, p, s, n)
           f == Found(c, p)
           m == MakeRoom(c)
<1>1. Position(c, k) \in Nat
  BY PositionFacts DEF WellFormed, CacheType
<1>2. CASE f # Null
  <2> DEFINE d == [c EXCEPT !.info[f] = s]
  <2>1. f \in Live(c)
    BY <1>2, FoundFacts
  <2>2. r = Refresh(c, f, s) /\ r = move_to_front(d, f)
    BY <1>2 DEF lru_put, Refresh
  <2>3. Live(r) = Live(c) /\ r.path = c.path
    <3> HIDE DEF r, f
    <3>1. Live(Refresh(c, f, s)) = Live(c) /\ Refresh(c, f, s).path = c.path
      BY <2>1, RefreshFacts
    <3> QED
      BY <2>2, <3>1
  <2>4. d \in CacheType /\ d.list = c.list /\ d.path = c.path
        /\ d.info = [c.info EXCEPT ![f] = s]
    BY <1>2, FoundFacts DEF WellFormed, CacheType
  <2>5. f \in Node
    BY <1>2, FoundFacts
  <2> HIDE DEF d, r, f
  <2>6. Live(d) = Live(c) /\ Position(d, k) = Position(c, k)
    BY <2>4 DEF Live, Position
  <2>7. \A j \in Node : j \in Live(d) <=> d.info[j] # Null
    BY <2>1, <2>4, <2>6, NullAssumption DEF WellFormed, CacheType
  <2>8. WellFormed(d)
    BY <2>4, <2>6, <2>7 DEF WellFormed
  <2>9. Position(r, k) <= Position(c, k) + 1
    BY <2>1, <2>2, <2>6, <2>8, FrontPosition
  <2> QED
    BY <2>3, <2>9 DEF r
<1>3. k \in Live(m) /\ m.path[k] = c.path[k] /\ Position(m, k) = Position(c, k)
  BY RoomPosition
<1>4. CASE f = Null /\ n = Null
  BY <1>1, <1>3, <1>4 DEF lru_put
<1>5. CASE f = Null /\ n # Null
  <2>1. WellFormed(m) /\ n \in Node /\ n \notin Live(m)
    BY <1>5, MakeRoomFacts DEF Fresh
  <2>2. r = Insert(m, p, s, n)
    BY <1>5 DEF lru_put
  <2>3. m.list \in Seq(Node) /\ m.path \in [Node -> Path \cup {Null}] /\ Len(m.list) \in Nat
    BY <2>1 DEF WellFormed, CacheType
  <2>4. r.list = <<n>> \o m.list /\ r.path = [m.path EXCEPT ![n] = p]
    BY <2>2 DEF Insert
  <2>5. Live(r) = Live(m) \cup {n}
    BY <2>1, <2>2, InsertLive
  <2>6. WellFormed(r)
    BY PutFacts
  <2> HIDE DEF r, m
  <2>7. k \in Node /\ r.path[k] = m.path[k]
    BY <1>3, <2>1, <2>3, <2>4 DEF Live, ToSet
  <2>8. Position(m, k) \in DOMAIN m.list /\ m.list[Position(m, k)] = k
    BY <1>3, PositionFacts
  <2>9. /\ Position(m, k) + 1 \in DOMAIN r.list
        /\ r.list[Position(m, k) + 1] = k
    BY <2>1, <2>3, <2>4, <2>8, ConsPosition
  <2>10. Position(r, k) = Position(m, k) + 1
    BY <2>6, <2>9, PositionIs DEF WellFormed
  <2> QED
    BY <1>1, <1>3, <2>5, <2>7, <2>10 DEF r
<1> QED
  BY <1>2, <1>4, <1>5

\* lru_remove leaves the nodes of other paths where they are, or nearer to the head.
LEMMA RemovePosition ==
    ASSUME NEW c, WellFormed(c), NEW p \in Path, NEW k \in Live(c), c.path[k] # p
    PROVE  LET r == lru_remove(c, p)
           IN  /\ k \in Live(r) /\ r.path[k] = c.path[k]
               /\ Position(r, k) <= Position(c, k)
<1> DEFINE r == lru_remove(c, p)
           n == Found(c, p)
<1>1. Position(c, k) \in Nat
  BY PositionFacts DEF WellFormed, CacheType
<1>2. CASE n = Null
  BY <1>1, <1>2 DEF lru_remove
<1>3. CASE n # Null
  <2>1. n \in Live(c) /\ k # n
    BY <1>3, FoundFacts
  <2>2. /\ WellFormed(r) /\ Live(r) = Live(c) \ {n}
        /\ \A j \in Live(r) : r.path[j] = c.path[j]
    BY <1>3, RemoveFacts
  <2>3. r.list = Unlink(c, n)
    BY <1>3 DEF lru_remove, Freed, WellFormed, CacheType
  <2>4. PICK j \in DOMAIN Unlink(c, n) : Unlink(c, n)[j] = k /\ j <= Position(c, k)
    BY <2>1, UnlinkPosition
  <2> HIDE DEF r, n
  <2>5. Position(r, k) = j
    BY <2>2, <2>3, <2>4, PositionIs DEF WellFormed
  <2> QED
    BY <2>1, <2>2, <2>4, <2>5 DEF r
<1> QED
  BY <1>2, <1>3

=============================================================================

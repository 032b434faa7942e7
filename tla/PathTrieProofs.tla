--------------------------- MODULE PathTrieProofs ---------------------------
(***************************************************************************)
(* The trie implements PathMap, and no walk follows a pointer that is not  *)
(* there, for any number of threads, any paths and any room for listings.  *)
(*                                                                         *)
(* Nodes are never taken away and a mapped node has all nodes above it, so *)
(* a walk that is between two locks loses nothing.  A listing holds the    *)
(* lock of the root, and mutations hold ss_list_mutex from before the root *)
(* until they are done: at most one of them takes effect during a listing, *)
(* either in a part that the listing has passed or in one that it has not. *)
(***************************************************************************)
EXTENDS PathTrie, TLAPS, SequenceTheorems, FiniteSetTheorems

\* Path q goes through node n.
Below(q, n) == Len(n) <= Len(q) /\ \A j \in 1 .. Len(n) : q[j] = n[j]

\* A listing has been wherever comes before this: the node it is about to visit, or the
\* next place among the children of the node whose loop it is in.
Upto(t) == IF pc[t] = "lock" THEN at[t] ELSE Append(at[t], index[t] + 1)

Been(t) == {q \in Path : Before(q, Upto(t))}

Mapped(m) == {p \in Path : m[p] # Null}

Rank(m, p) == {q \in Mapped(m) : Before(q, p)}

\* What a listing of m has found when it has been to the places D.
Found(P, m, D) ==
    /\ P = Promise!Listing(m) \cap D
    /\ Cardinality(P) < MAX_ACCESSIBLE_PATHS => P = Mapped(m) \cap D

With(P, m, n) ==
    IF n \in Mapped(m) /\ Cardinality(P) < MAX_ACCESSIBLE_PATHS THEN P \cup {n} ELSE P

-----------------------------------------------------------------------------
(* Sequences                                                               *)

\* The first bytes of a sequence.
LEMMA CutFacts ==
    ASSUME NEW s \in Seq(Int), NEW i \in 0 .. Len(s)
    PROVE  /\ SubSeq(s, 1, i) \in Seq(Int) /\ Len(SubSeq(s, 1, i)) = i
           /\ \A j \in 1 .. i : SubSeq(s, 1, i)[j] = s[j]
<1>1. \A j \in 1 .. i : s[j] \in Int
  BY ElementOfSeq
<1>2. Len(s) \in Nat
  BY LenProperties
<1> QED
  BY <1>1, <1>2, SubSeqProperties

\* Two sequences agree up to i when they agree at each place.
LEMMA CutsEqual ==
    ASSUME NEW s \in Seq(Int), NEW u \in Seq(Int),
           NEW i \in Nat, i <= Len(s), i <= Len(u)
    PROVE  SubSeq(s, 1, i) = SubSeq(u, 1, i) <=> \A j \in 1 .. i : s[j] = u[j]
<1>1. i \in 0 .. Len(s) /\ i \in 0 .. Len(u)
  BY LenProperties
<1> DEFINE a == SubSeq(s, 1, i)  b == SubSeq(u, 1, i)
<1>2. /\ a \in Seq(Int) /\ b \in Seq(Int) /\ Len(a) = i /\ Len(b) = i
      /\ \A j \in 1 .. i : a[j] = s[j] /\ b[j] = u[j]
  BY <1>1, CutFacts
<1>3. ASSUME \A j \in 1 .. i : s[j] = u[j] PROVE a = b
  <2> HIDE DEF a, b
  <2> QED
    BY <1>2, <1>3, SeqEqual
<1> QED
  BY <1>2, <1>3

\* The order of listing, byte by byte.
LEMMA BeforeIs ==
    ASSUME NEW q \in Seq(Int), NEW p \in Seq(Int)
    PROVE  Before(q, p) <=>
             \E i \in 0 .. Len(q) : /\ i < Len(p) /\ \A j \in 1 .. i : p[j] = q[j]
                                    /\ i = Len(q) \/ q[i + 1] < p[i + 1]
<1>1. Len(q) \in Nat /\ Len(p) \in Nat
  BY LenProperties
<1>2. ASSUME NEW i \in 0 .. Len(q), i < Len(p)
      PROVE  SubSeq(p, 1, i) = SubSeq(q, 1, i) <=> \A j \in 1 .. i : p[j] = q[j]
  BY <1>1, <1>2, CutsEqual
<1> QED
  BY <1>2 DEF Before

\* Nothing is before the root, and nothing before itself.
LEMMA BeforeFacts ==
    ASSUME NEW q \in Seq(Int)
    PROVE  ~Before(q, Root) /\ ~Before(q, q)
<1>1. Root \in Seq(Int) /\ Len(Root) = 0 /\ Len(q) \in Nat
  BY LenProperties DEF Root
<1>2. ASSUME NEW i \in 1 .. Len(q) PROVE q[i] \in Int
  BY ElementOfSeq
<1>3. ~Before(q, Root)
  BY <1>1 DEF Before
<1>4. ~Before(q, q)
  BY <1>1, <1>2, BeforeIs
<1> QED
  BY <1>3, <1>4

\* What is listed before a child: what is before its parent, the parent, and what is
\* below the children that come before.
LEMMA BeforeChild ==
    ASSUME NEW q \in Seq(Int), NEW n \in Seq(Int), NEW b \in Int
    PROVE  Before(q, Append(n, b)) <=>
             \/ Before(q, n)
             \/ q = n
             \/ Below(q, n) /\ Len(n) < Len(q) /\ q[Len(n) + 1] < b
<1> DEFINE c == Append(n, b)
<1>1. /\ c \in Seq(Int) /\ Len(c) = Len(n) + 1 /\ c[Len(n) + 1] = b
      /\ \A j \in 1 .. Len(n) : c[j] = n[j]
  BY AppendProperties
<1>2. Len(q) \in Nat /\ Len(n) \in Nat
  BY LenProperties
<1>3. Below(q, n) /\ Len(q) = Len(n) <=> q = n
  <2>1. ASSUME Below(q, n), Len(q) = Len(n) PROVE q = n
    BY <2>1, SeqEqual DEF Below
  <2> QED
    BY <1>2, <2>1 DEF Below
<1> HIDE DEF c
<1>4. ASSUME Before(q, c)
      PROVE  Before(q, n) \/ q = n \/ (Below(q, n) /\ Len(n) < Len(q) /\ q[Len(n) + 1] < b)
  <2>1. PICK i \in 0 .. Len(q) : /\ i < Len(c) /\ \A j \in 1 .. i : c[j] = q[j]
                                 /\ i = Len(q) \/ q[i + 1] < c[i + 1]
    BY <1>1, <1>4, BeforeIs
  <2>2. CASE i < Len(n)
    <3> i + 1 \in 1 .. Len(n) /\ 1 .. i \subseteq 1 .. Len(n)
      BY <1>2, <2>2
    <3>1. c[i + 1] = n[i + 1] /\ \A j \in 1 .. i : c[j] = n[j]
      BY <1>1
    <3>2. Before(q, n)
      BY <2>1, <2>2, <3>1, BeforeIs
    <3> QED
      BY <3>2
  <2>3. CASE i = Len(n)
    <3>1. Below(q, n)
      BY <1>1, <1>2, <2>1, <2>3 DEF Below
    <3> QED
      BY <1>1, <1>2, <1>3, <2>1, <2>3, <3>1
  <2> QED
    BY <1>1, <1>2, <2>1, <2>2, <2>3
<1>5. ASSUME Before(q, n) PROVE Before(q, c)
  <2>1. PICK i \in 0 .. Len(q) : /\ i < Len(n) /\ \A j \in 1 .. i : n[j] = q[j]
                                 /\ i = Len(q) \/ q[i + 1] < n[i + 1]
    BY <1>5, BeforeIs
  <2> i + 1 \in 1 .. Len(n) /\ 1 .. i \subseteq 1 .. Len(n)
    BY <1>2, <2>1
  <2>2. i < Len(c) /\ c[i + 1] = n[i + 1] /\ \A j \in 1 .. i : c[j] = q[j]
    BY <1>1, <1>2, <2>1
  <2> QED
    BY <1>1, <2>1, <2>2, BeforeIs
<1>6. ASSUME Below(q, n), Len(q) = Len(n) \/ q[Len(n) + 1] < b
      PROVE  Before(q, c)
  <2>1. Len(n) \in 0 .. Len(q) /\ Len(n) < Len(c) /\ \A j \in 1 .. Len(n) : c[j] = q[j]
    BY <1>1, <1>2, <1>6 DEF Below
  <2> QED
    BY <1>1, <1>6, <2>1, BeforeIs
<1> QED
  BY <1>3, <1>4, <1>5, <1>6 DEF c

\* What goes through a child.
LEMMA BelowChild ==
    ASSUME NEW q \in Seq(Int), NEW n \in Seq(Int), NEW b \in Int
    PROVE  /\ Below(q, Append(n, b)) <=> Below(q, n) /\ Len(n) < Len(q) /\ q[Len(n) + 1] = b
           /\ Below(q, Append(n, b)) /\ ~(Len(Append(n, b)) < Len(q)) => q = Append(n, b)
           /\ Below(Append(n, b), Append(n, b))
<1> DEFINE c == Append(n, b)
<1>1. /\ c \in Seq(Int) /\ Len(c) = Len(n) + 1 /\ c[Len(n) + 1] = b
      /\ \A j \in 1 .. Len(n) : c[j] = n[j]
  BY AppendProperties
<1>2. Len(q) \in Nat /\ Len(n) \in Nat
  BY LenProperties
<1> HIDE DEF c
<1>3. ASSUME Below(q, c) PROVE Below(q, n) /\ Len(n) < Len(q) /\ q[Len(n) + 1] = b
  <2>1. Len(n) + 1 \in 1 .. Len(c) /\ \A j \in 1 .. Len(n) : j \in 1 .. Len(c)
    BY <1>1, <1>2
  <2> QED
    BY <1>1, <1>2, <1>3, <2>1 DEF Below
<1>4. ASSUME Below(q, n), Len(n) < Len(q), q[Len(n) + 1] = b PROVE Below(q, c)
  <2>1. ASSUME NEW j \in 1 .. Len(c) PROVE q[j] = c[j]
    <3>1. CASE j = Len(n) + 1
      BY <1>1, <1>4, <3>1
    <3>2. CASE j \in 1 .. Len(n)
      BY <1>1, <1>4, <3>2 DEF Below
    <3> QED
      BY <1>1, <1>2, <3>1, <3>2
  <2> QED
    BY <1>1, <1>2, <1>4, <2>1 DEF Below
<1>5. ASSUME Below(q, c), ~(Len(c) < Len(q)) PROVE q = c
  <2>1. Len(q) = Len(c) /\ \A j \in 1 .. Len(q) : q[j] = c[j]
    BY <1>1, <1>2, <1>5 DEF Below
  <2> QED
    BY <1>1, <2>1, SeqEqual
<1>6. Below(c, c)
  BY <1>1, <1>2 DEF Below
<1> QED
  BY <1>3, <1>4, <1>5, <1>6 DEF c

\* The order of listing is transitive.
LEMMA BeforeTransitive ==
    ASSUME NEW r \in Seq(Int), NEW q \in Seq(Int), NEW p \in Seq(Int),
           Before(r, q), Before(q, p)
    PROVE  Before(r, p)
<1>1. Len(r) \in Nat /\ Len(q) \in Nat /\ Len(p) \in Nat
  BY LenProperties
<1>2. /\ \A k \in 1 .. Len(r) : r[k] \in Int
      /\ \A k \in 1 .. Len(q) : q[k] \in Int
      /\ \A k \in 1 .. Len(p) : p[k] \in Int
  BY ElementOfSeq
<1>3. PICK i \in 0 .. Len(r) : /\ i < Len(q) /\ \A k \in 1 .. i : q[k] = r[k]
                               /\ i = Len(r) \/ r[i + 1] < q[i + 1]
  BY BeforeIs
<1>4. PICK j \in 0 .. Len(q) : /\ j < Len(p) /\ \A k \in 1 .. j : p[k] = q[k]
                               /\ j = Len(q) \/ q[j + 1] < p[j + 1]
  BY BeforeIs
<1>5. CASE i < j
  <2>1. i < Len(p) /\ p[i + 1] = q[i + 1] /\ \A k \in 1 .. i : p[k] = r[k]
    BY <1>1, <1>3, <1>4, <1>5
  <2> QED
    BY <1>3, <2>1, BeforeIs
<1>6. CASE i = j
  <2>1. /\ i < Len(p) /\ \A k \in 1 .. i : p[k] = r[k]
        /\ i = Len(r) \/ r[i + 1] < p[i + 1]
    BY <1>1, <1>2, <1>3, <1>4, <1>6
  <2> QED
    BY <1>3, <2>1, BeforeIs
<1>7. CASE j < i
  <2>1. /\ j \in 0 .. Len(r) /\ r[j + 1] = q[j + 1] /\ q[j + 1] < p[j + 1]
        /\ \A k \in 1 .. j : p[k] = r[k]
    BY <1>1, <1>3, <1>4, <1>7
  <2> QED
    BY <1>4, <2>1, BeforeIs
<1> QED
  BY <1>1, <1>3, <1>4, <1>5, <1>6, <1>7

-----------------------------------------------------------------------------
(* Paths and nodes                                                         *)

\* Each part of a path from its start leads to a node.
LEMMA CutInPrefix ==
    ASSUME NEW p \in Path, NEW i \in 0 .. Len(p)
    PROVE  SubSeq(p, 1, i) \in Prefix
<1> DEFINE cuts == {SubSeq(p, 1, j) : j \in 0 .. Len(p)}
<1>1. SubSeq(p, 1, i) \in cuts
  OBVIOUS
<1>2. cuts \in {{SubSeq(r, 1, j) : j \in 0 .. Len(r)} : r \in Path}
  OBVIOUS
<1> QED
  BY <1>1, <1>2, Zenon DEF Prefix

\* A node stands for bytes, and each path is a place for a node.
LEMMA PrefixFacts ==
    /\ Prefix \subseteq Seq(Byte) /\ Prefix \subseteq Seq(Int)
    /\ Path \subseteq Prefix /\ Root \in Prefix /\ Byte \subseteq Int
<1>1. Byte \subseteq Int
  BY ByteAssumption
<1>2. Root \in Seq(Byte) /\ Root \in Prefix
  BY DEF Root, Prefix
<1>3. ASSUME NEW p \in Path, NEW i \in 0 .. Len(p)
      PROVE  SubSeq(p, 1, i) \in Seq(Byte)
  <2>1. p \in Seq(Byte) /\ Len(p) \in Nat
    BY PathAssumption, LenProperties
  <2>2. \A j \in 1 .. i : p[j] \in Byte
    BY <2>1, ElementOfSeq
  <2> QED
    BY <2>1, <2>2, SubSeqProperties
<1>4. Prefix \subseteq Seq(Byte)
  BY <1>2, <1>3 DEF Prefix
<1>5. Seq(Byte) \subseteq Seq(Int)
  BY <1>1, SeqMonotonic
<1>6. ASSUME NEW p \in Path PROVE p \in Prefix
  <2>1. p \in Seq(Byte) /\ Len(p) \in Nat
    BY PathAssumption, LenProperties
  <2>2. SubSeq(p, 1, Len(p)) = p
    BY <2>1, SubSeqFull
  <2>3. Len(p) \in 0 .. Len(p)
    BY <2>1
  <2> QED
    BY <2>2, <2>3, CutInPrefix
<1> QED
  BY <1>1, <1>2, <1>4, <1>5, <1>6

\* The next node on the way to a path.
LEMMA NextFacts ==
    ASSUME NEW p \in Path, NEW n \in Prefix, Len(n) <= Len(p), n = SubSeq(p, 1, Len(n)), n # p
    PROVE  LET c == Append(n, p[Len(n) + 1])
           IN  /\ Len(n) < Len(p) /\ c \in Prefix /\ Len(c) = Len(n) + 1 /\ Len(c) <= Len(p)
               /\ c = SubSeq(p, 1, Len(c))
<1> DEFINE c == Append(n, p[Len(n) + 1])
           d == SubSeq(p, 1, Len(n) + 1)
<1>1. p \in Seq(Int) /\ n \in Seq(Int) /\ Len(p) \in Nat /\ Len(n) \in Nat
  BY PrefixFacts, LenProperties
<1>2. Len(n) < Len(p)
  BY <1>1, SubSeqFull
<1>3. Len(n) \in 0 .. Len(p) /\ Len(n) + 1 \in 0 .. Len(p) /\ Len(n) + 1 \in 1 .. Len(p)
  BY <1>1, <1>2
<1>4. p[Len(n) + 1] \in Int
  BY <1>1, <1>3, ElementOfSeq
<1>5. /\ c \in Seq(Int) /\ Len(c) = Len(n) + 1 /\ c[Len(n) + 1] = p[Len(n) + 1]
      /\ \A j \in 1 .. Len(n) : c[j] = n[j]
  BY <1>1, <1>4, AppendProperties
<1>6. /\ d \in Seq(Int) /\ Len(d) = Len(n) + 1
      /\ \A j \in 1 .. Len(n) + 1 : d[j] = p[j]
  BY <1>1, <1>3, CutFacts
<1>7. \A j \in 1 .. Len(n) : n[j] = p[j]
  BY <1>1, <1>3, CutFacts
<1> HIDE DEF c, d
<1>8. ASSUME NEW j \in 1 .. Len(n) + 1 PROVE c[j] = d[j]
  <2>1. d[j] = p[j]
    BY <1>6
  <2>2. CASE j \in 1 .. Len(n)
    BY <1>5, <1>7, <2>1, <2>2
  <2>3. CASE j = Len(n) + 1
    BY <1>5, <2>1, <2>3
  <2> QED
    BY <1>1, <2>2, <2>3
<1>9. c = d
  BY <1>5, <1>6, <1>8, SeqEqual
<1>10. d \in Prefix
  BY <1>3, CutInPrefix DEF d
<1> QED
  BY <1>2, <1>5, <1>9, <1>10 DEF c, d

\* Operations.
LEMMA OperationFacts ==
    ASSUME NEW o \in Operation
    PROVE  /\ o # Null
           /\ o.name \in {"insert", "delete", "search", "collect"}
           /\ o.name # "collect" => o.path \in Path
           /\ o.name = "insert" => o.server \in Server
BY NullAssumption DEF Operation

-----------------------------------------------------------------------------
(* The invariant                                                           *)

\* Every node hangs on those above it, and what is mapped is there.
Shape ==
    /\ Root \in nodes
    /\ \A n \in nodes : \A i \in 0 .. Len(n) : SubSeq(n, 1, i) \in nodes
    /\ \A n \in Prefix : ss_info[n] # Null => n \in nodes /\ n \in Path

Does(t, names) == op[t] # Null /\ op[t].name \in names

OnPath(t) == Len(at[t]) <= Len(op[t].path) /\ at[t] = SubSeq(op[t].path, 1, Len(at[t]))

\* A listing under way: it has the lock of the root.
Inside(t) == /\ Does(t, {"collect"})
             /\ pc[t] = "locked" \/ (pc[t] = "lock" /\ at[t] # Root)

\* A mutation that has had the lock of the root, and is not done.
Past(t) == /\ Does(t, Mutations)
           /\ pc[t] \in {"locked", "between"} \/ (pc[t] = "lock" /\ at[t] # Root)

Walk(t) ==
    /\ pc[t] = "idle" <=> op[t] = Null
    /\ pc[t] = "return" <=> result[t] # Null
    /\ pc[t] \in {"idle", "mutex"} => at[t] = Root
    /\ pc[t] = "mutex" => Does(t, Mutations)
    /\ pc[t] \in {"lock", "locked", "between"} => at[t] \in nodes
    /\ Does(t, {"insert", "delete", "search"}) => OnPath(t)
    /\ pc[t] = "between" => /\ Does(t, {"insert", "delete", "search"})
                            /\ at[t] # op[t].path /\ NextNode(t) \in nodes
    /\ Does(t, Mutations) /\ pc[t] # "mutex" => ss_list_mutex = t
    /\ \/ Inside(t)
       \/ Does(t, {"collect"}) /\ pc[t] = "return"
       \/ seen[t] = {} /\ paths[t] = {}

\* What a listing has found is what it will answer of the places it has been to, for
\* one content the trie has had; of the other places that content is the present one.
Sofar(t) == \E m \in seen[t] :
    /\ \A q \in Path \ Been(t) : m[q] = ss_info[q]
    /\ Found(paths[t], m, Been(t))

Watch(t) ==
    /\ Inside(t) => t \in readers[Root] /\ Sofar(t)
    /\ seen[t] # {} => Mapping \in seen[t]
    /\ \A u \in Thread : Inside(t) /\ Past(u) => seen[t] = {Mapping}

Inv == TypeOK /\ Shape /\ \A t \in Thread : Walk(t) /\ Watch(t)

-----------------------------------------------------------------------------
\* One thread moves; nodes stay; the mutex does not change hands against another.
Moves(t) ==
    /\ nodes \subseteq nodes'
    /\ \A u \in Thread \ {t} :
          /\ pc'[u] = pc[u] /\ op'[u] = op[u] /\ result'[u] = result[u] /\ at'[u] = at[u]
          /\ index'[u] = index[u] /\ paths'[u] = paths[u]
          /\ seen[u] = {} => seen'[u] = {}
          /\ ss_list_mutex = u => ss_list_mutex' = u

\* Then the others are where they were.
LEMMA OthersWalk ==
    ASSUME Inv, NEW t \in Thread, Moves(t), NEW u \in Thread \ {t}
    PROVE  /\ Walk(u)' /\ Inside(u)' = Inside(u) /\ Past(u)' = Past(u)
           /\ Been(u)' = Been(u)
<1>1. Walk(u)
  BY DEF Inv
<1>2. Inside(u)' = Inside(u) /\ Past(u)' = Past(u) /\ Been(u)' = Been(u)
  BY DEF Moves, Inside, Past, Does, Been, Upto
<1> QED
  BY <1>1, <1>2 DEF Moves, Walk, Does, OnPath, NextNode

\* A step that changes no mapping: the others' listings are what they were.
LEMMA OthersWatch ==
    ASSUME Inv, TypeOK', NEW t \in Thread, Moves(t), ss_info' = ss_info,
           Past(t)' => Past(t) \/ readers[Root] = {},
           NEW u \in Thread \ {t},
           readers'[Root] = readers[Root] \cup {t} \/ readers'[Root] = readers[Root] \ {t}
               \/ readers'[Root] = readers[Root],
           seen'[u] = seen[u]
    PROVE  Watch(u)'
<1>1. Watch(u) /\ Mapping' = Mapping
  BY DEF Inv, Mapping
<1>2. Inside(u)' = Inside(u) /\ Been(u)' = Been(u) /\ paths'[u] = paths[u]
  BY OthersWalk DEF Moves
<1>3. \A v \in Thread \ {t} : Past(v)' = Past(v)
  BY OthersWalk
<1>4. Sofar(u) => Sofar(u)'
  BY <1>2 DEF Sofar
<1> QED
  BY <1>1, <1>2, <1>3, <1>4 DEF Watch

\* A step is judged by what it does to its own thread and to the others' listings.
LEMMA Together ==
    ASSUME Inv, TypeOK', Shape', NEW t \in Thread, Moves(t), Walk(t)', Watch(t)',
           \A u \in Thread \ {t} : Watch(u)'
    PROVE  Inv'
<1>1. \A u \in Thread \ {t} : Walk(u)'
  BY OthersWalk
<1> QED
  BY <1>1 DEF Inv

\* A step of a thread that is not listing, and that maps nothing.
LEMMA CalmStep ==
    ASSUME Inv, TypeOK', Shape', NEW t \in Thread, Moves(t), ss_info' = ss_info,
           Past(t)' => Past(t) \/ readers[Root] = {},
           readers'[Root] = readers[Root] \cup {t} \/ readers'[Root] = readers[Root] \ {t}
               \/ readers'[Root] = readers[Root],
           seen' = seen \/ seen' = [seen EXCEPT ![t] = {}],
           Walk(t)', ~Inside(t)'
    PROVE  Inv'
<1>1. \A u \in Thread \ {t} : seen'[u] = seen[u]
  BY DEF Inv, TypeOK
<1>2. \A u \in Thread \ {t} : Watch(u)'
  BY <1>1, OthersWatch
<1>3. seen'[t] \in {seen[t], {}} /\ Mapping' = Mapping
  BY DEF Inv, TypeOK, Mapping
<1>4. Watch(t)'
  BY <1>3 DEF Watch, Inv
<1> QED
  BY <1>2, <1>4, Together

\* Locking and unlocking.
LEMMA LockFacts ==
    ASSUME TypeOK, NEW t \in Thread, NEW n \in Prefix,
           ReadLock(t, n) \/ WriteLock(t, n) \/ Unlock(t, n)
    PROVE  /\ readers' \in [Prefix -> SUBSET Thread]
           /\ writer' \in [Prefix -> Thread \cup {Null}]
           /\ readers'[Root] = readers[Root] \cup {t} \/ readers'[Root] = readers[Root] \ {t}
               \/ readers'[Root] = readers[Root]
           /\ n # Root => readers'[Root] = readers[Root]
<1>1. Root \in Prefix
  BY PrefixFacts
<1>2. CASE ReadLock(t, n)
  BY <1>1, <1>2 DEF ReadLock, TypeOK
<1>3. CASE WriteLock(t, n)
  BY <1>1, <1>3 DEF WriteLock, ReadLock, TypeOK
<1>4. CASE Unlock(t, n)
  BY <1>1, <1>4 DEF Unlock, ReadLock, TypeOK
<1> QED
  BY <1>2, <1>3, <1>4

\* Every path begins at the root.
LEMMA RootFacts ==
    ASSUME NEW p \in Path
    PROVE  Len(Root) <= Len(p) /\ Root = SubSeq(p, 1, Len(Root))
<1>1. Len(Root) = 0 /\ Len(p) \in Nat /\ p \in Seq(Int)
  BY PrefixFacts, LenProperties DEF Root
<1>2. SubSeq(p, 1, 0) = << >>
  BY SubSeqEmpty
<1> QED
  BY <1>1, <1>2 DEF Root

-----------------------------------------------------------------------------
(* The steps keep the invariant                                            *)

\* A call.
LEMMA CallKeeps ==
    ASSUME Inv, NEW t \in Thread, Call(t)
    PROVE  Inv'
<1>1. PICK o \in Calls[t] : /\ op' = [op EXCEPT ![t] = o]
                            /\ Goto(t, IF o.name \in Mutations THEN "mutex" ELSE "lock")
  BY DEF Call
<1>2. o \in Operation
  BY <1>1, CallsAssumption
<1>3. TypeOK'
  BY <1>1, <1>2 DEF Inv, TypeOK, Call, Goto, Location, locks
<1>4. Shape' /\ ss_info' = ss_info /\ readers' = readers /\ seen' = seen
  BY DEF Inv, Shape, Call, locks
<1>5. /\ op'[t] = o /\ pc'[t] = (IF o.name \in Mutations THEN "mutex" ELSE "lock")
      /\ UNCHANGED <<at, result, paths, seen, nodes, ss_list_mutex>>
      /\ at[t] = Root /\ result[t] = Null /\ seen[t] = {} /\ paths[t] = {} /\ Root \in nodes
  BY <1>1 DEF Inv, TypeOK, Walk, Call, Goto, Inside, Does, Shape
<1>6. Moves(t)
  BY <1>1, <1>5 DEF Moves, Inv, TypeOK, Call, Goto
<1>7. Walk(t)' /\ ~Inside(t)' /\ ~Past(t)'
  BY <1>2, <1>5, OperationFacts, RootFacts DEF Walk, Inside, Past, Does, OnPath, Mutations
<1> QED
  BY <1>3, <1>4, <1>6, <1>7, CalmStep

\* The mutex of the mutations.
LEMMA TakeMutexKeeps ==
    ASSUME Inv, NEW t \in Thread, TakeMutex(t)
    PROVE  Inv'
<1>1. TypeOK'
  BY DEF Inv, TypeOK, TakeMutex, Goto, Location, locks
<1>2. Shape' /\ ss_info' = ss_info /\ readers' = readers /\ seen' = seen
  BY DEF Inv, Shape, TakeMutex, locks
<1>3. /\ pc[t] = "mutex" /\ pc'[t] = "lock" /\ ss_list_mutex' = t
      /\ UNCHANGED <<op, at, result, paths, seen, nodes>>
      /\ at[t] = Root /\ result[t] = Null /\ Does(t, Mutations) /\ Root \in nodes
      /\ seen[t] = {} /\ paths[t] = {}
  BY DEF Inv, TypeOK, Walk, TakeMutex, Goto, Shape, Inside
<1>4. Moves(t)
  BY <1>3, NullAssumption DEF Moves, Inv, TypeOK, TakeMutex, Goto
<1>5. Walk(t)' /\ ~Inside(t)' /\ ~Past(t)'
  BY <1>3 DEF Walk, Inside, Past, Does, OnPath, Mutations, Inv
<1> QED
  BY <1>1, <1>2, <1>4, <1>5, CalmStep

\* The way back to the handler.
LEMMA ReturnKeeps ==
    ASSUME Inv, NEW t \in Thread, Return(t)
    PROVE  Inv'
<1>1. TypeOK'
  BY PrefixFacts DEF Inv, TypeOK, Return, Goto, Location, locks
<1>2. Shape' /\ ss_info' = ss_info /\ readers' = readers /\ seen' = [seen EXCEPT ![t] = {}]
  BY DEF Inv, Shape, Return, locks
<1>3. /\ pc[t] = "return" /\ pc'[t] = "idle" /\ op'[t] = Null /\ result'[t] = Null
      /\ at'[t] = Root /\ seen'[t] = {} /\ paths'[t] = {} /\ nodes' = nodes /\ op[t] # Null
  BY DEF Inv, TypeOK, Walk, Return, Goto
<1>4. Does(t, Mutations) => ss_list_mutex = t
  BY <1>3 DEF Inv, Walk
<1>5. Moves(t)
  BY <1>3, <1>4 DEF Moves, Inv, TypeOK, Return, Goto, Does
<1>6. Walk(t)' /\ ~Inside(t)' /\ ~Past(t)'
  BY <1>3 DEF Walk, Inside, Past, Does
<1> QED
  BY <1>1, <1>2, <1>5, <1>6, CalmStep

\* A walk locks a node.
LEMMA LockNodeKeeps ==
    ASSUME Inv, NEW t \in Thread, LockNode(t)
    PROVE  Inv'
<1>1. /\ pc[t] = "lock" /\ op[t] # Null /\ Does(t, {"insert", "delete", "search"})
      /\ at[t] \in Prefix
  BY DEF Inv, TypeOK, Walk, LockNode, Doing, Does, Mutations
<1>2. \/ Does(t, Mutations) /\ WriteLock(t, at[t])
      \/ ~Does(t, Mutations) /\ ReadLock(t, at[t])
  BY <1>1 DEF LockNode, Doing, Does, Mutations
<1>3. TypeOK'
  BY <1>1, <1>2, LockFacts DEF Inv, TypeOK, LockNode, Goto, Location
<1>4. Shape' /\ ss_info' = ss_info /\ seen' = seen
  BY DEF Inv, Shape, LockNode
<1>5. pc'[t] = "locked" /\ UNCHANGED <<op, at, result, paths, seen, nodes, ss_list_mutex>>
  BY DEF Inv, TypeOK, LockNode, Goto
<1>6. Moves(t)
  BY <1>5 DEF Moves, Inv, TypeOK, LockNode, Goto
<1>7. Walk(t)' /\ ~Inside(t)'
  BY <1>1, <1>5 DEF Walk, Inside, Does, OnPath, Inv, Mutations
<1>8. Past(t)' => Past(t) \/ readers[Root] = {}
  BY <1>1, <1>2, <1>5 DEF Past, Does, WriteLock
<1>9. \/ readers'[Root] = readers[Root] \cup {t} \/ readers'[Root] = readers[Root] \ {t}
      \/ readers'[Root] = readers[Root]
  BY <1>1, <1>2, LockFacts DEF Inv
<1> QED
  BY <1>3, <1>4, <1>6, <1>7, <1>8, <1>9, CalmStep

\* A walk goes from a node to the next.
LEMMA StepKeeps ==
    ASSUME Inv, NEW t \in Thread, Step(t)
    PROVE  Inv'
<1>1. /\ pc[t] = "locked" /\ Does(t, {"insert", "delete", "search"})
      /\ at[t] # op[t].path /\ op[t].path \in Path /\ at[t] \in Prefix /\ at[t] \in nodes
      /\ OnPath(t)
  BY OperationFacts DEF Inv, TypeOK, Walk, Step, Doing, Does, AtEnd
<1>2. /\ NextNode(t) \in Prefix /\ Len(at[t]) \in Nat /\ at[t] \in Seq(Int)
      /\ op[t].path[Len(at[t]) + 1] \in Int
  <2>1. at[t] \in Seq(Int) /\ op[t].path \in Seq(Int)
    BY <1>1, PrefixFacts
  <2>2. Len(at[t]) \in Nat /\ Len(op[t].path) \in Nat
    BY <2>1, LenProperties
  <2>3. NextNode(t) \in Prefix /\ Len(at[t]) < Len(op[t].path)
    BY <1>1, NextFacts DEF OnPath, NextNode
  <2>4. Len(at[t]) + 1 \in 1 .. Len(op[t].path)
    BY <2>2, <2>3
  <2> QED
    BY <2>1, <2>2, <2>3, <2>4, ElementOfSeq
<1>3. nodes' \in {nodes, nodes \cup {NextNode(t)}} /\ NextNode(t) \in nodes'
  BY DEF Step
<1>4. TypeOK'
  <2>1. nodes' \subseteq Prefix
    BY <1>2, <1>3 DEF Inv, TypeOK
  <2>2. readers' \in [Prefix -> SUBSET Thread] /\ writer' \in [Prefix -> Thread \cup {Null}]
    BY <1>1, LockFacts DEF Inv, Step
  <2> QED
    BY <2>1, <2>2 DEF Inv, TypeOK, Step, Goto, Location
<1>5. Shape'
  <2>1. ASSUME NEW i \in 0 .. Len(NextNode(t)) PROVE SubSeq(NextNode(t), 1, i) \in nodes'
    <3> DEFINE c == NextNode(t)  n == at[t]
    <3>1. /\ c \in Seq(Int) /\ Len(c) = Len(n) + 1 /\ \A j \in 1 .. Len(n) : c[j] = n[j]
      BY <1>2, AppendProperties DEF NextNode
    <3>2. CASE i = Len(c)
      BY <1>3, <3>1, <3>2, SubSeqFull
    <3>3. CASE i <= Len(n)
      <4>1. i \in Nat /\ i <= Len(c) /\ \A j \in 1 .. i : c[j] = n[j]
        BY <1>2, <3>1, <3>3
      <4>2. SubSeq(c, 1, i) = SubSeq(n, 1, i)
        <5> HIDE DEF c, n
        <5> QED
          BY <1>2, <3>1, <3>3, <4>1, CutsEqual DEF n
      <4>3. SubSeq(n, 1, i) \in nodes
        BY <1>1, <1>2, <3>3, <4>1 DEF Inv, Shape
      <4>4. SubSeq(n, 1, i) \in nodes'
        BY <1>3, <4>3
      <4> HIDE DEF c, n
      <4> QED
        BY <4>2, <4>4 DEF c
    <3> QED
      BY <1>2, <3>1, <3>2, <3>3
  <2> QED
    BY <1>3, <2>1 DEF Inv, Shape, Step
<1>6. /\ pc'[t] = "between" /\ ss_info' = ss_info /\ seen' = seen
      /\ UNCHANGED <<op, at, result, paths, ss_list_mutex>>
  BY DEF Inv, TypeOK, Step, Goto
<1>7. Moves(t)
  BY <1>3, <1>6 DEF Moves, Inv, TypeOK, Step, Goto
<1>8. Walk(t)' /\ ~Inside(t)' /\ (Past(t)' => Past(t))
  BY <1>1, <1>3, <1>6 DEF Walk, Inside, Past, Does, OnPath, NextNode, Inv, Mutations
<1>9. \/ readers'[Root] = readers[Root] \cup {t} \/ readers'[Root] = readers[Root] \ {t}
      \/ readers'[Root] = readers[Root]
  BY <1>1, LockFacts DEF Inv, Step
<1> QED
  BY <1>4, <1>5, <1>6, <1>7, <1>8, <1>9, CalmStep

\* A walk follows the pointer.
LEMMA FollowKeeps ==
    ASSUME Inv, NEW t \in Thread, Follow(t)
    PROVE  Inv'
<1>1. /\ pc[t] = "between" /\ Does(t, {"insert", "delete", "search"})
      /\ at[t] # op[t].path /\ op[t].path \in Path /\ at[t] \in Prefix /\ OnPath(t)
      /\ NextNode(t) \in nodes
  BY OperationFacts DEF Inv, TypeOK, Walk, Follow, Does
<1>2. /\ NextNode(t) \in Prefix /\ Len(NextNode(t)) <= Len(op[t].path)
      /\ NextNode(t) = SubSeq(op[t].path, 1, Len(NextNode(t)))
  BY <1>1, NextFacts DEF OnPath, NextNode
<1>3. TypeOK'
  BY <1>2 DEF Inv, TypeOK, Follow, Goto, Location, locks
<1>4. Shape' /\ ss_info' = ss_info /\ readers' = readers /\ seen' = seen
  BY DEF Inv, Shape, Follow, locks
<1>5. /\ pc'[t] = "lock" /\ at'[t] = NextNode(t)
      /\ UNCHANGED <<op, result, paths, ss_list_mutex, nodes>>
  BY DEF Inv, TypeOK, Follow, Goto
<1>6. Moves(t)
  BY <1>5 DEF Moves, Inv, TypeOK, Follow, Goto
<1>7. Walk(t)' /\ ~Inside(t)' /\ (Past(t)' => Past(t))
  BY <1>1, <1>2, <1>4, <1>5 DEF Walk, Inside, Past, Does, OnPath, Inv, Mutations
<1> QED
  BY <1>3, <1>4, <1>6, <1>7, CalmStep

\* What a walk does at its end, short of changing the mapping.
LEMMA FoundKeeps ==
    ASSUME Inv, NEW t \in Thread, NoSuchPath(t) \/ Find(t)
    PROVE  Inv'
<1>1. /\ pc[t] = "locked" /\ Does(t, {"insert", "delete", "search"}) /\ at[t] \in Prefix
      /\ OnPath(t)
  BY DEF Inv, TypeOK, Walk, NoSuchPath, Find, Doing, Does
<1>2. PICK a \in Server \cup {Null} : Answer(t, a)
  BY <1>1 DEF Inv, TypeOK, NoSuchPath, Find
<1>3. /\ [answer |-> a] \in [answer : Server \cup {Null} \cup SUBSET Path]
      /\ [answer |-> a] # Null
  BY NullAssumption
<1>4. TypeOK'
  <2>1. readers' \in [Prefix -> SUBSET Thread] /\ writer' \in [Prefix -> Thread \cup {Null}]
    BY <1>1, LockFacts DEF Inv, NoSuchPath, Find
  <2>2. result' \in [Thread -> [answer : Server \cup {Null} \cup SUBSET Path] \cup {Null}]
    BY <1>2, <1>3 DEF Answer, Inv, TypeOK
  <2> QED
    BY <2>1, <2>2 DEF Inv, TypeOK, NoSuchPath, Find, Goto, Location
<1>5. Shape' /\ ss_info' = ss_info /\ seen' = seen
  BY DEF Inv, Shape, NoSuchPath, Find
<1>6. /\ pc'[t] = "return" /\ result'[t] = [answer |-> a]
      /\ UNCHANGED <<op, at, paths, ss_list_mutex, nodes>>
  BY <1>2 DEF Inv, TypeOK, NoSuchPath, Find, Goto, Answer
<1>7. Moves(t)
  BY <1>2, <1>5, <1>6 DEF Moves, Inv, TypeOK, NoSuchPath, Find, Goto, Answer
<1>8. Walk(t)' /\ ~Inside(t)' /\ ~Past(t)'
  BY <1>1, <1>3, <1>5, <1>6 DEF Walk, Inside, Past, Does, OnPath, Inv, Mutations
<1>9. \/ readers'[Root] = readers[Root] \cup {t} \/ readers'[Root] = readers[Root] \ {t}
      \/ readers'[Root] = readers[Root]
  BY <1>1, LockFacts DEF Inv, NoSuchPath, Find
<1> QED
  BY <1>4, <1>5, <1>7, <1>8, <1>9, CalmStep

-----------------------------------------------------------------------------
(* Listings                                                                *)

\* Places and orders are of one kind.
LEMMA UptoFacts ==
    ASSUME TypeOK, NEW t \in Thread
    PROVE  /\ at[t] \in Seq(Int) /\ index[t] \in Int /\ Upto(t) \in Seq(Int)
           /\ Been(t) \subseteq Path
<1>1. at[t] \in Seq(Int) /\ index[t] \in Int
  <2>1. at[t] \in Prefix
    BY DEF TypeOK
  <2>2. at[t] \in Seq(Int)
    BY <2>1, PrefixFacts
  <2>3. index[t] \in 0 .. 255
    BY DEF TypeOK
  <2>4. index[t] \in Int
    BY <2>3
  <2> QED
    BY <2>2, <2>4
<1>2. Append(at[t], index[t] + 1) \in Seq(Int)
  BY <1>1, AppendProperties
<1> QED
  BY <1>1, <1>2 DEF Upto, Been

\* Where a listing has been it has been to all that comes before.
LEMMA BeenClosed ==
    ASSUME TypeOK, NEW t \in Thread, NEW q \in Been(t), NEW r \in Path, Before(r, q)
    PROVE  r \in Been(t)
BY UptoFacts, PrefixFacts, BeforeTransitive DEF Been

\* A listing shows what has few mapped paths before it.
LEMMA ListingIs ==
    ASSUME NEW m, NEW p
    PROVE  p \in Promise!Listing(m) <=>
             p \in Mapped(m) /\ Cardinality(Rank(m, p)) < MAX_ACCESSIBLE_PATHS
<1> DEFINE mapped == {q \in Path : m[q] # Null}
<1>1. Promise!Listing(m) =
        {q \in mapped : Cardinality({r \in mapped : Before(r, q)}) < MAX_ACCESSIBLE_PATHS}
  BY DEF Promise!Listing, Promise!Cardinality, Cardinality
<1>2. mapped = Mapped(m) /\ {r \in mapped : Before(r, p)} = Rank(m, p)
  BY DEF Mapped, Rank
<1> QED
  BY <1>1, <1>2

\* What a listing shows of such places depends on these places only.
LEMMA ListingLocal ==
    ASSUME NEW m1, NEW m2, NEW D \in SUBSET Path,
           \A q \in D : m1[q] = m2[q],
           \A q \in D : \A r \in Path : Before(r, q) => r \in D
    PROVE  /\ Promise!Listing(m1) \cap D = Promise!Listing(m2) \cap D
           /\ Mapped(m1) \cap D = Mapped(m2) \cap D
<1>1. ASSUME NEW p \in D
      PROVE  {q \in Mapped(m1) : Before(q, p)} = {q \in Mapped(m2) : Before(q, p)}
  BY DEF Mapped
<1>2. Mapped(m1) \cap D = Mapped(m2) \cap D
  BY DEF Mapped
<1> QED
  BY <1>1, <1>2, ListingIs DEF Rank

\* A listing that comes to a node takes its path just when it is to be listed.
LEMMA Collecting ==
    ASSUME NEW m, NEW n \in Prefix, NEW P, NEW D,
           \A q : q \in D <=> q \in Path /\ Before(q, n), Found(P, m, D)
    PROVE  Found(With(P, m, n), m, D \cup ({n} \cap Path))
<1> DEFINE E == D \cup ({n} \cap Path)
           Q == With(P, m, n)
<1>0. /\ P = Promise!Listing(m) \cap D
      /\ Cardinality(P) < MAX_ACCESSIBLE_PATHS => P = Mapped(m) \cap D
  BY DEF Found
<1>1. Promise!Listing(m) \subseteq Mapped(m)
  BY ListingIs
<1>2. Rank(m, n) = Mapped(m) \cap D
  BY DEF Mapped, Rank
<1>3. IsFiniteSet(Mapped(m) \cap D) /\ P \subseteq Mapped(m) \cap D
  <2>1. Mapped(m) \cap D \in SUBSET Path
    BY DEF Mapped
  <2> QED
    BY <1>0, <1>1, <2>1, FS_Subset, PathAssumption
<1>4. /\ Cardinality(P) \in Nat /\ Cardinality(Mapped(m) \cap D) \in Nat
      /\ Cardinality(P) <= Cardinality(Mapped(m) \cap D)
  BY <1>3, FS_Subset, FS_CardinalityType
<1>5. ASSUME n \in Mapped(m)
      PROVE  n \in Promise!Listing(m) <=> Cardinality(P) < MAX_ACCESSIBLE_PATHS
  <2>1. ASSUME Cardinality(P) < MAX_ACCESSIBLE_PATHS PROVE n \in Promise!Listing(m)
    BY <1>0, <1>2, <1>5, <2>1, ListingIs
  <2>2. ASSUME n \in Promise!Listing(m) PROVE Cardinality(P) < MAX_ACCESSIBLE_PATHS
    <3>1. Cardinality(Mapped(m) \cap D) < MAX_ACCESSIBLE_PATHS
      BY <1>2, <2>2, ListingIs
    <3> QED
      BY <1>4, <3>1, LimitAssumption
  <2> QED
    BY <2>1, <2>2
<1>6. Mapped(m) \subseteq Path
  BY DEF Mapped
<1>7. Q = Promise!Listing(m) \cap E
  BY <1>0, <1>1, <1>5, <1>6 DEF With
<1>8. ASSUME Cardinality(Q) < MAX_ACCESSIBLE_PATHS PROVE Q = Mapped(m) \cap E
  <2>1. Cardinality(P) < MAX_ACCESSIBLE_PATHS
    BY <1>8 DEF With
  <2> QED
    BY <1>0, <1>6, <2>1 DEF With
<1> QED
  BY <1>7, <1>8 DEF Found

\* A listing that passes nothing but places that are not mapped has missed nothing.
LEMMA SofarGrows ==
    ASSUME TypeOK, NEW t \in Thread, Sofar(t),
           ss_info' = ss_info, seen'[t] = seen[t], paths'[t] = paths[t],
           Been(t) \subseteq Been(t)', Been(t)' \subseteq Path,
           \A q \in Been(t)' \ Been(t) : ss_info[q] = Null
    PROVE  Sofar(t)'
<1>1. PICK m \in seen[t] : /\ \A q \in Path \ Been(t) : m[q] = ss_info[q]
                           /\ Found(paths[t], m, Been(t))
  BY DEF Sofar
<1>2. \A q \in Been(t)' \ Been(t) : q \notin Mapped(m)
  BY <1>1 DEF Mapped
<1>3. Promise!Listing(m) \subseteq Mapped(m)
  BY DEF Promise!Listing, Mapped
<1>4. /\ Promise!Listing(m) \cap Been(t)' = Promise!Listing(m) \cap Been(t)
      /\ Mapped(m) \cap Been(t)' = Mapped(m) \cap Been(t)
  BY <1>2, <1>3
<1> QED
  BY <1>1, <1>4 DEF Sofar, Found

\* The child of a node on the way to a path that is mapped.
LEMMA BelowNode ==
    ASSUME Inv, NEW n \in Prefix, NEW q \in Path, Below(q, n), Len(n) < Len(q),
           ss_info[q] # Null
    PROVE  q[Len(n) + 1] \in Byte /\ Append(n, q[Len(n) + 1]) \in nodes
<1>1. /\ q \in Seq(Byte) /\ q \in Seq(Int) /\ n \in Seq(Int) /\ q \in Prefix
      /\ Len(q) \in Nat /\ Len(n) \in Nat
  BY PrefixFacts, LenProperties
<1>2. Len(n) \in 0 .. Len(q) /\ Len(n) + 1 \in 0 .. Len(q) /\ Len(n) + 1 \in 1 .. Len(q)
  BY <1>1
<1>3. q[Len(n) + 1] \in Byte
  BY <1>1, <1>2, ElementOfSeq
<1>4. n = SubSeq(q, 1, Len(n))
  <2> DEFINE d == SubSeq(q, 1, Len(n))
  <2>1. d \in Seq(Int) /\ Len(d) = Len(n) /\ \A j \in 1 .. Len(n) : d[j] = q[j]
    BY <1>1, <1>2, CutFacts
  <2>2. \A j \in 1 .. Len(n) : n[j] = d[j]
    BY <2>1 DEF Below
  <2> HIDE DEF d
  <2>3. n = d
    BY <1>1, <2>1, <2>2, SeqEqual
  <2> QED
    BY <2>3 DEF d
<1>5. n # q
  BY <1>1
<1> DEFINE c == Append(n, q[Len(n) + 1])
<1>6. Len(c) = Len(n) + 1 /\ c = SubSeq(q, 1, Len(c))
  BY <1>1, <1>4, <1>5, NextFacts
<1>7. q \in nodes
  BY <1>1 DEF Inv, Shape
<1>8. SubSeq(q, 1, Len(n) + 1) \in nodes
  BY <1>2, <1>7 DEF Inv, Shape
<1> HIDE DEF c
<1>9. c \in nodes
  BY <1>6, <1>8
<1> QED
  BY <1>3, <1>9 DEF c

\* A mutation takes effect.  It is the only one that has passed the root: each listing
\* under way has seen no other, and shows it if the place is still to come.
LEMMA StoreKeeps ==
    ASSUME Inv, NEW t \in Thread, Store(t)
    PROVE  Inv'
<1>1. /\ pc[t] = "locked" /\ Does(t, Mutations) /\ at[t] = op[t].path /\ at[t] \in Path
      /\ at[t] \in Prefix /\ at[t] \in nodes /\ OnPath(t) /\ ss_list_mutex = t
  BY OperationFacts DEF Inv, TypeOK, Walk, Store, Doing, Does, AtEnd, Mutations
<1>2. Past(t)
  BY <1>1 DEF Past
<1>3. NewInfo(t) \in Server \cup {Null}
  BY <1>1, OperationFacts DEF NewInfo, Does, Inv, TypeOK
<1>4. /\ ss_info' = [ss_info EXCEPT ![at[t]] = NewInfo(t)]
      /\ ss_info' \in [Prefix -> Server \cup {Null}]
      /\ \A q \in Prefix : q # at[t] => ss_info'[q] = ss_info[q]
  BY <1>1, <1>3 DEF Inv, TypeOK, Store
<1>5. /\ [answer |-> Null] \in [answer : Server \cup {Null} \cup SUBSET Path]
      /\ [answer |-> Null] # Null
  BY NullAssumption
<1>6. Mapping' \in [Path -> Server \cup {Null}]
  BY <1>4, PrefixFacts DEF Mapping
<1>7. \A u \in Thread : seen'[u] = IF seen[u] = {} THEN {} ELSE seen[u] \cup {Mapping'}
  BY DEF Store, Noticed
<1>8. /\ pc' = [pc EXCEPT ![t] = "return"] /\ result' = [result EXCEPT ![t] = [answer |-> Null]]
      /\ UNCHANGED <<nodes, ss_list_mutex, op, at, index, paths>>
  BY DEF Store, Goto, Answer
<1>9. TypeOK'
  <2>1. readers' \in [Prefix -> SUBSET Thread] /\ writer' \in [Prefix -> Thread \cup {Null}]
    BY <1>1, LockFacts DEF Inv, Store
  <2>2. seen' \in [Thread -> SUBSET [Path -> Server \cup {Null}]]
    <3> DEFINE maps == [Path -> Server \cup {Null}]
    <3>1. seen \in [Thread -> SUBSET maps] /\ Mapping' \in maps
      BY <1>6 DEF Inv, TypeOK
    <3> HIDE DEF maps
    <3>2. \A u \in Thread : seen'[u] \in SUBSET maps
      BY <1>7, <3>1
    <3>3. seen' \in [Thread -> SUBSET maps]
      BY <3>2 DEF Store, Noticed
    <3> QED
      BY <3>3 DEF maps
  <2> QED
    BY <1>4, <1>5, <1>8, <2>1, <2>2 DEF Inv, TypeOK, Location
<1>10. Shape'
  BY <1>1, <1>4, <1>8 DEF Inv, Shape
<1>11. Moves(t)
  BY <1>7, <1>8 DEF Moves, Inv, TypeOK
<1>12. /\ pc'[t] = "return" /\ result'[t] # Null /\ op'[t] = op[t] /\ op[t] # Null
       /\ at'[t] = at[t] /\ seen[t] = {} /\ paths[t] = {} /\ seen'[t] = {} /\ paths'[t] = {}
  BY <1>1, <1>5, <1>7, <1>8 DEF Inv, TypeOK, Walk, Inside, Does, Mutations
<1>13. Walk(t)' /\ ~Inside(t)' /\ ~Past(t)'
  BY <1>1, <1>8, <1>12 DEF Walk, Inside, Past, Does, OnPath, Mutations
<1>14. Watch(t)'
  BY <1>12, <1>13 DEF Watch
<1>15. ASSUME NEW u \in Thread \ {t} PROVE Watch(u)'
  <2>1. Inside(u)' = Inside(u) /\ Been(u)' = Been(u) /\ paths'[u] = paths[u] /\ Watch(u)
    BY <1>8, <1>11, OthersWalk DEF Inv
  <2>2. ASSUME NEW v \in Thread, Past(v)' PROVE FALSE
    <3>1. v # t /\ Past(v)
      BY <1>11, <1>13, <2>2, OthersWalk
    <3>2. ss_list_mutex = v
      BY <3>1 DEF Past, Inv, Walk
    <3> QED
      BY <1>1, <3>1, <3>2
  <2>3. u \in readers[Root] => u \in readers'[Root]
    BY <1>1, LockFacts DEF Inv, Store
  <2>4. ASSUME Inside(u) PROVE Sofar(u)'
    <3>1. Sofar(u) /\ seen[u] = {Mapping} /\ Mapping \in seen'[u] /\ Mapping' \in seen'[u]
      BY <1>2, <1>7, <2>1, <2>4 DEF Watch
    <3>2. /\ \A q \in Path \ Been(u) : Mapping[q] = ss_info[q]
          /\ Found(paths[u], Mapping, Been(u))
      BY <3>1 DEF Sofar
    <3> PICK m1 : m1 = Mapping
      OBVIOUS
    <3> PICK m2 : m2 = Mapping'
      OBVIOUS
    <3>3. \A q \in Path : m1[q] = ss_info[q] /\ m2[q] = ss_info'[q] /\ q \in Prefix
      BY PrefixFacts DEF Mapping
    <3>4. CASE at[t] \in Been(u)
      <4>1. \A q \in Path \ Been(u) : m1[q] = ss_info'[q]
        BY <1>4, <3>3, <3>4
      <4> QED
        BY <2>1, <3>1, <3>2, <4>1 DEF Sofar
    <3>5. CASE at[t] \notin Been(u)
      <4>1. Been(u) \in SUBSET Path
        BY DEF Been
      <4>2. \A q \in Been(u) : m1[q] = m2[q]
        BY <1>4, <3>3, <3>5, <4>1
      <4>3. \A q \in Been(u) : \A r \in Path : Before(r, q) => r \in Been(u)
        BY BeenClosed DEF Inv
      <4>4. /\ Promise!Listing(m1) \cap Been(u) = Promise!Listing(m2) \cap Been(u)
            /\ Mapped(m1) \cap Been(u) = Mapped(m2) \cap Been(u)
        BY <4>1, <4>2, <4>3, ListingLocal
      <4> QED
        BY <2>1, <3>1, <3>2, <3>3, <4>4 DEF Sofar, Found
    <3> QED
      BY <3>4, <3>5
  <2>5. seen'[u] # {} => Mapping' \in seen'[u]
    BY <1>7
  <2> QED
    BY <2>1, <2>2, <2>3, <2>4, <2>5 DEF Watch
<1> QED
  BY <1>9, <1>10, <1>11, <1>13, <1>14, <1>15, Together

\* A listing comes to a node.
LEMMA VisitKeeps ==
    ASSUME Inv, NEW t \in Thread, Visit(t)
    PROVE  Inv'
<1> DEFINE n == at[t]
<1>1. /\ pc[t] = "lock" /\ Does(t, {"collect"}) /\ n \in Prefix /\ n \in nodes
      /\ n \in Seq(Int) /\ ~Past(t)
  BY PrefixFacts DEF Inv, TypeOK, Walk, Visit, Doing, Does, Past, Mutations
<1>2. /\ paths' = [paths EXCEPT ![t] = Collected(t, n)]
      /\ index' = [index EXCEPT ![t] = 0] /\ pc' = [pc EXCEPT ![t] = "locked"]
      /\ seen' = IF n = Root THEN [seen EXCEPT ![t] = {Mapping}] ELSE seen
      /\ UNCHANGED <<nodes, ss_info, ss_list_mutex, op, result, at>> /\ ReadLock(t, n)
  BY DEF Visit, Goto
<1>3. n \in Mapped(Mapping) <=> ss_info[n] # Null
  BY <1>1 DEF Inv, Shape, Mapped, Mapping
<1>4. Mapping \in [Path -> Server \cup {Null}]
  BY PrefixFacts DEF Mapping, Inv, TypeOK
<1>5. Collected(t, n) \in SUBSET Path
  BY <1>1 DEF Collected, Inv, TypeOK, Shape
<1>6. TypeOK'
  <2>1. readers' \in [Prefix -> SUBSET Thread] /\ writer' \in [Prefix -> Thread \cup {Null}]
    BY <1>1, <1>2, LockFacts DEF Inv
  <2>2. seen' \in [Thread -> SUBSET [Path -> Server \cup {Null}]]
    BY <1>2, <1>4 DEF Inv, TypeOK
  <2> QED
    BY <1>2, <1>5, <2>1, <2>2 DEF Inv, TypeOK, Location
<1>7. Shape'
  BY <1>2 DEF Inv, Shape
<1>8. Moves(t)
  BY <1>2 DEF Moves, Inv, TypeOK
<1>9. /\ pc'[t] = "locked" /\ at'[t] = n /\ op'[t] = op[t] /\ index'[t] = 0
      /\ paths'[t] = Collected(t, n) /\ result'[t] = result[t] /\ nodes' = nodes
      /\ seen'[t] = IF n = Root THEN {Mapping} ELSE seen[t]
  BY <1>2 DEF Inv, TypeOK
<1>10. Inside(t)' /\ ~Past(t)'
  BY <1>1, <1>9 DEF Inside, Past, Does, Mutations
<1>11. Walk(t)'
  BY <1>1, <1>9, <1>10 DEF Walk, Does, Inv, Mutations, Inside
<1>12. Been(t)' = (IF n \in Path THEN Been(t) \cup {n} ELSE Been(t)) /\ n \notin Been(t)
  <2>1. Upto(t) = n /\ Upto(t)' = Append(n, 1)
    BY <1>1, <1>9 DEF Upto
  <2>2. ASSUME NEW q \in Path PROVE Before(q, Append(n, 1)) <=> Before(q, n) \/ q = n
    <3>1. q \in Seq(Int) /\ q \in Seq(Byte) /\ Len(q) \in Nat /\ Len(n) \in Nat
      BY <1>1, PrefixFacts, LenProperties
    <3>2. ASSUME Len(n) < Len(q) PROVE ~(q[Len(n) + 1] < 1)
      <4>1. Len(n) + 1 \in 1 .. Len(q)
        BY <3>1, <3>2
      <4>2. q[Len(n) + 1] \in Byte
        BY <3>1, <4>1, ElementOfSeq
      <4> DEFINE x == q[Len(n) + 1]
      <4>3. x \in 1 .. 255
        BY <4>2, ByteAssumption
      <4> HIDE DEF x
      <4>4. ~(x < 1)
        BY <4>3
      <4> QED
        BY <4>4 DEF x
    <3> QED
      BY <1>1, <3>1, <3>2, BeforeChild
  <2> QED
    BY <1>1, <2>1, <2>2, BeforeFacts DEF Been
<1>13. PICK m \in seen'[t] :
         /\ \A q \in Path \ Been(t) : m[q] = ss_info[q]
         /\ Found(paths[t], m, Been(t))
  <2>1. CASE n = Root
    <3>1. paths[t] = {}
      BY <1>1, <2>1 DEF Inv, Walk, Inside
    <3>2. Been(t) = {}
      BY <1>1, <2>1, BeforeFacts, PrefixFacts DEF Been, Upto
    <3>3. \A q \in Path : Mapping[q] = ss_info[q]
      BY DEF Mapping
    <3> QED
      BY <1>9, <2>1, <3>1, <3>2, <3>3 DEF Found
  <2>2. CASE n # Root
    <3>1. Sofar(t)
      BY <1>1, <2>2 DEF Inv, Watch, Inside
    <3> QED
      BY <1>9, <2>2, <3>1 DEF Sofar
  <2> QED
    BY <2>1, <2>2
<1>14. Sofar(t)'
  <2>1. n \in Mapped(m) <=> ss_info[n] # Null
    BY <1>1, <1>12, <1>13 DEF Mapped, Inv, Shape
  <2>2. Been(t)' = Been(t) \cup ({n} \cap Path)
    BY <1>12
  <2>3. \A q : q \in Been(t) <=> q \in Path /\ Before(q, n)
    BY <1>1 DEF Been, Upto
  <2>4. Found(With(paths[t], m, n), m, Been(t)')
    <3> HIDE DEF n
    <3> QED
      BY <1>1, <1>13, <2>2, <2>3, Collecting
  <2>5. With(paths[t], m, n) = paths'[t]
    BY <1>9, <2>1 DEF Collected, With
  <2>6. \A q \in Path \ Been(t)' : m[q] = ss_info'[q]
    BY <1>2, <1>12, <1>13
  <2> QED
    BY <1>13, <2>4, <2>5, <2>6 DEF Sofar
<1>15. Watch(t)'
  <2>1. t \in readers'[Root]
    <3>1. CASE n = Root
      BY <1>1, <1>2, <3>1 DEF ReadLock, Inv, TypeOK
    <3>2. CASE n # Root
      <4>1. t \in readers[Root]
        BY <1>1, <3>2 DEF Inv, Watch, Inside
      <4> QED
        BY <1>1, <1>2, <3>2, <4>1, LockFacts DEF Inv
    <3> QED
      BY <3>1, <3>2
  <2>2. Mapping' \in seen'[t]
    <3>1. Mapping' = Mapping
      BY <1>2 DEF Mapping
    <3>2. n # Root => Inside(t)
      BY <1>1 DEF Inside
    <3>3. n # Root => seen[t] # {}
      BY <3>2 DEF Inv, Watch, Sofar
    <3> QED
      BY <1>9, <3>1, <3>3 DEF Inv, Watch
  <2>3. ASSUME NEW v \in Thread, Past(v)' PROVE seen'[t] = {Mapping'}
    <3>1. Mapping' = Mapping
      BY <1>2 DEF Mapping
    <3>2. v # t /\ Past(v)
      BY <1>8, <1>10, <2>3, OthersWalk
    <3>3. n # Root => Inside(t)
      BY <1>1 DEF Inside
    <3> QED
      BY <1>9, <3>1, <3>2, <3>3 DEF Inv, Watch
  <2> QED
    BY <1>14, <2>1, <2>2, <2>3 DEF Watch
<1>16. ASSUME NEW u \in Thread \ {t} PROVE Watch(u)'
  <2>1. seen'[u] = seen[u] /\ ss_info' = ss_info
    BY <1>2 DEF Inv, TypeOK
  <2>2. \/ readers'[Root] = readers[Root] \cup {t} \/ readers'[Root] = readers[Root] \ {t}
        \/ readers'[Root] = readers[Root]
    BY <1>1, <1>2, LockFacts DEF Inv
  <2> QED
    BY <1>6, <1>8, <1>10, <2>1, <2>2, OthersWatch
<1> QED
  BY <1>6, <1>7, <1>8, <1>11, <1>15, <1>16, Together

\* A listing goes down to the next child.  The children it leaves out are not there, so
\* nothing below them is mapped.
LEMMA DescendKeeps ==
    ASSUME Inv, NEW t \in Thread, Descend(t)
    PROVE  Inv'
<1> DEFINE n == at[t]
<1>1. /\ pc[t] = "locked" /\ Does(t, {"collect"}) /\ n \in Prefix /\ n \in nodes
      /\ n \in Seq(Int) /\ index[t] \in Int /\ ~Past(t) /\ Inside(t)
  BY UptoFacts DEF Inv, TypeOK, Walk, Descend, Doing, Does, Past, Mutations, Inside
<1>2. PICK b \in Ahead(t) : (\A a \in Ahead(t) : b <= a) /\ at' = [at EXCEPT ![t] = Append(n, b)]
  BY DEF Descend, Inv, TypeOK
<1>3. b \in Int /\ b > index[t] /\ Append(n, b) \in nodes /\ Append(n, b) \in Prefix
  BY PrefixFacts DEF Ahead, Inv, TypeOK
<1>4. /\ pc' = [pc EXCEPT ![t] = "lock"]
      /\ UNCHANGED <<nodes, ss_info, readers, writer, ss_list_mutex, op, result, index,
                     paths, seen>>
  BY DEF Descend, Goto, locks
<1>5. TypeOK'
  BY <1>2, <1>3, <1>4 DEF Inv, TypeOK, Location
<1>6. Shape'
  BY <1>4 DEF Inv, Shape
<1>7. Moves(t)
  BY <1>2, <1>4 DEF Moves, Inv, TypeOK
<1>8. pc'[t] = "lock" /\ at'[t] = Append(n, b) /\ op'[t] = op[t]
  BY <1>2, <1>4 DEF Inv, TypeOK
<1>9. Append(n, b) # Root
  <2>1. Len(Append(n, b)) = Len(n) + 1 /\ Len(n) \in Nat /\ Len(Root) = 0
    BY <1>1, <1>3, AppendProperties, LenProperties DEF Root
  <2> QED
    BY <2>1
<1>10. Inside(t)' /\ ~Past(t)'
  BY <1>1, <1>8, <1>9 DEF Inside, Past, Does, Mutations
<1>11. Walk(t)'
  BY <1>1, <1>3, <1>4, <1>8, <1>10 DEF Walk, Does, Inv, Mutations
<1>12. Sofar(t)'
  <2>1. Upto(t) = Append(n, index[t] + 1) /\ Upto(t)' = Append(n, b)
    BY <1>1, <1>8 DEF Upto
  <2>2. ASSUME NEW q \in Path
        PROVE  /\ Before(q, Upto(t)) => Before(q, Upto(t)')
               /\ Before(q, Upto(t)') /\ ~Before(q, Upto(t)) => ss_info[q] = Null
    <3>1. q \in Seq(Int) /\ Len(q) \in Nat /\ Len(n) \in Nat
      BY <1>1, PrefixFacts, LenProperties
    <3>2. ASSUME Len(n) < Len(q) PROVE q[Len(n) + 1] \in Int
      <4>1. Len(n) + 1 \in 1 .. Len(q)
        BY <3>1, <3>2
      <4> QED
        BY <3>1, <4>1, ElementOfSeq
    <3>3. Before(q, Append(n, index[t] + 1)) <=>
            \/ Before(q, n) \/ q = n
            \/ Below(q, n) /\ Len(n) < Len(q) /\ q[Len(n) + 1] < index[t] + 1
      BY <1>1, <3>1, BeforeChild
    <3>4. Before(q, Append(n, b)) <=>
            \/ Before(q, n) \/ q = n
            \/ Below(q, n) /\ Len(n) < Len(q) /\ q[Len(n) + 1] < b
      BY <1>1, <1>3, <3>1, BeforeChild
    <3>5. ASSUME Below(q, n), Len(n) < Len(q), q[Len(n) + 1] < b, index[t] < q[Len(n) + 1],
                 ss_info[q] # Null
          PROVE  FALSE
      <4>1. q[Len(n) + 1] \in Ahead(t)
        BY <1>1, <3>5, BelowNode DEF Ahead
      <4> QED
        BY <1>2, <1>3, <3>2, <3>5, <4>1
    <3> QED
      BY <1>1, <1>3, <2>1, <3>2, <3>3, <3>4, <3>5
  <2>3. Been(t) \subseteq Been(t)' /\ Been(t)' \subseteq Path
        /\ \A q \in Been(t)' \ Been(t) : ss_info[q] = Null
    BY <2>2 DEF Been
  <2>4. Sofar(t)
    BY <1>1 DEF Inv, Watch
  <2> QED
    BY <1>4, <2>3, <2>4, SofarGrows DEF Inv
<1>13. Mapping' = Mapping
  BY <1>4 DEF Mapping
<1>14. Watch(t)'
  <2>1. \A v \in Thread : Past(v)' => Past(v)
    BY <1>7, <1>10, OthersWalk
  <2> QED
    BY <1>1, <1>4, <1>12, <1>13, <2>1 DEF Inv, Watch
<1>15. \A u \in Thread \ {t} : Watch(u)'
  BY <1>4, <1>5, <1>7, <1>10, OthersWatch
<1> QED
  BY <1>5, <1>6, <1>7, <1>11, <1>14, <1>15, Together

\* A node but the root, its parent and its byte.
LEMMA ParentFacts ==
    ASSUME Inv, NEW n \in nodes, n # Root
    PROVE  /\ Parent(n) \in nodes /\ Parent(n) \in Prefix /\ Last(n) \in Byte
           /\ n = Append(Parent(n), Last(n)) /\ Len(n) = Len(Parent(n)) + 1
<1>1. n \in Prefix /\ n \in Seq(Byte) /\ n \in Seq(Int) /\ Len(n) \in Nat
  BY PrefixFacts, LenProperties DEF Inv, TypeOK
<1>2. Len(n) # 0
  BY <1>1, EmptySeq DEF Root
<1>3. Len(n) - 1 \in 0 .. Len(n) /\ Len(n) \in 1 .. Len(n)
  BY <1>1, <1>2
<1>4. Parent(n) \in nodes
  BY <1>3 DEF Inv, Shape, Parent
<1>5. Parent(n) \in Prefix
  BY <1>4 DEF Inv, TypeOK
<1>6. Last(n) \in Byte
  BY <1>1, <1>3, ElementOfSeq DEF Last
<1>7. /\ Parent(n) \in Seq(Int) /\ Len(Parent(n)) = Len(n) - 1
      /\ \A j \in 1 .. Len(n) - 1 : Parent(n)[j] = n[j]
  BY <1>1, <1>3, CutFacts DEF Parent
<1> DEFINE p == Parent(n)  c == Last(n)  a == Append(p, c)
<1>8. c \in Int /\ c = n[Len(n)]
  BY <1>6, PrefixFacts DEF Last
<1> HIDE DEF p, c
<1>9. /\ a \in Seq(Int) /\ Len(a) = Len(p) + 1 /\ a[Len(p) + 1] = c
      /\ \A j \in 1 .. Len(p) : a[j] = p[j]
  BY <1>7, <1>8, AppendProperties DEF p
<1> HIDE DEF a
<1>10. Len(p) = Len(n) - 1 /\ \A j \in 1 .. Len(n) - 1 : p[j] = n[j]
  BY <1>7 DEF p
<1>11. Len(a) = Len(n) /\ a[Len(n)] = n[Len(n)]
  BY <1>1, <1>8, <1>9, <1>10
<1>12. ASSUME NEW j \in 1 .. Len(n) PROVE a[j] = n[j]
  <2>1. CASE j = Len(n)
    BY <1>11, <2>1
  <2>2. CASE j \in 1 .. Len(n) - 1
    BY <1>1, <1>9, <1>10, <2>2
  <2> QED
    BY <1>1, <2>1, <2>2
<1>13. a = n
  BY <1>1, <1>9, <1>11, <1>12, SeqEqual
<1> QED
  BY <1>1, <1>4, <1>5, <1>6, <1>10, <1>13 DEF a, p, c

\* The loop over the children of a node is over: nothing further below it is mapped.
LEMMA NothingAhead ==
    ASSUME Inv, NEW t \in Thread, Ahead(t) = {}, at[t] \in Prefix, index[t] \in Int,
           NEW q \in Path, Below(q, at[t]), Len(at[t]) < Len(q),
           ~(q[Len(at[t]) + 1] < index[t] + 1)
    PROVE  ss_info[q] = Null
<1> DEFINE b == q[Len(at[t]) + 1]
<1>1. SUFFICES ASSUME ss_info[q] # Null PROVE FALSE
  OBVIOUS
<1>2. b \in Byte /\ Append(at[t], b) \in nodes
  BY <1>1, BelowNode
<1>3. b \in Int /\ ~(b < index[t] + 1)
  BY <1>2, PrefixFacts
<1> HIDE DEF b
<1>4. b > index[t]
  BY <1>3
<1> QED
  BY <1>2, <1>4 DEF Ahead

\* The loop over the children of a node is over.
LEMMA AscendKeeps ==
    ASSUME Inv, NEW t \in Thread, Ascend(t)
    PROVE  Inv'
<1> DEFINE n == at[t]
<1>1. /\ pc[t] = "locked" /\ Does(t, {"collect"}) /\ n \in Prefix /\ n \in nodes
      /\ n \in Seq(Int) /\ index[t] \in Int /\ ~Past(t) /\ Inside(t)
      /\ Ahead(t) = {} /\ paths[t] \in SUBSET Path /\ result[t] = Null
  BY UptoFacts DEF Inv, TypeOK, Walk, Ascend, Doing, Does, Past, Mutations, Inside
<1>2. Unlock(t, n) /\ UNCHANGED <<nodes, ss_info, ss_list_mutex, op, paths, seen>>
  BY DEF Ascend
<1>3. Shape'
  BY <1>2 DEF Inv, Shape
<1>4. readers' \in [Prefix -> SUBSET Thread] /\ writer' \in [Prefix -> Thread \cup {Null}]
  BY <1>1, <1>2, LockFacts DEF Inv
<1>5. \/ readers'[Root] = readers[Root] \cup {t} \/ readers'[Root] = readers[Root] \ {t}
      \/ readers'[Root] = readers[Root]
  BY <1>1, <1>2, LockFacts DEF Inv
<1>6. CASE n = Root
  <2>1. /\ pc' = [pc EXCEPT ![t] = "return"]
        /\ result' = [result EXCEPT ![t] = [answer |-> paths[t]]] /\ UNCHANGED <<at, index>>
    BY <1>6 DEF Ascend, Goto, Answer
  <2>2. /\ [answer |-> paths[t]] \in [answer : Server \cup {Null} \cup SUBSET Path]
        /\ [answer |-> paths[t]] # Null
    BY <1>1, NullAssumption
  <2>3. TypeOK'
    BY <1>2, <1>4, <2>1, <2>2 DEF Inv, TypeOK, Location
  <2>4. Moves(t)
    BY <1>2, <2>1 DEF Moves, Inv, TypeOK
  <2>5. pc'[t] = "return" /\ result'[t] # Null /\ op'[t] = op[t]
    BY <1>2, <2>1, <2>2 DEF Inv, TypeOK
  <2>6. Walk(t)' /\ ~Inside(t)' /\ ~Past(t)'
    BY <1>1, <1>2, <2>5 DEF Walk, Inside, Past, Does, OnPath, Mutations
  <2> QED
    BY <1>2, <1>3, <1>5, <2>3, <2>4, <2>6, CalmStep
<1>7. CASE n # Root
  <2> DEFINE p == Parent(n)  c == Last(n)
  <2>1. /\ at' = [at EXCEPT ![t] = p] /\ index' = [index EXCEPT ![t] = c]
        /\ UNCHANGED <<pc, result>>
    BY <1>7 DEF Ascend, Inv, TypeOK
  <2>2. /\ p \in nodes /\ p \in Prefix /\ c \in Byte /\ n = Append(p, c)
        /\ Len(n) = Len(p) + 1
    BY <1>1, <1>7, ParentFacts
  <2>3. p \in Seq(Int) /\ c \in Int /\ Len(p) \in Nat /\ Len(n) \in Nat /\ c \in 0 .. 255
    <3>1. p \in Seq(Int) /\ c \in Int
      BY <2>2, PrefixFacts
    <3>2. Len(p) \in Nat /\ Len(n) \in Nat
      BY <1>1, <3>1, LenProperties
    <3>3. c \in 1 .. 255
      BY <2>2, ByteAssumption
    <3> HIDE DEF c, p, n
    <3> QED
      BY <3>1, <3>2, <3>3
  <2>4. TypeOK'
    <3> HIDE DEF p, c
    <3> QED
      BY <1>2, <1>4, <2>1, <2>2, <2>3 DEF Inv, TypeOK
  <2>5. Moves(t)
    BY <1>2, <2>1 DEF Moves, Inv, TypeOK
  <2>6. pc'[t] = "locked" /\ at'[t] = p /\ index'[t] = c /\ op'[t] = op[t] /\ seen' = seen
    BY <1>1, <1>2, <2>1 DEF Inv, TypeOK
  <2>7. Inside(t)' /\ ~Past(t)'
    BY <1>1, <2>6 DEF Inside, Past, Does, Mutations
  <2>8. Walk(t)'
    BY <1>1, <1>2, <2>1, <2>2, <2>6, <2>7 DEF Walk, Does, Inv, Mutations
  <2>9. Sofar(t)'
    <3>1. Upto(t) = Append(n, index[t] + 1) /\ Upto(t)' = Append(p, c + 1)
      BY <1>1, <2>6 DEF Upto
    <3>2. ASSUME NEW q \in Path
          PROVE  /\ Before(q, Upto(t)) => Before(q, Upto(t)')
                 /\ Before(q, Upto(t)') /\ ~Before(q, Upto(t)) => ss_info[q] = Null
      <4>1. q \in Seq(Int) /\ Len(q) \in Nat
        BY PrefixFacts, LenProperties
      <4>2. \A j \in 1 .. Len(q) : q[j] \in Int
        BY <4>1, ElementOfSeq
      <4>3. Before(q, Append(n, index[t] + 1)) <=>
              \/ Before(q, n) \/ q = n
              \/ Below(q, n) /\ Len(n) < Len(q) /\ q[Len(n) + 1] < index[t] + 1
        BY <1>1, <4>1, BeforeChild
      <4>4. Before(q, n) <=>
              \/ Before(q, p) \/ q = p
              \/ Below(q, p) /\ Len(p) < Len(q) /\ q[Len(p) + 1] < c
        BY <2>2, <2>3, <4>1, BeforeChild
      <4>5. Before(q, Append(p, c + 1)) <=>
              \/ Before(q, p) \/ q = p
              \/ Below(q, p) /\ Len(p) < Len(q) /\ q[Len(p) + 1] < c + 1
        <5>1. c + 1 \in Int
          BY <2>3
        <5> QED
          BY <2>3, <4>1, <5>1, BeforeChild
      <4>6. /\ Below(q, n) <=> Below(q, p) /\ Len(p) < Len(q) /\ q[Len(p) + 1] = c
            /\ Below(q, n) /\ ~(Len(n) < Len(q)) => q = n
            /\ Below(n, n)
        <5> HIDE DEF n, p, c
        <5> QED
          BY <2>2, <2>3, <4>1, BelowChild
      <4>9. Below(q, n) /\ Len(n) < Len(q) /\ ~(q[Len(n) + 1] < index[t] + 1)
              => ss_info[q] = Null
        BY <1>1, NothingAhead
      <4>10. Len(p) < Len(q) => q[Len(p) + 1] \in Int
        <5>1. Len(p) < Len(q) => Len(p) + 1 \in 1 .. Len(q)
          BY <2>3, <4>1
        <5> QED
          BY <4>2, <5>1
      <4> HIDE DEF n, p, c
      <4>11. Len(p) < Len(q) => (q[Len(p) + 1] < c + 1 <=> q[Len(p) + 1] < c \/ q[Len(p) + 1] = c)
        BY <2>3, <4>10
      <4> QED
        BY <3>1, <4>3, <4>4, <4>5, <4>6, <4>9, <4>11
    <3>3. Been(t) \subseteq Been(t)' /\ Been(t)' \subseteq Path
          /\ \A q \in Been(t)' \ Been(t) : ss_info[q] = Null
      BY <3>2 DEF Been
    <3>4. Sofar(t)
      BY <1>1 DEF Inv, Watch
    <3> QED
      BY <1>2, <3>3, <3>4, SofarGrows DEF Inv
  <2>10. Watch(t)'
    <3>1. \A v \in Thread : Past(v)' => Past(v)
      BY <2>5, <2>7, OthersWalk
    <3>2. Mapping' = Mapping
      BY <1>2 DEF Mapping
    <3>3. readers'[Root] = readers[Root]
      BY <1>1, <1>2, <1>7, LockFacts DEF Inv
    <3> QED
      BY <1>1, <1>2, <2>9, <3>1, <3>2, <3>3 DEF Inv, Watch
  <2>11. \A u \in Thread \ {t} : Watch(u)'
    BY <1>2, <1>5, <2>4, <2>5, <2>7, OthersWatch
  <2> QED
    BY <1>3, <2>4, <2>5, <2>8, <2>10, <2>11, Together
<1> QED
  BY <1>6, <1>7

-----------------------------------------------------------------------------
(* The invariant of the specification                                      *)

\* The trie begins with its root.
LEMMA InvInit == Init => Inv
<1> SUFFICES ASSUME Init PROVE Inv
  OBVIOUS
<1>1. Root \in Prefix /\ Len(Root) = 0 /\ SubSeq(Root, 1, 0) = Root
  BY PrefixFacts, SubSeqEmpty DEF Root
<1>2. TypeOK
  BY <1>1 DEF Init, TypeOK, Location
<1>3. Shape
  BY <1>1 DEF Init, Shape
<1>4. \A t \in Thread : Walk(t) /\ Watch(t)
  BY DEF Init, Walk, Watch, Does, Inside, Past, OnPath
<1> QED
  BY <1>2, <1>3, <1>4 DEF Inv

\* When nothing changes.
LEMMA StutterKeeps == Inv /\ UNCHANGED vars => Inv'
<1> SUFFICES ASSUME Inv, UNCHANGED vars PROVE Inv'
  OBVIOUS
<1>1. TypeOK' /\ Shape'
  BY DEF Inv, TypeOK, Shape, vars, locks
<1>2. ASSUME NEW t \in Thread
      PROVE  Walk(t)' /\ Inside(t)' = Inside(t) /\ Past(t)' = Past(t) /\ Been(t)' = Been(t)
  BY DEF Inv, Walk, Does, OnPath, Inside, Past, Been, Upto, NextNode, vars, locks
<1>3. Mapping' = Mapping
  BY DEF Mapping, vars
<1>4. ASSUME NEW t \in Thread PROVE Watch(t)'
  <2>1. Sofar(t) => Sofar(t)'
    BY <1>2 DEF Sofar, vars
  <2> QED
    BY <1>2, <1>3, <2>1 DEF Inv, Watch, vars, locks
<1> QED
  BY <1>1, <1>2, <1>4 DEF Inv

\* Every step keeps the invariant.
LEMMA InvStep == Inv /\ [Next]_vars => Inv'
<1> SUFFICES ASSUME Inv, [Next]_vars PROVE Inv'
  OBVIOUS
<1>1. ASSUME NEW t \in Thread, Call(t) \/ Run(t) \/ Wait(t) PROVE Inv'
  <2>1. CASE Call(t)
    BY <2>1, CallKeeps
  <2>2. CASE Wait(t)
    BY <2>2, TakeMutexKeeps, LockNodeKeeps, VisitKeeps DEF Wait
  <2>3. CASE Run(t)
    BY <2>3, StepKeeps, FollowKeeps, FoundKeeps, StoreKeeps, DescendKeeps, AscendKeeps,
       ReturnKeeps DEF Run
  <2> QED
    BY <1>1, <2>1, <2>2, <2>3
<1> QED
  BY <1>1, StutterKeeps DEF Next

\* The invariant holds always.
LEMMA Invariance == Spec => []Inv
BY InvInit, InvStep, PTL DEF Spec

\* The variables of the trie keep their types (the struct of trie.h:18-22, the locals of
\* the walks of trie.c), whatever the threads, the paths and the room for listings.
THEOREM TypeCorrect == Spec => []TypeOK
<1>1. Inv => TypeOK
  BY DEF Inv
<1> QED
  BY <1>1, Invariance, PTL

\* No walk ends in a null pointer: a child that was there under the parent's lock is there
\* when the pointer is followed without it (trie.c:27-29, :46-48, :109-111).
THEOREM NoLostChild == Spec => []ChildIsThere
<1>1. Inv => ChildIsThere
  BY DEF Inv, Walk, ChildIsThere
<1> QED
  BY <1>1, Invariance, PTL

-----------------------------------------------------------------------------
(* The trie is a map                                                       *)

\* A path that leads nowhere is not mapped.
LEMMA NowhereIsNull ==
    ASSUME Inv, NEW t \in Thread, NoSuchPath(t)
    PROVE  op[t].path \in Path /\ Mapping[op[t].path] = Null
<1>1. /\ Does(t, {"delete", "search"}) /\ at[t] # op[t].path /\ op[t].path \in Path
      /\ at[t] \in Prefix /\ OnPath(t) /\ NextNode(t) \notin nodes
  BY OperationFacts DEF Inv, TypeOK, Walk, NoSuchPath, Doing, Does, AtEnd
<1> DEFINE p == op[t].path  c == NextNode(t)
<1>2. Len(c) <= Len(p) /\ c = SubSeq(p, 1, Len(c)) /\ c \in Prefix
  BY <1>1, NextFacts DEF OnPath, NextNode
<1>3. Len(c) \in 0 .. Len(p)
  <2>1. c \in Seq(Int) /\ p \in Seq(Int)
    BY <1>1, <1>2, PrefixFacts
  <2>2. Len(c) \in Nat /\ Len(p) \in Nat
    BY <2>1, LenProperties
  <2> QED
    BY <1>2, <2>2
<1> HIDE DEF p, c
<1>4. p \notin nodes
  <2>1. p \in nodes => SubSeq(p, 1, Len(c)) \in nodes
    BY <1>3 DEF Inv, Shape
  <2> QED
    BY <1>1, <1>2, <2>1 DEF c
<1>5. ss_info[p] = Null
  BY <1>1, <1>4, PrefixFacts DEF Inv, Shape, p
<1> QED
  BY <1>1, <1>5 DEF p, Mapping

\* A walk that ends has its answer at that moment.
LEMMA FoundIsDo ==
    ASSUME Inv, NEW t \in Thread, NoSuchPath(t) \/ Find(t)
    PROVE  Promise!Do(t)
<1>1. /\ op[t] # Null /\ result[t] = Null /\ Mapping' = Mapping
      /\ UNCHANGED <<op, seen>>
  BY DEF Inv, Walk, NoSuchPath, Find, Doing, Mapping
<1>2. CASE NoSuchPath(t) /\ op[t].name = "search"
  BY <1>1, <1>2, NowhereIsNull DEF Promise!Do, Promise!Answer, NoSuchPath, Answer
<1>3. CASE NoSuchPath(t) /\ op[t].name = "delete"
  <2>1. op[t].path \in Path /\ Mapping[op[t].path] = Null
    BY <1>3, NowhereIsNull
  <2>2. Mapping' = [Mapping EXCEPT ![op[t].path] = Null]
    BY <1>1, <2>1 DEF Mapping
  <2>3. seen' = [u \in Thread |-> IF seen[u] = {} THEN {} ELSE seen[u] \cup {Mapping'}]
    <3>1. \A u \in Thread : seen[u] # {} => seen[u] \cup {Mapping'} = seen[u]
      BY <1>1 DEF Inv, Watch
    <3>2. seen = [u \in Thread |-> seen[u]]
      BY DEF Inv, TypeOK
    <3> QED
      BY <1>1, <3>1, <3>2
  <2> QED
    BY <1>1, <1>3, <2>2, <2>3
    DEF Promise!Do, Promise!Set, Promise!Answer, NoSuchPath, Answer
<1>4. CASE Find(t)
  <2>1. /\ op[t].name = "search" /\ op[t].path \in Path /\ at[t] = op[t].path
        /\ Answer(t, ss_info[at[t]])
    BY <1>1, <1>4, OperationFacts DEF Inv, TypeOK, Find, Doing, AtEnd
  <2>2. Answer(t, Mapping[op[t].path])
    BY <2>1 DEF Mapping
  <2> QED
    BY <1>1, <2>1, <2>2 DEF Promise!Do, Promise!Answer, Answer
<1> QED
  BY <1>2, <1>3, <1>4 DEF NoSuchPath, Doing

\* A mutation takes effect when it stores.
LEMMA StoreIsDo ==
    ASSUME Inv, NEW t \in Thread, Store(t)
    PROVE  Promise!Do(t)
<1>1. /\ op[t] # Null /\ result[t] = Null /\ op[t].name \in Mutations
      /\ op[t].path \in Path /\ at[t] = op[t].path /\ Answer(t, Null) /\ op' = op
      /\ ss_info' = [ss_info EXCEPT ![at[t]] = NewInfo(t)] /\ Noticed
  BY OperationFacts DEF Inv, TypeOK, Walk, Store, Doing, AtEnd, Mutations
<1>2. Mapping' = [Mapping EXCEPT ![op[t].path] = NewInfo(t)]
  <2>1. ss_info \in [Prefix -> Server \cup {Null}] /\ Path \subseteq Prefix
    BY PrefixFacts DEF Inv, TypeOK
  <2> QED
    BY <1>1, <2>1 DEF Mapping
<1>3. Promise!Set(t, op[t].path, NewInfo(t))
  BY <1>1, <1>2 DEF Promise!Set, Promise!Answer, Answer, Noticed
<1> QED
  BY <1>1, <1>3 DEF Promise!Do, NewInfo, Mutations

\* A listing that ends has the answer of one content that it has seen.
LEMMA AscendIsDo ==
    ASSUME Inv, NEW t \in Thread, Ascend(t)
    PROVE  Promise!Do(t) \/ UNCHANGED Promise!vars
<1>1. /\ op[t] # Null /\ result[t] = Null /\ op[t].name = "collect" /\ Inside(t)
      /\ Mapping' = Mapping /\ UNCHANGED <<op, seen>>
  BY DEF Inv, Walk, Ascend, Doing, Mapping, Inside, Does
<1>2. CASE at[t] # Root
  BY <1>1, <1>2 DEF Ascend, Promise!vars
<1>3. CASE at[t] = Root
  <2>1. Answer(t, paths[t]) /\ pc[t] = "locked" /\ Ahead(t) = {}
    BY <1>3 DEF Ascend, Doing
  <2>2. PICK m \in seen[t] : /\ \A q \in Path \ Been(t) : m[q] = ss_info[q]
                             /\ Found(paths[t], m, Been(t))
    BY <1>1 DEF Inv, Watch, Sofar
  <2>3. ASSUME NEW q \in Path, q \notin Been(t) PROVE ss_info[q] = Null
    <3>1. /\ q \in Seq(Int) /\ Root \in Seq(Int) /\ Root \in Prefix /\ Len(q) \in Nat
          /\ Len(Root) = 0 /\ index[t] \in Int
      BY PrefixFacts, LenProperties, UptoFacts DEF Root, Inv
    <3>2. Below(q, Root)
      BY <3>1 DEF Below
    <3>3. q # Root => Len(Root) < Len(q)
      BY <3>1, EmptySeq DEF Root
    <3>4. ~Before(q, Append(Root, index[t] + 1))
      BY <1>3, <2>1, <2>3 DEF Been, Upto
    <3>5. q # Root /\ ~(q[Len(Root) + 1] < index[t] + 1)
      <4>1. Before(q, Append(Root, index[t] + 1)) <=>
              \/ Before(q, Root) \/ q = Root
              \/ Below(q, Root) /\ Len(Root) < Len(q) /\ q[Len(Root) + 1] < index[t] + 1
        <5>1. index[t] + 1 \in Int
          BY <3>1
        <5> QED
          BY <3>1, <5>1, BeforeChild
      <4> QED
        BY <3>2, <3>3, <3>4, <4>1
    <3> HIDE DEF Root
    <3> QED
      BY <1>3, <2>1, <3>1, <3>2, <3>3, <3>5, NothingAhead
  <2>4. Promise!Listing(m) \subseteq Been(t)
    <3>1. ASSUME NEW q \in Promise!Listing(m) PROVE q \in Been(t)
      <4>1. q \in Path /\ m[q] # Null
        BY ListingIs DEF Mapped
      <4> QED
        BY <2>2, <2>3, <4>1
    <3> QED
      BY <3>1
  <2>5. paths[t] = Promise!Listing(m)
    BY <2>2, <2>4 DEF Found
  <2> QED
    BY <1>1, <2>1, <2>2, <2>5 DEF Promise!Do, Promise!Answer, Answer
<1> QED
  BY <1>2, <1>3

\* Each step of the trie is a step of the map, or none.
LEMMA StepIsStep ==
    ASSUME Inv, [Next]_vars
    PROVE  [Promise!Next]_Promise!vars
<1>1. CASE UNCHANGED vars
  BY <1>1 DEF vars, Promise!vars, Mapping
<1>2. ASSUME NEW t \in Thread, Call(t) \/ Run(t) \/ Wait(t)
      PROVE  \/ Promise!Call(t) \/ Promise!Begin(t) \/ Promise!Do(t) \/ Promise!Return(t)
             \/ UNCHANGED Promise!vars
  <2>1. CASE Call(t)
    <3>1. op[t] = Null /\ UNCHANGED <<Mapping, result, seen>>
      BY <2>1 DEF Inv, Walk, Call, Mapping
    <3> QED
      BY <2>1, <3>1 DEF Call, Promise!Call
  <2>2. CASE Return(t)
    <3>1. result[t] # Null /\ Mapping' = Mapping
      BY <2>2 DEF Inv, Walk, Return, Mapping
    <3> QED
      BY <2>2, <3>1 DEF Return, Promise!Return
  <2>3. CASE Visit(t)
    <3>1. /\ op[t] # Null /\ op[t].name = "collect" /\ result[t] = Null /\ Mapping' = Mapping
          /\ UNCHANGED <<op, result>>
      BY <2>3 DEF Inv, Walk, Visit, Doing, Mapping
    <3> QED
      BY <2>3, <3>1 DEF Visit, Promise!Begin, Promise!vars
  <2>4. CASE TakeMutex(t) \/ LockNode(t) \/ Step(t) \/ Follow(t) \/ Descend(t)
    BY <2>4 DEF TakeMutex, LockNode, Step, Follow, Descend, Mapping, Promise!vars
  <2>5. CASE NoSuchPath(t) \/ Find(t)
    BY <2>5, FoundIsDo
  <2>6. CASE Store(t)
    BY <2>6, StoreIsDo
  <2>7. CASE Ascend(t)
    BY <2>7, AscendIsDo
  <2> QED
    BY <1>2, <2>1, <2>2, <2>3, <2>4, <2>5, <2>6, <2>7 DEF Run, Wait
<1>3. CASE Next
  <2>1. PICK t \in Thread : Call(t) \/ Run(t) \/ Wait(t)
    BY <1>3 DEF Next
  <2>2. \/ Promise!Call(t) \/ Promise!Begin(t) \/ Promise!Do(t) \/ Promise!Return(t)
        \/ UNCHANGED Promise!vars
    BY <1>2, <2>1
  <2> QED
    BY <2>2 DEF Promise!Next
<1> QED
  BY <1>1, <1>3

\* The trie is a map of which every operation takes effect at one moment: a search that
\* passes mutations between two locks and a listing that passes one between two nodes
\* answer from one content of it (trie.c:36-53, :69-90), for any number of threads, any
\* paths and any room for listings.
THEOREM Implements == Spec => IsPathMap
<1>1. Init => Promise!Init
  <2>1. Path \subseteq Prefix
    BY PrefixFacts
  <2> QED
    BY <2>1 DEF Init, Promise!Init, Mapping
<1>2. Inv /\ [Next]_vars => [Promise!Next]_Promise!vars
  BY StepIsStep
<1> QED
  BY <1>1, <1>2, Invariance, PTL DEF Spec, IsPathMap, Promise!Spec
=============================================================================

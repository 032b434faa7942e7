------------------------- MODULE StorageMainProofs -------------------------
(***************************************************************************)
(* What is proved of the main program of a storage server, for any number  *)
(* of peers, threads and cells and any backlog: the types, that every open *)
(* connection has one thread, and why the loop ever waits in accept.       *)
(*                                                                         *)
(* The invariant says what a queue holds (each waiting connection once, at *)
(* its own port), to whom every open connection belongs (a thread of its   *)
(* port, or nobody for ever), and what select has promised of the ports    *)
(* the loop has still to look at.                                          *)
(***************************************************************************)
EXTENDS StorageMain, SequenceTheorems, TLAPS

\* A queue holds connections that wait at its port, each once.
QueuesHold == \A q \in Port :
    /\ \A p \in ToSet(queue[q]) : peer[p] = "queued" /\ PortOf[p] = q
    /\ IsInjective(queue[q])

\* A thread that works has an open connection of its port to itself, and an open
\* connection that no thread has is lost.
Served ==
    /\ \A t \in Thread : Busy(t) => /\ Socket(t) \in Peer \ lost
                                    /\ PortOf[Socket(t)] = thread[t].port
                                    /\ peer[Socket(t)] = "open"
    /\ \A t, u \in Thread : Busy(t) /\ Busy(u) /\ Socket(t) = Socket(u) => t = u
    /\ \A p \in lost : peer[p] = "open"
    /\ \A p \in Peer : peer[p] = "open" =>
           p \in lost \/ \E t \in Thread : Busy(t) /\ Socket(t) = p

\* What select found ready is still so when the loop comes to it.
StillReady ==
    ~upset => /\ phase = "nm" => \A q \in read_fds : queue[q] # << >>
              /\ phase = "client" /\ "client" \in read_fds => queue["client"] # << >>

Inv == TypeOK /\ QueuesHold /\ Served /\ StillReady

-----------------------------------------------------------------------------
(* Sequences without repetitions                                           *)

\* Removing the element at one place from a sequence without repetitions.
LEMMA RemoveAtFacts ==
    ASSUME NEW T, NEW s \in Seq(T), IsInjective(s), NEW i \in DOMAIN s
    PROVE  /\ RemoveAt(s, i) \in Seq(T)
           /\ Len(RemoveAt(s, i)) = Len(s) - 1
           /\ IsInjective(RemoveAt(s, i))
           /\ ToSet(RemoveAt(s, i)) = ToSet(s) \ {s[i]}
<1> DEFINE r == RemoveAt(s, i)
<1>1. i \in 1 .. Len(s) /\ Len(s) \in Nat
  OBVIOUS
<1>2. r \in Seq(T) /\ Len(r) = Len(s) - 1
  <2> DEFINE a == SubSeq(s, 1, i - 1)
             b == SubSeq(s, i + 1, Len(s))
  <2>1. a \in Seq(T) /\ Len(a) = i - 1
    BY <1>1
  <2>2. b \in Seq(T) /\ Len(b) = Len(s) - i
    BY <1>1
  <2>3. r = a \o b
    BY DEF RemoveAt
  <2> HIDE DEF a, b, r
  <2>4. r \in Seq(T) /\ Len(r) = Len(a) + Len(b)
    BY <2>1, <2>2, <2>3, ConcatProperties
  <2>5. (i - 1) + (Len(s) - i) = Len(s) - 1
    BY <1>1
  <2> QED
    BY <2>1, <2>2, <2>4, <2>5
<1>3. \A k \in 1 .. Len(s) - 1 : r[k] = IF k < i THEN s[k] ELSE s[k + 1]
  <2> DEFINE a == SubSeq(s, 1, i - 1)
             b == SubSeq(s, i + 1, Len(s))
  <2>1. a \in Seq(T) /\ Len(a) = i - 1 /\ \A k \in 1 .. i - 1 : a[k] = s[k]
    BY <1>1
  <2>2. b \in Seq(T) /\ Len(b) = Len(s) - i
        /\ \A k \in 1 .. Len(s) - i : b[k] = s[i + k]
    BY <1>1
  <2> HIDE DEF a, b
  <2> DEFINE q == a \o b
  <2>3. \A k \in 1 .. Len(a) + Len(b) : q[k] = IF k <= Len(a) THEN a[k] ELSE b[k - Len(a)]
    BY <2>1, <2>2, ConcatProperties
  <2> HIDE DEF q
  <2>4. Len(a) + Len(b) = Len(s) - 1
    BY <1>1, <2>1, <2>2
  <2>5. \A k \in 1 .. Len(s) - 1 : q[k] = IF k <= i - 1 THEN a[k] ELSE b[k - (i - 1)]
    BY <2>1, <2>3, <2>4
  <2>6. ASSUME NEW k \in 1 .. Len(s) - 1
        PROVE  q[k] = IF k < i THEN s[k] ELSE s[k + 1]
    <3>1. k \in Nat /\ i \in Nat
      BY <1>1
    <3>2. CASE k < i
      BY <1>1, <2>1, <2>5, <3>1, <3>2
    <3>3. CASE ~(k < i)
      <4>1. k - (i - 1) \in 1 .. Len(s) - i /\ i + (k - (i - 1)) = k + 1
        BY <1>1, <3>1, <3>3
      <4>2. b[k - (i - 1)] = s[k + 1]
        BY <2>2, <4>1
      <4>3. q[k] = b[k - (i - 1)]
        BY <1>1, <2>5, <3>1, <3>3
      <4> QED
        BY <3>3, <4>2, <4>3
    <3> QED
      BY <3>2, <3>3
  <2> QED
    BY <2>6 DEF RemoveAt, a, b, q
<1>4. IsInjective(r)
  BY <1>1, <1>2, <1>3 DEF IsInjective
<1>5. ToSet(r) = ToSet(s) \ {s[i]}
  <2>1. ASSUME NEW x \in ToSet(r) PROVE x \in ToSet(s) \ {s[i]}
    BY <1>1, <1>2, <1>3, <2>1 DEF ToSet, IsInjective
  <2>2. ASSUME NEW x \in ToSet(s), x # s[i] PROVE x \in ToSet(r)
    <3>1. PICK k \in 1 .. Len(s) : s[k] = x
      BY <2>2 DEF ToSet
    <3>2. CASE k < i
      BY <1>1, <1>2, <1>3, <3>1, <3>2 DEF ToSet
    <3>3. CASE k > i
      <4>1. k - 1 \in DOMAIN r /\ r[k - 1] = s[k]
        BY <1>1, <1>2, <1>3, <3>1, <3>3
      <4> QED
        BY <3>1, <4>1 DEF ToSet
    <3> QED
      BY <1>1, <2>2, <3>1, <3>2, <3>3
  <2> QED
    BY <2>1, <2>2
<1> QED
  BY <1>2, <1>4, <1>5

\* Taking the first element of a sequence without repetitions.
LEMMA TailFacts ==
    ASSUME NEW T, NEW s \in Seq(T), IsInjective(s), s # << >>
    PROVE  /\ Head(s) \in T /\ Head(s) \in ToSet(s)
           /\ Tail(s) \in Seq(T) /\ Len(Tail(s)) = Len(s) - 1
           /\ IsInjective(Tail(s))
           /\ ToSet(Tail(s)) = ToSet(s) \ {Head(s)}
<1> DEFINE r == Tail(s)
<1>1. Len(s) \in Nat \ {0} /\ Head(s) = s[1] /\ s[1] \in T
  OBVIOUS
<1>2. r \in Seq(T) /\ Len(r) = Len(s) - 1 /\ \A i \in 1 .. Len(r) : r[i] = s[i + 1]
  OBVIOUS
<1> HIDE DEF r
<1>3. IsInjective(r)
  <2> SUFFICES ASSUME NEW i \in DOMAIN r, NEW j \in DOMAIN r, r[i] = r[j]
               PROVE  i = j
    BY DEF IsInjective
  <2>1. i \in 1 .. Len(r) /\ j \in 1 .. Len(r)
    BY <1>2
  <2>2. i + 1 \in DOMAIN s /\ j + 1 \in DOMAIN s /\ s[i + 1] = s[j + 1]
    BY <1>1, <1>2, <2>1, SMTT(30)
  <2>3. i + 1 = j + 1
    BY <2>2 DEF IsInjective
  <2> QED
    BY <2>1, <2>3
<1>4. ASSUME NEW x \in ToSet(r) PROVE x \in ToSet(s) /\ x # s[1]
  <2>1. PICK i \in 1 .. Len(r) : r[i] = x
    BY <1>2 DEF ToSet
  <2>2. i + 1 \in DOMAIN s /\ 1 \in DOMAIN s /\ i + 1 # 1 /\ s[i + 1] = x
    BY <1>1, <1>2, <2>1
  <2> QED
    BY <2>2 DEF ToSet, IsInjective
<1>5. ASSUME NEW x \in ToSet(s), x # s[1] PROVE x \in ToSet(r)
  <2>1. PICK i \in 1 .. Len(s) : s[i] = x
    BY <1>5 DEF ToSet
  <2>2. i - 1 \in 1 .. Len(r) /\ r[i - 1] = x
    BY <1>1, <1>2, <1>5, <2>1
  <2> QED
    BY <1>2, <2>2 DEF ToSet
<1>6. s[1] \in ToSet(s)
  BY <1>1 DEF ToSet
<1> QED
  BY <1>1, <1>2, <1>3, <1>4, <1>5, <1>6 DEF r

\* Appending a new element to a sequence without repetitions.
LEMMA AppendFacts ==
    ASSUME NEW T, NEW s \in Seq(T), IsInjective(s), NEW e \in T, e \notin ToSet(s)
    PROVE  /\ Append(s, e) \in Seq(T) /\ Len(Append(s, e)) = Len(s) + 1
           /\ IsInjective(Append(s, e))
           /\ ToSet(Append(s, e)) = ToSet(s) \cup {e}
<1> DEFINE r == Append(s, e)
<1>1. r \in Seq(T) /\ Len(r) = Len(s) + 1 /\ Len(s) \in Nat
  OBVIOUS
<1>2. \A i \in 1 .. Len(s) + 1 : r[i] = IF i = Len(s) + 1 THEN e ELSE s[i]
  OBVIOUS
<1>3. IsInjective(r)
  BY <1>1, <1>2 DEF IsInjective, ToSet
<1>4. ASSUME NEW x \in ToSet(r) PROVE x \in ToSet(s) \cup {e}
  BY <1>1, <1>2, <1>4 DEF ToSet
<1>5. ASSUME NEW x \in ToSet(s) \cup {e} PROVE x \in ToSet(r)
  <2>1. CASE x = e
    BY <1>1, <1>2, <2>1 DEF ToSet
  <2>2. CASE x \in ToSet(s)
    <3>1. PICK i \in 1 .. Len(s) : s[i] = x
      BY <2>2 DEF ToSet
    <3> QED
      BY <1>1, <1>2, <3>1 DEF ToSet
  <2> QED
    BY <1>5, <2>1, <2>2
<1> QED
  BY <1>1, <1>3, <1>4, <1>5

-----------------------------------------------------------------------------
(* One step                                                                *)

\* As long as no connection is opened or closed, all of them stay served.
LEMMA ServedKept ==
    ASSUME Served, UNCHANGED handlers, peer' \in [Peer -> {"idle", "queued", "open"}],
           \A p \in Peer : peer'[p] = "open" <=> peer[p] = "open", lost \subseteq Peer
    PROVE  Served'
<1>1. /\ \A t \in Thread : Busy(t)' = Busy(t) /\ Socket(t)' = Socket(t)
      /\ lost' = lost /\ thread' = thread
  BY DEF handlers, Busy, Socket
<1> QED
  BY <1>1 DEF Served

\* The start: no connection is touched.
LEMMA BeginKeeps == ASSUME Inv, Begin PROVE Inv'
<1>1. /\ phase' \in {"registered", "nm_port_open", "select", "exit"}
      /\ UNCHANGED <<queue, peer, sent, new_sock, thread, lost, read_fds, upset>>
  BY DEF Begin, Register, ListenForNaming, ListenForClients, MainGoes, connections,
         handlers
<1>2. TypeOK'
  BY <1>1 DEF Inv, TypeOK
<1>3. QueuesHold'
  BY <1>1 DEF Inv, QueuesHold
<1>4. Served'
  BY <1>1, ServedKept DEF Inv, TypeOK, handlers
<1>5. StillReady'
  BY <1>1 DEF StillReady
<1> QED
  BY <1>2, <1>3, <1>4, <1>5 DEF Inv

\* select, or its failure: the ports it reports have someone waiting.
LEMMA SelectKeeps == ASSUME Inv, Select \/ SelectFails PROVE Inv'
<1>1. /\ phase' = "nm" /\ read_fds' \subseteq Port /\ upset' \in BOOLEAN
      /\ UNCHANGED <<queue, peer, sent, new_sock, thread, lost>>
      /\ ~upset' => \A q \in read_fds' : queue[q] # << >>
  BY DEF Select, SelectFails, connections, handlers
<1>2. TypeOK'
  BY <1>1 DEF Inv, TypeOK
<1>3. QueuesHold'
  BY <1>1 DEF Inv, QueuesHold
<1>4. Served'
  BY <1>1, ServedKept DEF Inv, TypeOK, handlers
<1>5. StillReady'
  BY <1>1 DEF StillReady
<1> QED
  BY <1>2, <1>3, <1>4, <1>5 DEF Inv

\* A port that is not ready, and a call that fails: main goes on, or starts again.
LEMMA PassKeeps == ASSUME Inv, NEW q \in Port, NotReady(q) \/ Skip(q) PROVE Inv'
<1>1. /\ \/ phase = "nm" /\ phase' \in {"client", "select"}
         \/ phase' = "select"
      /\ UNCHANGED <<queue, peer, sent, new_sock, thread, lost, read_fds, upset>>
  BY DEF NotReady, Skip, After, connections, handlers, Port
<1>2. TypeOK'
  BY <1>1 DEF Inv, TypeOK
<1>3. QueuesHold'
  BY <1>1 DEF Inv, QueuesHold
<1>4. Served'
  BY <1>1, ServedKept DEF Inv, TypeOK, handlers
<1>5. StillReady'
  BY <1>1 DEF Inv, StillReady
<1> QED
  BY <1>2, <1>3, <1>4, <1>5 DEF Inv

\* A connection comes: it was in no queue.
LEMMA ConnectKeeps == ASSUME Inv, NEW p \in Peer, Connect(p) PROVE Inv'
<1> DEFINE q == PortOf[p]
<1>1. /\ peer[p] = "idle" /\ q \in Port /\ Len(queue[q]) < BACKLOG
      /\ queue' = [queue EXCEPT ![q] = Append(queue[q], p)]
      /\ peer' = [peer EXCEPT ![p] = "queued"]
      /\ UNCHANGED <<phase, read_fds, sent, new_sock, thread, lost, upset>>
  BY PortAssumption DEF Connect, handlers
<1>2. /\ queue \in [Port -> Seq(Peer)] /\ peer \in [Peer -> {"idle", "queued", "open"}]
      /\ queue[q] \in Seq(Peer) /\ Len(queue[q]) \in Nat
  BY <1>1 DEF Inv, TypeOK
<1>3. \A r \in Port : p \notin ToSet(queue[r]) /\ IsInjective(queue[r])
  BY <1>1 DEF Inv, QueuesHold
<1>4. /\ Append(queue[q], p) \in Seq(Peer)
      /\ Len(Append(queue[q], p)) = Len(queue[q]) + 1
      /\ IsInjective(Append(queue[q], p))
      /\ ToSet(Append(queue[q], p)) = ToSet(queue[q]) \cup {p}
  BY <1>1, <1>2, <1>3, AppendFacts
<1>5. TypeOK'
  <2>1. queue' \in [Port -> Seq(Peer)] /\ \A r \in Port : Len(queue'[r]) <= BACKLOG
    BY <1>1, <1>2, <1>4, BacklogAssumption DEF Inv, TypeOK
  <2>2. peer' \in [Peer -> {"idle", "queued", "open"}]
    BY <1>1, <1>2
  <2> QED
    BY <1>1, <2>1, <2>2 DEF Inv, TypeOK
<1>6. QueuesHold'
  <2> SUFFICES ASSUME NEW r \in Port
               PROVE  /\ \A x \in ToSet(queue'[r]) : peer'[x] = "queued" /\ PortOf[x] = r
                      /\ IsInjective(queue'[r])
    BY DEF QueuesHold
  <2>1. ToSet(queue[r]) \subseteq Peer
    BY <1>2 DEF ToSet
  <2>2. CASE r = q
    BY <1>1, <1>2, <1>4, <2>1, <2>2 DEF Inv, QueuesHold
  <2>3. CASE r # q
    <3>1. queue'[r] = queue[r]
      BY <1>1, <1>2, <2>3
    <3> QED
      BY <1>1, <1>2, <1>3, <2>1, <3>1 DEF Inv, QueuesHold
  <2> QED
    BY <2>2, <2>3
<1>7. Served'
  <2>1. \A x \in Peer : peer'[x] = "open" <=> peer[x] = "open"
    BY <1>1, <1>2
  <2> QED
    BY <1>1, <1>5, <2>1, ServedKept DEF Inv, TypeOK, handlers
<1>8. StillReady'
  <2>1. ASSUME NEW r \in Port, queue[r] # << >> PROVE queue'[r] # << >>
    <3>1. CASE r = q
      <4>1. queue'[r] = Append(queue[q], p)
        BY <1>1, <1>2, <3>1
      <4>2. Len(queue'[r]) # Len(<< >>)
        BY <1>2, <1>4, <4>1
      <4> QED
        BY <4>2
    <3>2. CASE r # q
      BY <1>1, <1>2, <2>1, <3>2
    <3> QED
      BY <3>1, <3>2
  <2>2. \A r \in read_fds : r \in Port
    BY DEF Inv, TypeOK
  <2> QED
    BY <1>1, <2>1, <2>2 DEF Inv, StillReady, Port
<1> QED
  BY <1>5, <1>6, <1>7, <1>8 DEF Inv

\* Something comes from a peer.
LEMMA SendKeeps ==
    ASSUME Inv, NEW p \in Peer, Send(p, "request") \/ Send(p, "end")
    PROVE  Inv'
<1>1. /\ sent' \in [Peer -> {"nothing", "request", "end"}]
      /\ UNCHANGED <<phase, read_fds, queue, peer, new_sock, thread, lost, upset>>
  BY DEF Send, handlers, Inv, TypeOK
<1>2. TypeOK'
  BY <1>1 DEF Inv, TypeOK
<1>3. QueuesHold'
  BY <1>1 DEF Inv, QueuesHold
<1>4. Served'
  BY <1>1, ServedKept DEF Inv, TypeOK, handlers
<1>5. StillReady'
  BY <1>1 DEF Inv, StillReady
<1> QED
  BY <1>2, <1>3, <1>4, <1>5 DEF Inv

\* A connection is withdrawn from its queue.
LEMMA WithdrawKeeps == ASSUME Inv, NEW p \in Peer, Withdraw(p) PROVE Inv'
<1> DEFINE q == PortOf[p]
<1>1. PICK i \in DOMAIN queue[q] :
          /\ queue[q][i] = p
          /\ queue' = [queue EXCEPT ![q] = RemoveAt(queue[q], i)]
  BY DEF Withdraw
<1>2. /\ peer[p] = "queued" /\ q \in Port /\ upset'
      /\ peer' = [peer EXCEPT ![p] = "idle"]
      /\ sent' = [sent EXCEPT ![p] = "nothing"]
      /\ UNCHANGED <<phase, read_fds, new_sock, thread, lost>>
  BY PortAssumption DEF Withdraw, handlers
<1>3. /\ queue \in [Port -> Seq(Peer)] /\ peer \in [Peer -> {"idle", "queued", "open"}]
      /\ queue[q] \in Seq(Peer) /\ Len(queue[q]) \in Nat /\ Len(queue[q]) <= BACKLOG
      /\ \A r \in Port : IsInjective(queue[r])
  BY <1>2 DEF Inv, TypeOK, QueuesHold
<1>4. /\ RemoveAt(queue[q], i) \in Seq(Peer)
      /\ Len(RemoveAt(queue[q], i)) = Len(queue[q]) - 1
      /\ IsInjective(RemoveAt(queue[q], i))
      /\ ToSet(RemoveAt(queue[q], i)) = ToSet(queue[q]) \ {p}
  BY <1>1, <1>2, <1>3, RemoveAtFacts
<1>5. TypeOK'
  <2>1. queue' \in [Port -> Seq(Peer)] /\ \A r \in Port : Len(queue'[r]) <= BACKLOG
    BY <1>1, <1>2, <1>3, <1>4, BacklogAssumption DEF Inv, TypeOK
  <2>2. /\ peer' \in [Peer -> {"idle", "queued", "open"}]
        /\ sent' \in [Peer -> {"nothing", "request", "end"}]
        /\ upset' \in BOOLEAN
    BY <1>2, <1>3 DEF Inv, TypeOK, Withdraw
  <2> QED
    BY <1>2, <2>1, <2>2 DEF Inv, TypeOK
<1>6. QueuesHold'
  <2> SUFFICES ASSUME NEW r \in Port
               PROVE  /\ \A x \in ToSet(queue'[r]) : peer'[x] = "queued" /\ PortOf[x] = r
                      /\ IsInjective(queue'[r])
    BY DEF QueuesHold
  <2>1. ToSet(queue[r]) \subseteq Peer
    BY <1>3 DEF ToSet
  <2>2. CASE r = q
    BY <1>1, <1>2, <1>3, <1>4, <2>1, <2>2 DEF Inv, QueuesHold
  <2>3. CASE r # q
    <3>1. queue'[r] = queue[r] /\ p \notin ToSet(queue[r])
      BY <1>1, <1>3, <2>3 DEF Inv, QueuesHold
    <3> QED
      BY <1>2, <1>3, <2>1, <3>1 DEF Inv, QueuesHold
  <2> QED
    BY <2>2, <2>3
<1>7. Served'
  <2>1. \A x \in Peer : peer'[x] = "open" <=> peer[x] = "open"
    BY <1>2, <1>3
  <2> QED
    BY <1>2, <1>5, <2>1, ServedKept DEF Inv, TypeOK, handlers
<1>8. StillReady'
  BY <1>2 DEF StillReady
<1> QED
  BY <1>5, <1>6, <1>7, <1>8 DEF Inv

\* A lost connection is given up.
LEMMA GiveUpKeeps == ASSUME Inv, NEW p \in Peer, GiveUp(p) PROVE Inv'
<1>1. /\ p \in lost /\ lost' = lost \ {p}
      /\ peer' = [peer EXCEPT ![p] = "idle"]
      /\ sent' = [sent EXCEPT ![p] = "nothing"]
      /\ UNCHANGED <<phase, queue, read_fds, new_sock, thread, upset>>
  BY DEF GiveUp
<1>2. TypeOK'
  BY <1>1 DEF Inv, TypeOK
<1>3. peer \in [Peer -> {"idle", "queued", "open"}] /\ peer[p] = "open" /\ lost \subseteq Peer
  BY <1>1 DEF Inv, TypeOK, Served
<1>4. QueuesHold'
  <2>1. \A q \in Port : p \notin ToSet(queue[q])
    BY <1>3 DEF Inv, QueuesHold
  <2>2. \A q \in Port : ToSet(queue[q]) \subseteq Peer
    BY DEF Inv, TypeOK, ToSet
  <2> QED
    BY <1>1, <1>3, <2>1, <2>2 DEF Inv, QueuesHold
<1>5. Served'
  <2>1. \A t \in Thread : Busy(t)' = Busy(t) /\ Socket(t)' = Socket(t)
    BY <1>1 DEF Busy, Socket
  <2> QED
    BY <1>1, <1>3, <2>1 DEF Inv, Served
<1>6. StillReady'
  BY <1>1 DEF Inv, StillReady
<1> QED
  BY <1>2, <1>4, <1>5, <1>6 DEF Inv

\* What accept does, whoever the connection is given to: it leaves its queue, it was
\* nobody's, and the port that is still to be looked at is as it was.
LEMMA AcceptedFacts ==
    ASSUME Inv, NEW q \in Port, Accepted(q), phase' \in {After(q), "exit"}
    PROVE  /\ Head(queue[q]) \in Peer \ lost
           /\ PortOf[Head(queue[q])] = q
           /\ \A t \in Thread : Busy(t) => Socket(t) # Head(queue[q])
           /\ queue' \in [Port -> Seq(Peer)]
           /\ \A r \in Port : Len(queue'[r]) <= BACKLOG
           /\ peer' \in [Peer -> {"idle", "queued", "open"}]
           /\ QueuesHold'
           /\ StillReady'
<1> DEFINE h == Head(queue[q])
<1>1. /\ phase = q /\ queue[q] # << >>
      /\ queue' = [queue EXCEPT ![q] = Tail(queue[q])]
      /\ peer' = [peer EXCEPT ![h] = "open"]
      /\ UNCHANGED <<read_fds, sent, upset>>
  BY DEF Accepted
<1>2. /\ queue \in [Port -> Seq(Peer)] /\ peer \in [Peer -> {"idle", "queued", "open"}]
      /\ queue[q] \in Seq(Peer) /\ Len(queue[q]) \in Nat /\ Len(queue[q]) <= BACKLOG
      /\ \A r \in Port : IsInjective(queue[r])
  BY DEF Inv, TypeOK, QueuesHold
<1>3. /\ h \in Peer /\ h \in ToSet(queue[q])
      /\ Tail(queue[q]) \in Seq(Peer) /\ Len(Tail(queue[q])) = Len(queue[q]) - 1
      /\ IsInjective(Tail(queue[q]))
      /\ ToSet(Tail(queue[q])) = ToSet(queue[q]) \ {h}
  BY <1>1, <1>2, TailFacts
<1> HIDE DEF h
<1>4. peer[h] = "queued" /\ PortOf[h] = q
  BY <1>3 DEF Inv, QueuesHold
<1>5. h \notin lost /\ \A t \in Thread : Busy(t) => Socket(t) # h
  BY <1>4 DEF Inv, Served
<1>6. queue' \in [Port -> Seq(Peer)] /\ \A r \in Port : Len(queue'[r]) <= BACKLOG
  BY <1>1, <1>2, <1>3, BacklogAssumption DEF Inv, TypeOK
<1>7. peer' \in [Peer -> {"idle", "queued", "open"}]
  BY <1>1, <1>2, <1>3
<1>8. QueuesHold'
  <2> SUFFICES ASSUME NEW r \in Port
               PROVE  /\ \A x \in ToSet(queue'[r]) : peer'[x] = "queued" /\ PortOf[x] = r
                      /\ IsInjective(queue'[r])
    BY DEF QueuesHold
  <2>1. ToSet(queue[r]) \subseteq Peer
    BY <1>2 DEF ToSet
  <2>2. CASE r = q
    BY <1>1, <1>2, <1>3, <2>1, <2>2 DEF Inv, QueuesHold
  <2>3. CASE r # q
    <3>1. queue'[r] = queue[r] /\ h \notin ToSet(queue[r])
      BY <1>1, <1>2, <1>4, <2>3 DEF Inv, QueuesHold
    <3> QED
      BY <1>1, <1>2, <1>3, <2>1, <3>1 DEF Inv, QueuesHold
  <2> QED
    BY <2>2, <2>3
<1>9. StillReady'
  <2>1. phase' = "client" => phase = "nm" /\ queue'["client"] = queue["client"]
    BY <1>1, <1>2 DEF After, Port
  <2>2. phase' # "nm"
    BY DEF After, Port
  <2> QED
    BY <1>1, <2>1, <2>2 DEF Inv, StillReady
<1> QED
  BY <1>3, <1>4, <1>5, <1>6, <1>7, <1>8, <1>9 DEF h

\* A connection is given to a thread, through a cell that nobody uses.
LEMMA AcceptKeeps == ASSUME Inv, NEW q \in Port, Accept(q) PROVE Inv'
<1> DEFINE h == Head(queue[q])
<1>1. PICK t \in Thread, c \in Cell :
          /\ thread[t].pc = "none" /\ new_sock[c] = Null
          /\ new_sock' = [new_sock EXCEPT ![c] = h]
          /\ Start(t, q, c)
  BY DEF Accept
<1>2. /\ Accepted(q) /\ phase' = After(q) /\ lost' = lost
      /\ UNCHANGED <<read_fds, sent, upset>>
      /\ peer' = [peer EXCEPT ![h] = "open"]
  BY DEF Accept, Accepted
<1>3. /\ h \in Peer \ lost /\ PortOf[h] = q
      /\ \A u \in Thread : Busy(u) => Socket(u) # h
      /\ queue' \in [Port -> Seq(Peer)]
      /\ \A r \in Port : Len(queue'[r]) <= BACKLOG
      /\ peer' \in [Peer -> {"idle", "queued", "open"}]
      /\ QueuesHold' /\ StillReady'
  BY <1>2, AcceptedFacts
<1> HIDE DEF h
<1> DEFINE s == [pc |-> "start", port |-> q, cell |-> c, sock |-> Null]
<1>4. thread' = [thread EXCEPT ![t] = s]
  BY <1>1 DEF Start
<1>5. /\ new_sock \in [Cell -> Peer \cup {Null}]
      /\ peer \in [Peer -> {"idle", "queued", "open"}]
      /\ DOMAIN thread = Thread
  BY DEF Inv, TypeOK
<1>6. TypeOK'
  <2>1. phase' \in {"client", "select"}
    BY <1>2 DEF After, Port
  <2>2. new_sock' \in [Cell -> Peer \cup {Null}]
    BY <1>1, <1>3, <1>5
  <2>3. /\ thread' \in [Thread -> [pc : {"none", "start", "receive"}, port : Port \cup {Null},
                                   cell : Cell \cup {Null}, sock : Peer \cup {Null}]]
        /\ \A u \in Thread : /\ thread'[u].pc = "start" => thread'[u].cell \in Cell
                             /\ thread'[u].pc = "receive" => thread'[u].sock \in Peer
    BY <1>4 DEF Inv, TypeOK
  <2> QED
    BY <1>2, <1>3, <2>1, <2>2, <2>3 DEF Inv, TypeOK
<1>7. Busy(t)' /\ Socket(t)' = h /\ thread'[t].port = q /\ ~Busy(t)
  BY <1>1, <1>4, <1>5 DEF Busy, Socket
<1>8. ASSUME NEW u \in Thread, u # t
      PROVE  /\ Busy(u)' = Busy(u) /\ thread'[u] = thread[u]
             /\ Busy(u) => Socket(u)' = Socket(u)
  <2>1. thread'[u] = thread[u]
    BY <1>4, <1>5, <1>8
  <2>2. Busy(u) /\ thread[u].pc = "start" => thread[u].cell \in Cell /\ thread[u].cell # c
    BY <1>1, NullAssumption DEF Inv, TypeOK, Served, Busy, Socket
  <2> QED
    BY <1>1, <1>5, <2>1, <2>2 DEF Busy, Socket
<1>9. Served'
  <2>1. ASSUME NEW u \in Thread, Busy(u)'
        PROVE  /\ Socket(u)' \in Peer \ lost' /\ PortOf[Socket(u)'] = thread'[u].port
               /\ peer'[Socket(u)'] = "open"
    BY <1>2, <1>3, <1>5, <1>7, <1>8, <2>1 DEF Inv, Served
  <2>2. ASSUME NEW u \in Thread, NEW v \in Thread, Busy(u)', Busy(v)', Socket(u)' = Socket(v)'
        PROVE  u = v
    BY <1>3, <1>7, <1>8, <2>2 DEF Inv, Served
  <2>3. \A p \in lost' : peer'[p] = "open"
    BY <1>2, <1>3, <1>5 DEF Inv, Served, TypeOK
  <2>4. ASSUME NEW p \in Peer, peer'[p] = "open"
        PROVE  p \in lost' \/ \E u \in Thread : Busy(u)' /\ Socket(u)' = p
    <3>1. CASE p = h
      BY <1>7, <3>1
    <3>2. CASE p # h
      <4>1. peer[p] = "open"
        BY <1>2, <1>5, <2>4, <3>2
      <4>2. p \in lost \/ \E u \in Thread : Busy(u) /\ Socket(u) = p
        BY <4>1 DEF Inv, Served
      <4> QED
        BY <1>2, <1>7, <1>8, <4>2
    <3> QED
      BY <3>1, <3>2
  <2> QED
    BY <2>1, <2>2, <2>3, <2>4 DEF Served
<1> QED
  BY <1>3, <1>6, <1>9 DEF Inv

\* No thread could be made: the connection is lost.
LEMMA NoThreadKeeps == ASSUME Inv, NEW q \in Port, NoThread(q) PROVE Inv'
<1> DEFINE h == Head(queue[q])
<1>1. /\ Accepted(q) /\ phase' \in {After(q), "exit"}
      /\ lost' = lost \cup {h} /\ UNCHANGED <<new_sock, thread, read_fds, sent, upset>>
      /\ peer' = [peer EXCEPT ![h] = "open"]
  BY DEF NoThread, Accepted
<1>2. /\ h \in Peer \ lost
      /\ \A u \in Thread : Busy(u) => Socket(u) # h
      /\ queue' \in [Port -> Seq(Peer)]
      /\ \A r \in Port : Len(queue'[r]) <= BACKLOG
      /\ peer' \in [Peer -> {"idle", "queued", "open"}]
      /\ QueuesHold' /\ StillReady'
  BY <1>1, AcceptedFacts
<1> HIDE DEF h
<1>3. peer \in [Peer -> {"idle", "queued", "open"}] /\ lost \subseteq Peer
  BY DEF Inv, TypeOK
<1>4. TypeOK'
  <2>1. phase' \in {"client", "select", "exit"}
    BY <1>1 DEF After, Port
  <2> QED
    BY <1>1, <1>2, <1>3, <2>1 DEF Inv, TypeOK
<1>5. \A t \in Thread : Busy(t)' = Busy(t) /\ Socket(t)' = Socket(t)
  BY <1>1 DEF Busy, Socket
<1>6. Served'
  BY <1>1, <1>2, <1>3, <1>5 DEF Inv, Served
<1> QED
  BY <1>2, <1>4, <1>6 DEF Inv

\* A thread takes its connection from its cell, and the cell is free.
LEMMA TakeSocketKeeps == ASSUME Inv, NEW t \in Thread, TakeSocket(t) PROVE Inv'
<1> DEFINE c == thread[t].cell
           h == new_sock[c]
<1>1. /\ thread[t].pc = "start"
      /\ thread' = [thread EXCEPT ![t] = [pc |-> "receive", port |-> thread[t].port,
                                          cell |-> Null, sock |-> h]]
      /\ new_sock' = [new_sock EXCEPT ![c] = Null]
      /\ UNCHANGED <<phase, queue, peer, sent, read_fds, lost, upset>>
  BY DEF TakeSocket, connections
<1>2. /\ new_sock \in [Cell -> Peer \cup {Null}] /\ DOMAIN thread = Thread
      /\ c \in Cell /\ Socket(t) = h /\ Busy(t)
  BY <1>1 DEF Inv, TypeOK, Socket, Busy
<1>3. h \in Peer
  BY <1>2 DEF Inv, Served
<1> DEFINE Handler == [pc : {"none", "start", "receive"}, port : Port \cup {Null},
                       cell : Cell \cup {Null}, sock : Peer \cup {Null}]
           r == [pc |-> "receive", port |-> thread[t].port, cell |-> Null, sock |-> h]
<1>4. /\ thread'[t].pc = "receive" /\ thread'[t].sock = h
      /\ thread'[t].port = thread[t].port
      /\ thread' \in [Thread -> Handler]
      /\ \A u \in Thread : u # t => thread'[u] = thread[u]
  <2>1. thread \in [Thread -> Handler]
    BY DEF Inv, TypeOK
  <2>2. thread[t] \in Handler
    BY <2>1
  <2>3. r \in Handler
    BY <1>3, <2>2
  <2> QED
    BY <1>1, <2>1, <2>3
<1>5. TypeOK'
  <2>1. new_sock' \in [Cell -> Peer \cup {Null}]
    BY <1>1, <1>2
  <2>2. \A u \in Thread : /\ thread'[u].pc = "start" => thread'[u].cell \in Cell
                          /\ thread'[u].pc = "receive" => thread'[u].sock \in Peer
    BY <1>3, <1>4 DEF Inv, TypeOK
  <2> QED
    BY <1>1, <1>4, <2>1, <2>2 DEF Inv, TypeOK
<1>6. QueuesHold' /\ StillReady'
  BY <1>1 DEF Inv, QueuesHold, StillReady
<1>7. ASSUME NEW u \in Thread
      PROVE  /\ Busy(u)' = Busy(u) /\ thread'[u].port = thread[u].port
             /\ Busy(u) => Socket(u)' = Socket(u)
  <2>1. CASE u = t
    BY <1>1, <1>2, <1>4, <2>1 DEF Busy, Socket
  <2>2. CASE u # t
    <3>1. thread'[u] = thread[u]
      BY <1>4, <2>2
    <3>2. Busy(u) /\ thread[u].pc = "start" => thread[u].cell \in Cell /\ thread[u].cell # c
      BY <1>2, <2>2 DEF Inv, TypeOK, Served, Socket
    <3> QED
      BY <1>1, <1>2, <3>1, <3>2 DEF Busy, Socket
  <2> QED
    BY <2>1, <2>2
<1>8. Served'
  <2>1. ASSUME NEW u \in Thread, Busy(u)'
        PROVE  /\ Socket(u)' \in Peer \ lost' /\ PortOf[Socket(u)'] = thread'[u].port
               /\ peer'[Socket(u)'] = "open"
    <3>1. Busy(u) /\ Socket(u)' = Socket(u) /\ thread'[u].port = thread[u].port
      BY <1>7, <2>1
    <3>2. /\ Socket(u) \in Peer \ lost /\ PortOf[Socket(u)] = thread[u].port
          /\ peer[Socket(u)] = "open"
      BY <3>1 DEF Inv, Served
    <3> QED
      BY <1>1, <3>1, <3>2
  <2>2. ASSUME NEW u \in Thread, NEW v \in Thread, Busy(u)', Busy(v)', Socket(u)' = Socket(v)'
        PROVE  u = v
    BY <1>7, <2>2 DEF Inv, Served
  <2>3. \A p \in lost' : peer'[p] = "open"
    BY <1>1 DEF Inv, Served
  <2>4. ASSUME NEW p \in Peer, peer'[p] = "open"
        PROVE  p \in lost' \/ \E u \in Thread : Busy(u)' /\ Socket(u)' = p
    BY <1>1, <1>7, <2>4 DEF Inv, Served
  <2> QED
    BY <2>1, <2>2, <2>3, <2>4 DEF Served
<1> QED
  BY <1>5, <1>6, <1>8 DEF Inv

\* A thread has served its connection and closes it.
LEMMA HandleKeeps == ASSUME Inv, NEW t \in Thread, Handle(t) PROVE Inv'
<1> DEFINE h == thread[t].sock
<1>1. /\ thread[t].pc = "receive"
      /\ peer' = [peer EXCEPT ![h] = "idle"]
      /\ sent' = [sent EXCEPT ![h] = "nothing"]
      /\ thread' = [thread EXCEPT ![t] = Resting]
      /\ phase' \in {phase, "exit"}
      /\ UNCHANGED <<queue, read_fds, new_sock, lost, upset>>
  BY DEF Handle
<1>2. /\ DOMAIN thread = Thread /\ h \in Peer /\ Socket(t) = h /\ Busy(t)
      /\ peer \in [Peer -> {"idle", "queued", "open"}] /\ lost \subseteq Peer
  BY <1>1 DEF Inv, TypeOK, Socket, Busy
<1>3. peer[h] = "open" /\ h \notin lost
  BY <1>2 DEF Inv, Served
<1> HIDE DEF h
<1>4. TypeOK'
  <2>1. thread' \in [Thread -> [pc : {"none", "start", "receive"}, port : Port \cup {Null},
                                cell : Cell \cup {Null}, sock : Peer \cup {Null}]]
    BY <1>1 DEF Inv, TypeOK, Resting
  <2>2. \A u \in Thread : /\ thread'[u].pc = "start" => thread'[u].cell \in Cell
                          /\ thread'[u].pc = "receive" => thread'[u].sock \in Peer
    BY <1>1, <1>2 DEF Inv, TypeOK, Resting
  <2> QED
    BY <1>1, <1>2, <2>1, <2>2 DEF Inv, TypeOK
<1>5. QueuesHold'
  <2>1. \A q \in Port : h \notin ToSet(queue[q])
    BY <1>3 DEF Inv, QueuesHold
  <2>2. \A q \in Port : ToSet(queue[q]) \subseteq Peer
    BY DEF Inv, TypeOK, ToSet
  <2> QED
    BY <1>1, <1>2, <2>1, <2>2 DEF Inv, QueuesHold
<1>6. StillReady'
  BY <1>1 DEF Inv, StillReady
<1>7. ~Busy(t)'
  BY <1>1, <1>2 DEF Busy, Resting
<1>8. ASSUME NEW u \in Thread, u # t
      PROVE  /\ Busy(u)' = Busy(u) /\ thread'[u] = thread[u] /\ Socket(u)' = Socket(u)
             /\ Busy(u) => Socket(u) # h
  <2>1. thread'[u] = thread[u] /\ new_sock' = new_sock
    BY <1>1, <1>8
  <2>2. Busy(u) => Socket(u) # h
    BY <1>2, <1>8 DEF Inv, Served
  <2> QED
    BY <2>1, <2>2 DEF Busy, Socket
<1>9. Served'
  <2>1. ASSUME NEW u \in Thread, Busy(u)'
        PROVE  /\ Socket(u)' \in Peer \ lost' /\ PortOf[Socket(u)'] = thread'[u].port
               /\ peer'[Socket(u)'] = "open"
    BY <1>1, <1>2, <1>7, <1>8, <2>1 DEF Inv, Served
  <2>2. ASSUME NEW u \in Thread, NEW v \in Thread, Busy(u)', Busy(v)', Socket(u)' = Socket(v)'
        PROVE  u = v
    BY <1>7, <1>8, <2>2 DEF Inv, Served
  <2>3. \A p \in lost' : peer'[p] = "open"
    BY <1>1, <1>2, <1>3 DEF Inv, Served
  <2>4. ASSUME NEW p \in Peer, peer'[p] = "open"
        PROVE  p \in lost' \/ \E u \in Thread : Busy(u)' /\ Socket(u)' = p
    <3>1. p # h /\ peer[p] = "open"
      BY <1>1, <1>2, <2>4
    <3>2. p \in lost \/ \E u \in Thread : u # t /\ Busy(u) /\ Socket(u) = p
      BY <1>2, <3>1 DEF Inv, Served
    <3> QED
      BY <1>1, <1>8, <3>2
  <2> QED
    BY <2>1, <2>2, <2>3, <2>4 DEF Served
<1> QED
  BY <1>4, <1>5, <1>6, <1>9 DEF Inv

-----------------------------------------------------------------------------
(* The theorems                                                            *)

\* Every step, of main, of a thread or of a peer, keeps the invariant.
LEMMA StepKeeps == ASSUME Inv, [Next]_vars PROVE Inv'
<1>1. CASE Begin
  BY <1>1, BeginKeeps
<1>2. CASE Select \/ SelectFails
  BY <1>2, SelectKeeps
<1>3. ASSUME NEW q \in Port, NotReady(q) \/ Skip(q) PROVE Inv'
  BY <1>3, PassKeeps
<1>4. ASSUME NEW q \in Port, Accept(q) PROVE Inv'
  BY <1>4, AcceptKeeps
<1>5. ASSUME NEW q \in Port, NoThread(q) PROVE Inv'
  BY <1>5, NoThreadKeeps
<1>6. ASSUME NEW t \in Thread, Run(t) PROVE Inv'
  BY <1>6, TakeSocketKeeps, HandleKeeps DEF Run
<1>7. ASSUME NEW p \in Peer, Peers(p) PROVE Inv'
  BY <1>7, ConnectKeeps, SendKeeps, WithdrawKeeps, GiveUpKeeps DEF Peers
<1>8. CASE UNCHANGED vars
  BY <1>8 DEF vars, Inv, TypeOK, QueuesHold, Served, StillReady, Busy, Socket
<1> QED
  BY <1>1, <1>2, <1>3, <1>4, <1>5, <1>6, <1>7, <1>8 DEF Next, Loop

\* The invariant holds in every state of every behaviour.
LEMMA Invariance == Spec => []Inv
<1>1. Init => Inv
  <2> SUFFICES ASSUME Init PROVE Inv
    OBVIOUS
  <2>1. Len(<< >>) = 0 /\ ToSet(<< >>) = {} /\ IsInjective(<< >>)
    BY DEF ToSet, IsInjective
  <2>2. TypeOK
    <3>1. queue \in [Port -> Seq(Peer)] /\ \A q \in Port : Len(queue[q]) <= BACKLOG
      BY <2>1, BacklogAssumption DEF Init
    <3>2. thread \in [Thread -> [pc : {"none", "start", "receive"}, port : Port \cup {Null},
                                 cell : Cell \cup {Null}, sock : Peer \cup {Null}]]
      BY DEF Init, Resting
    <3>3. \A t \in Thread : thread[t].pc = "none"
      BY DEF Init, Resting
    <3> QED
      BY <3>1, <3>2, <3>3 DEF Init, TypeOK
  <2>3. QueuesHold
    BY <2>1 DEF Init, QueuesHold
  <2>4. Served
    BY DEF Init, Served, Busy, Resting
  <2>5. StillReady
    BY DEF Init, StillReady
  <2> QED
    BY <2>2, <2>3, <2>4, <2>5 DEF Inv
<1>2. Inv /\ [Next]_vars => Inv'
  BY StepKeeps
<1> QED
  BY <1>1, <1>2, PTL DEF Spec

\* The types of the main program's variables (storage_server.c:244-415): the queues stay
\* within the backlog, and a thread that has started has a cell or a connection.
THEOREM TypeCorrect == Spec => []TypeOK
<1>1. Inv => TypeOK
  BY DEF Inv
<1> QED
  BY <1>1, Invariance, PTL

\* No connection is given to two threads, to the handler of the other port or to nobody
\* without being counted as lost, however accepts and starting threads interleave: the
\* cell that carries the number of a socket is not used again before it was read
\* (storage_server.c:368-373, :62-63).
THEOREM EachConnectionHasOneThread == Spec => []OneThreadEach
<1>1. Inv => OneThreadEach
  <2> SUFFICES ASSUME Inv PROVE OneThreadEach
    OBVIOUS
  <2>1. \A t \in Thread : Busy(t) => Socket(t) # Null /\ PortOf[Socket(t)] = thread[t].port
    BY NullAssumption DEF Inv, Served
  <2>2. \A t, u \in Thread : Busy(t) /\ Busy(u) /\ Socket(t) = Socket(u) => t = u
    BY DEF Inv, Served
  <2>3. ASSUME NEW p
        PROVE  p \in {x \in Peer : peer[x] = "open"} <=>
                   p \in lost \cup {Socket(t) : t \in {u \in Thread : Busy(u)}}
    BY DEF Inv, Served, TypeOK
  <2> QED
    BY <2>1, <2>2, <2>3 DEF OneThreadEach
<1> QED
  BY <1>1, Invariance, PTL

\* The loop waits in accept only after a connection was withdrawn between select and
\* accept, or after select failed and the sets were used as they were
\* (storage_server.c:360-373).
THEOREM WaitsForCause == Spec => []StuckForCause
<1>1. Inv => StuckForCause
  BY DEF Inv, TypeOK, StillReady, StuckForCause, Stuck, Port
<1> QED
  BY <1>1, Invariance, PTL
=============================================================================

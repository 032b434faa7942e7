------------------------- MODULE StorageServerProofs ------------------------
(***************************************************************************)
(* Theorems about the storage server's locks, for every number of          *)
(* connections, paths and files.                                           *)
(*                                                                         *)
(* The invariant follows each thread through the table: while it searches  *)
(* or inserts it has the mutex, and what it is about to insert is not      *)
(* there; from then on it has the node of its path; and a node is held by  *)
(* one writer or by readers, never by both.                                *)
(***************************************************************************)
EXTENDS StorageServer, TLAPS

InTable(c) == pc[c] \in {"search", "insert"}

Inside(c) == Using(c) \/ pc[c] = "unlock"

AtNode(c) == pc[c] = "wait" \/ Inside(c)

Placed(c) ==
    /\ pc[c] # "idle" => req[c] \in Request
    /\ InTable(c) \/ AtNode(c) => req[c].op \in Shared \cup Exclusive
    /\ InTable(c) => file_locks_mutex = c
    /\ pc[c] = "insert" => NodesOf(req[c].path) = {}
    /\ AtNode(c) => /\ node[c] \in DOMAIN file_locks
                    /\ file_locks[node[c]].path = req[c].path

AllPlaced == \A c \in Conn : Placed(c)

WriterAlone == \A i \in DOMAIN file_locks :
    file_locks[i].writer # Null => file_locks[i].readers = {}

Inv == TypeOK /\ AllPlaced /\ OneNodePerPath /\ WriterAlone /\ LocksMatchThreads

-----------------------------------------------------------------------------
\* What a request carries.
LEMMA RequestFacts ==
    ASSUME NEW r \in Request
    PROVE  /\ r.op \in Shared \cup Exclusive \cup {"UNKNOWN"}
           /\ r.path \in Path
           /\ r.data \in Content
BY DEF Request, Shared, Exclusive, Content

\* A request reads or writes, not both.
LEMMA ModesDiffer == Shared \cap Exclusive = {}
BY DEF Shared, Exclusive

\* An answer has its type.
LEMMA AnswerFacts ==
    ASSUME TypeOK, NEW c \in Conn, NEW code \in Code, NEW data \in Content \cup {Null},
           Answer(c, code, data)
    PROVE  reply' \in [Conn -> [code : Code, data : Content \cup {Null}] \cup {Null}]
<1>1. [code |-> code, data |-> data] \in [code : Code, data : Content \cup {Null}]
  OBVIOUS
<1> QED
  BY <1>1 DEF TypeOK, Answer

(***************************************************************************)
(* A calm step: one thread moves, no lock changes hands.                   *)
(***************************************************************************)
LEMMA CalmStep ==
    ASSUME Inv, NEW c \in Conn, TypeOK', Placed(c)', file_locks' = file_locks,
           \A d \in Conn \ {c} : pc'[d] = pc[d] /\ node'[d] = node[d] /\ req'[d] = req[d],
           \A d \in Conn \ {c} : InTable(d) => file_locks_mutex' = file_locks_mutex,
           Inside(c)' <=> Inside(c),
           Inside(c) => node'[c] = node[c] /\ req'[c] = req[c]
    PROVE  Inv'
<1>1. AllPlaced'
  <2> SUFFICES ASSUME NEW d \in Conn PROVE Placed(d)'
    BY DEF AllPlaced
  <2>1. CASE d = c
    BY <2>1
  <2>2. CASE d # c
    BY <2>2 DEF Inv, AllPlaced, Placed, InTable, AtNode, Inside, Using, NodesOf
  <2> QED
    BY <2>1, <2>2
<1>2. OneNodePerPath' /\ WriterAlone'
  BY DEF Inv, OneNodePerPath, WriterAlone
<1>3. LocksMatchThreads'
  <2> SUFFICES ASSUME NEW i \in DOMAIN file_locks, NEW d \in Conn
               PROVE  LET inside == node'[d] = i /\ Inside(d)'
                      IN  /\ d \in file_locks[i].readers <=> inside /\ req'[d].op \in Shared
                          /\ file_locks[i].writer = d <=> inside /\ req'[d].op \in Exclusive
    BY DEF LocksMatchThreads, Inside, Using
  <2>1. /\ d \in file_locks[i].readers <=>
               (node[d] = i /\ Inside(d)) /\ req[d].op \in Shared
        /\ file_locks[i].writer = d <=>
               (node[d] = i /\ Inside(d)) /\ req[d].op \in Exclusive
    BY DEF Inv, LocksMatchThreads, Inside, Using
  <2>2. Inside(d)' <=> Inside(d)
    BY DEF Inside, Using
  <2>3. Inside(d) => node'[d] = node[d] /\ req'[d] = req[d]
    OBVIOUS
  <2> QED
    BY <2>1, <2>2, <2>3
<1> QED
  BY <1>1, <1>2, <1>3 DEF Inv

\* While the mutex is free nobody is in the table.
LEMMA MutexFreeFacts ==
    ASSUME Inv, MutexFree
    PROVE  \A d \in Conn : ~InTable(d)
BY NullAssumption DEF Inv, AllPlaced, Placed, MutexFree

\* The thread in the table is the only one.
LEMMA HolderFacts ==
    ASSUME Inv, NEW c \in Conn, InTable(c)
    PROVE  \A d \in Conn \ {c} : ~InTable(d)
BY DEF Inv, AllPlaced, Placed

-----------------------------------------------------------------------------
(* Connections                                                             *)

\* accept, and the receive
LEMMA AcceptKeeps ==
    ASSUME Inv, NEW c \in Conn, Accept(c)
    PROVE  Inv'
<1>1. PICK r \in Request : req' = [req EXCEPT ![c] = r]
  BY DEF Accept
<1>2. TypeOK'
  BY <1>1 DEF Inv, TypeOK, Accept, Goto, Location, locks
<1>3. /\ pc'[c] = "received" /\ pc[c] = "idle" /\ req'[c] = r
      /\ UNCHANGED <<file_locks, file_locks_mutex>>
      /\ \A d \in Conn \ {c} : pc'[d] = pc[d] /\ node'[d] = node[d] /\ req'[d] = req[d]
  BY <1>1 DEF Inv, TypeOK, Accept, Goto, locks
<1>4. Placed(c)' /\ ~Inside(c) /\ ~Inside(c)'
  BY <1>3 DEF Placed, InTable, AtNode, Inside, Using
<1> QED
  BY <1>2, <1>3, <1>4, CalmStep

\* An operation the server does not know, and the end of a connection
LEMMA RepliesKeep ==
    ASSUME Inv, NEW c \in Conn, UnknownOperation(c) \/ Reply(c) \/ CopyRpc(c)
    PROVE  Inv'
<1>1. TypeOK'
  <2>1. CASE UnknownOperation(c)
    <3>1. "INVALID_OPERATION" \in Code /\ TypeOK
      BY DEF Code, Inv
    <3> QED
      BY <2>1, <3>1, AnswerFacts DEF TypeOK, UnknownOperation, Goto, Location, locks
  <2>2. CASE Reply(c)
    <3>1. 0 \in 0 .. Len(file_locks)
      BY DEF Inv, TypeOK
    <3> QED
      BY <2>2, <3>1 DEF Inv, TypeOK, Reply, Goto, Location, locks
  <2>3. CASE CopyRpc(c)
    <3>1. "NETWORK_ERROR" \in Code /\ TypeOK
      BY DEF Code, Inv
    <3> QED
      BY <2>3, <3>1, AnswerFacts DEF TypeOK, CopyRpc, Goto, Location, locks
  <2> QED
    BY <2>1, <2>2, <2>3
<1>2. /\ pc[c] \in {"received", "reply", "copy_rpc"} /\ pc'[c] \in {"reply", "idle"}
      /\ pc'[c] = "reply" => req'[c] = req[c]
      /\ UNCHANGED <<file_locks, file_locks_mutex>>
      /\ \A d \in Conn \ {c} : pc'[d] = pc[d] /\ node'[d] = node[d] /\ req'[d] = req[d]
  BY DEF Inv, TypeOK, UnknownOperation, Reply, CopyRpc, Goto, locks
<1>3. pc'[c] = "reply" => req'[c] \in Request
  BY <1>2 DEF Inv, AllPlaced, Placed
<1>4. Placed(c)' /\ ~Inside(c) /\ ~Inside(c)'
  BY <1>2, <1>3 DEF Placed, InTable, AtNode, Inside, Using
<1> QED
  BY <1>1, <1>2, <1>4, CalmStep

-----------------------------------------------------------------------------
(* The table of locks                                                      *)

\* file_locks_mutex is taken
LEMMA EnterTableKeeps ==
    ASSUME Inv, NEW c \in Conn, EnterTable(c)
    PROVE  Inv'
<1>1. TypeOK'
  BY DEF Inv, TypeOK, EnterTable, Goto, Location
<1>2. /\ pc[c] = "received" /\ pc'[c] = "search" /\ req[c].op # "UNKNOWN"
      /\ MutexFree /\ file_locks_mutex' = c
      /\ UNCHANGED <<file_locks, req, node>>
      /\ \A d \in Conn \ {c} : pc'[d] = pc[d]
  BY DEF Inv, TypeOK, EnterTable, Goto
<1>3. req[c] \in Request
  BY <1>2 DEF Inv, AllPlaced, Placed
<1>4. req[c].op \in Shared \cup Exclusive
  BY <1>2, <1>3, RequestFacts
<1>5. Placed(c)' /\ ~Inside(c) /\ ~Inside(c)'
  BY <1>2, <1>3, <1>4 DEF Placed, InTable, AtNode, Inside, Using
<1> QED
  BY <1>1, <1>2, <1>5, MutexFreeFacts, CalmStep

\* The search finds the node of the path, or nothing
LEMMA SearchKeeps ==
    ASSUME Inv, NEW c \in Conn, Search(c)
    PROVE  Inv'
<1>1. pc[c] = "search" /\ InTable(c) /\ UNCHANGED <<file_locks, req>>
  BY DEF Search, InTable
<1>2. /\ req[c] \in Request /\ req[c].op \in Shared \cup Exclusive
      /\ file_locks_mutex = c
  BY <1>1 DEF Inv, AllPlaced, Placed
<1>3. \A d \in Conn \ {c} : ~InTable(d)
  BY <1>1, HolderFacts
<1>4. ASSUME NEW i \in DOMAIN file_locks, IsNodeOf(i, req[c].path),
             node' = [node EXCEPT ![c] = i], Goto(c, "wait"), file_locks_mutex' = Null
      PROVE  Inv'
  <2>1. i \in 0 .. Len(file_locks)
    BY DEF Inv, TypeOK
  <2>2. TypeOK'
    BY <1>4, <2>1 DEF Inv, TypeOK, Search, Goto, Location
  <2>3. /\ pc'[c] = "wait" /\ node'[c] = i
        /\ \A d \in Conn \ {c} : pc'[d] = pc[d] /\ node'[d] = node[d]
    BY <1>4 DEF Inv, TypeOK, Goto
  <2>4. Placed(c)' /\ ~Inside(c) /\ ~Inside(c)'
    BY <1>1, <1>2, <1>4, <2>3
       DEF Placed, InTable, AtNode, Inside, Using, IsNodeOf, NodesOf
  <2> QED
    BY <1>1, <1>3, <2>2, <2>3, <2>4, CalmStep
<1>5. ASSUME NodesOf(req[c].path) = {}, Goto(c, "insert"), UNCHANGED <<node, file_locks_mutex>>
      PROVE  Inv'
  <2>1. TypeOK'
    BY <1>5 DEF Inv, TypeOK, Search, Goto, Location
  <2>2. pc'[c] = "insert" /\ \A d \in Conn \ {c} : pc'[d] = pc[d]
    BY <1>5 DEF Inv, TypeOK, Goto
  <2>3. Placed(c)' /\ ~Inside(c) /\ ~Inside(c)'
    BY <1>1, <1>2, <1>5, <2>2 DEF Placed, InTable, AtNode, Inside, Using, NodesOf
  <2> QED
    BY <1>1, <1>5, <2>1, <2>2, <2>3, CalmStep
<1> QED
  BY <1>4, <1>5 DEF Search

\* No memory for a node
LEMMA InsertFailsKeeps ==
    ASSUME Inv, NEW c \in Conn, InsertFails(c)
    PROVE  Inv'
<1>1. TypeOK'
  BY DEF Inv, TypeOK, InsertFails, Goto, Answer, Location, Code
<1>2. /\ pc[c] = "insert" /\ pc'[c] = "reply" /\ InTable(c)
      /\ UNCHANGED <<file_locks, req, node>>
      /\ \A d \in Conn \ {c} : pc'[d] = pc[d]
  BY DEF Inv, TypeOK, InsertFails, Goto, InTable
<1>3. Placed(c)' /\ ~Inside(c) /\ ~Inside(c)'
  BY <1>2 DEF Inv, AllPlaced, Placed, InTable, AtNode, Inside, Using
<1> QED
  BY <1>1, <1>2, <1>3, HolderFacts, CalmStep

\* The lock call answers an error
LEMMA LockFailsKeeps ==
    ASSUME Inv, NEW c \in Conn, LockFails(c)
    PROVE  Inv'
<1>1. TypeOK'
  BY DEF Inv, TypeOK, LockFails, Goto, Answer, Location, Code, locks
<1>2. /\ pc[c] = "wait" /\ pc'[c] = "reply" /\ ~InTable(c)
      /\ UNCHANGED <<file_locks, file_locks_mutex, req, node>>
      /\ \A d \in Conn \ {c} : pc'[d] = pc[d]
  BY DEF Inv, TypeOK, LockFails, Goto, InTable, locks
<1>3. Placed(c)' /\ ~Inside(c) /\ ~Inside(c)'
  BY <1>2 DEF Inv, AllPlaced, Placed, InTable, AtNode, Inside, Using
<1> QED
  BY <1>1, <1>2, <1>3, CalmStep

\* A node for a path that has none
LEMMA InsertKeeps ==
    ASSUME Inv, NEW c \in Conn, Insert(c)
    PROVE  Inv'
<1> DEFINE n == Len(file_locks) + 1
           new == NewNode(req[c].path)
<1>1. /\ pc[c] = "insert" /\ file_locks' = Append(file_locks, new)
      /\ node' = [node EXCEPT ![c] = n]
      /\ file_locks_mutex' = Null
      /\ UNCHANGED <<files, req, reply, before>>
  BY DEF Insert
<1>2. /\ pc'[c] = "wait" /\ node'[c] = n
      /\ \A d \in Conn \ {c} : pc'[d] = pc[d] /\ node'[d] = node[d]
  BY DEF Inv, TypeOK, Insert, Goto
<1>3. /\ InTable(c) /\ req[c] \in Request /\ req[c].op \in Shared \cup Exclusive
      /\ NodesOf(req[c].path) = {} /\ \A d \in Conn \ {c} : ~InTable(d)
  BY <1>1, HolderFacts DEF Inv, AllPlaced, Placed, InTable
<1>4. /\ file_locks \in Seq(LockNode) /\ Len(file_locks) \in Nat
      /\ DOMAIN file_locks = 1 .. Len(file_locks)
  BY DEF Inv, TypeOK
<1>5. new \in LockNode /\ new.path = req[c].path /\ new.readers = {} /\ new.writer = Null
  BY <1>3, RequestFacts DEF NewNode, LockNode
<1> HIDE DEF new
<1>6. /\ file_locks' \in Seq(LockNode) /\ Len(file_locks') = n
      /\ DOMAIN file_locks' = 1 .. n
      /\ file_locks'[n] = new
      /\ \A i \in DOMAIN file_locks : file_locks'[i] = file_locks[i] /\ i # n
  BY <1>1, <1>4, <1>5
<1>7. \A i \in DOMAIN file_locks' : i \in DOMAIN file_locks \/ i = n
  BY <1>4, <1>6
<1>8. TypeOK'
  <2>1. node' \in [Conn -> 0 .. Len(file_locks')]
    BY <1>1, <1>4, <1>6 DEF Inv, TypeOK
  <2> QED
    BY <1>1, <1>6, <2>1 DEF Inv, TypeOK, Insert, Goto, Location
<1>9. AllPlaced'
  <2>1. Placed(c)'
    BY <1>1, <1>2, <1>3, <1>4, <1>5, <1>6 DEF Placed, InTable, AtNode, Inside, Using
  <2>2. ASSUME NEW d \in Conn \ {c} PROVE Placed(d)'
    <3>1. pc'[d] = pc[d] /\ node'[d] = node[d] /\ req'[d] = req[d] /\ ~InTable(d)
      BY <1>1, <1>2, <1>3
    <3>2. Placed(d)
      BY DEF Inv, AllPlaced
    <3> QED
      BY <1>4, <1>6, <3>1, <3>2 DEF Placed, InTable, AtNode, Inside, Using
  <2> QED
    BY <2>1, <2>2 DEF AllPlaced
<1>10. OneNodePerPath'
  BY <1>3, <1>5, <1>6, <1>7 DEF Inv, OneNodePerPath, NodesOf
<1>11. WriterAlone'
  BY <1>5, <1>6, <1>7 DEF Inv, WriterAlone
<1>12. LocksMatchThreads'
  <2> SUFFICES ASSUME NEW i \in DOMAIN file_locks', NEW d \in Conn
               PROVE  LET inside == node'[d] = i /\ Inside(d)'
                      IN  /\ d \in file_locks'[i].readers <=> inside /\ req'[d].op \in Shared
                          /\ file_locks'[i].writer = d <=> inside /\ req'[d].op \in Exclusive
    BY DEF LocksMatchThreads, Inside, Using
  <2>1. Inside(d)' <=> Inside(d)
    BY <1>1, <1>2 DEF Inside, Using
  <2>2. Inside(d) => node'[d] = node[d] /\ node[d] \in DOMAIN file_locks
    BY <1>1, <1>2 DEF Inv, AllPlaced, Placed, AtNode, Inside, Using
  <2>3. CASE i \in DOMAIN file_locks
    <3>1. /\ d \in file_locks[i].readers <=>
                 (node[d] = i /\ Inside(d)) /\ req[d].op \in Shared
          /\ file_locks[i].writer = d <=>
                 (node[d] = i /\ Inside(d)) /\ req[d].op \in Exclusive
      BY <2>3 DEF Inv, LocksMatchThreads, Inside, Using
    <3> QED
      BY <1>1, <1>6, <2>1, <2>2, <2>3, <3>1
  <2>4. CASE i = n
    <3>1. ~(node'[d] = i /\ Inside(d)')
      BY <1>6, <2>1, <2>2, <2>4
    <3> QED
      BY <1>5, <1>6, <2>4, <3>1, NullAssumption
  <2> QED
    BY <1>7, <2>3, <2>4
<1> QED
  BY <1>8, <1>9, <1>10, <1>11, <1>12 DEF Inv

-----------------------------------------------------------------------------
(***************************************************************************)
(* A step that changes one node of the table, for its own thread only.     *)
(***************************************************************************)
LEMMA LockStep ==
    ASSUME Inv, NEW c \in Conn, NEW i \in DOMAIN file_locks, NEW n \in LockNode,
           file_locks' = [file_locks EXCEPT ![i] = n], n.path = file_locks[i].path,
           UNCHANGED <<file_locks_mutex, files, req, node, reply, before>>,
           NEW where \in Location, Goto(c, where), Placed(c)', ~InTable(c),
           n.writer # Null => n.readers = {},
           node[c] = i,
           c \in n.readers <=> Inside(c)' /\ req[c].op \in Shared,
           n.writer = c <=> Inside(c)' /\ req[c].op \in Exclusive,
           \A d \in Conn \ {c} : /\ d \in n.readers <=> d \in file_locks[i].readers
                                 /\ n.writer = d <=> file_locks[i].writer = d
    PROVE  Inv'
<1>1. /\ file_locks \in Seq(LockNode)
      /\ pc'[c] = where /\ \A d \in Conn \ {c} : pc'[d] = pc[d]
  BY DEF Inv, TypeOK, Goto
<1>2. /\ file_locks' \in Seq(LockNode) /\ Len(file_locks') = Len(file_locks)
      /\ DOMAIN file_locks' = DOMAIN file_locks
      /\ \A k \in DOMAIN file_locks :
             file_locks'[k] = IF k = i THEN n ELSE file_locks[k]
  BY <1>1
<1>3. \A k \in DOMAIN file_locks : file_locks'[k].path = file_locks[k].path
  BY <1>2
<1>4. TypeOK'
  BY <1>2 DEF Inv, TypeOK, Goto
<1>5. AllPlaced'
  <2>1. ASSUME NEW d \in Conn \ {c} PROVE Placed(d)'
    <3>1. Placed(d) /\ pc'[d] = pc[d]
      BY <1>1 DEF Inv, AllPlaced
    <3>2. NodesOf(req[d].path) = {} => NodesOf(req[d].path)' = {}
      BY <1>2, <1>3 DEF NodesOf
    <3> QED
      BY <1>2, <1>3, <3>1, <3>2 DEF Placed, InTable, AtNode, Inside, Using
  <2> QED
    BY <2>1 DEF AllPlaced
<1>6. OneNodePerPath'
  BY <1>2, <1>3 DEF Inv, OneNodePerPath
<1>7. WriterAlone'
  BY <1>2 DEF Inv, WriterAlone
<1>8. LocksMatchThreads'
  <2> SUFFICES ASSUME NEW k \in DOMAIN file_locks, NEW d \in Conn
               PROVE  LET inside == node[d] = k /\ Inside(d)'
                      IN  /\ d \in file_locks'[k].readers <=> inside /\ req[d].op \in Shared
                          /\ file_locks'[k].writer = d <=> inside /\ req[d].op \in Exclusive
    BY <1>2 DEF LocksMatchThreads, Inside, Using
  <2>1. /\ d \in file_locks[k].readers <=>
               (node[d] = k /\ Inside(d)) /\ req[d].op \in Shared
        /\ file_locks[k].writer = d <=>
               (node[d] = k /\ Inside(d)) /\ req[d].op \in Exclusive
    BY DEF Inv, LocksMatchThreads, Inside, Using
  <2>2. d # c => (Inside(d)' <=> Inside(d))
    BY <1>1 DEF Inside, Using
  <2>3. CASE d # c
    BY <1>2, <2>1, <2>2, <2>3
  <2>4. CASE d = c /\ k = i
    BY <1>2, <2>4
  <2>5. CASE d = c /\ k # i
    BY <1>2, <2>1, <2>5
  <2> QED
    BY <2>3, <2>4, <2>5
<1> QED
  BY <1>4, <1>5, <1>6, <1>7, <1>8 DEF Inv

\* A reader, or a writer, is let in.
LEMMA LockKeeps ==
    ASSUME Inv, NEW c \in Conn, ReadLock(c) \/ WriteLock(c)
    PROVE  Inv'
<1> DEFINE i == node[c]
           old == file_locks[i]
           n == IF ReadLock(c) THEN [old EXCEPT !.readers = @ \cup {c}]
                               ELSE [old EXCEPT !.writer = c]
<1>1. /\ pc[c] = "wait" /\ old.writer = Null
      /\ file_locks' = [file_locks EXCEPT ![i] = n]
      /\ Goto(c, "locked")
      /\ UNCHANGED <<file_locks_mutex, files, req, node, reply, before>>
      /\ \/ ReadLock(c) /\ req[c].op \in Shared
         \/ ~ReadLock(c) /\ req[c].op \in Exclusive /\ old.readers = {}
  BY DEF ReadLock, WriteLock
<1>2. /\ i \in DOMAIN file_locks /\ old.path = req[c].path
      /\ req[c] \in Request /\ req[c].op \in Shared \cup Exclusive
  BY <1>1 DEF Inv, AllPlaced, Placed, AtNode
<1>3. old \in LockNode
  BY <1>2 DEF Inv, TypeOK
<1>4. /\ n \in LockNode /\ n.path = old.path
      /\ ReadLock(c) => n.readers = old.readers \cup {c} /\ n.writer = old.writer
      /\ ~ReadLock(c) => n.readers = old.readers /\ n.writer = c
  BY <1>3 DEF LockNode
<1> HIDE DEF n
<1>5. pc'[c] = "locked" /\ "locked" \in Location
  BY <1>1 DEF Inv, TypeOK, Goto, Location
<1>6. Inside(c)' /\ ~InTable(c)
  BY <1>1, <1>5 DEF Inside, Using, InTable
<1>7. DOMAIN file_locks' = DOMAIN file_locks /\ file_locks'[i] = n
  BY <1>1, <1>2 DEF Inv, TypeOK
<1>8. Placed(c)'
  BY <1>1, <1>2, <1>4, <1>5, <1>7 DEF Placed, InTable, AtNode, Inside, Using
<1>9. ~Inside(c)
  BY <1>1 DEF Inside, Using
<1>10. /\ c \in old.readers <=> (node[c] = i /\ Inside(c)) /\ req[c].op \in Shared
       /\ old.writer = c <=> (node[c] = i /\ Inside(c)) /\ req[c].op \in Exclusive
  BY <1>2 DEF Inv, LocksMatchThreads, Inside, Using
<1>11. /\ n.writer # Null => n.readers = {}
       /\ c \in n.readers <=> Inside(c)' /\ req[c].op \in Shared
       /\ n.writer = c <=> Inside(c)' /\ req[c].op \in Exclusive
       /\ \A d \in Conn \ {c} : /\ d \in n.readers <=> d \in old.readers
                                /\ n.writer = d <=> old.writer = d
  BY <1>1, <1>4, <1>6, <1>9, <1>10, ModesDiffer, NullAssumption
<1> QED
  BY <1>1, <1>2, <1>4, <1>5, <1>6, <1>8, <1>11, LockStep

\* A release finds the node that was acquired.
LEMMA UnlockKeeps ==
    ASSUME Inv, NEW c \in Conn, Unlock(c)
    PROVE  Inv'
<1> DEFINE i == node[c]
           old == file_locks[i]
           n == Unlocked(old, c)
<1>1. /\ pc[c] = "unlock" /\ Goto(c, AfterUnlock(c))
      /\ UNCHANGED <<file_locks_mutex, files, req, node, reply, before>>
  BY DEF Unlock
<1>2. /\ i \in DOMAIN file_locks /\ old.path = req[c].path
      /\ req[c] \in Request
  BY <1>1 DEF Inv, AllPlaced, Placed, AtNode, Inside
<1>3. \A k \in DOMAIN file_locks : IsNodeOf(k, req[c].path) => k = i
  BY <1>2 DEF Inv, OneNodePerPath, IsNodeOf, NodesOf
<1>4. file_locks' = [file_locks EXCEPT ![i] = n]
  BY <1>3 DEF Unlock
<1>5. old \in LockNode
  BY <1>2 DEF Inv, TypeOK
<1>6. /\ n \in LockNode /\ n.path = old.path /\ n.readers = old.readers \ {c}
      /\ n.writer = IF old.writer = c THEN Null ELSE old.writer
  BY <1>5 DEF LockNode, Unlocked
<1> HIDE DEF n
<1>7. PICK where \in {"reply", "copy_rpc"} : Goto(c, where)
  BY <1>1 DEF AfterUnlock
<1>8. where \in Location /\ pc'[c] = where
  BY <1>7 DEF Location, Inv, TypeOK, Goto
<1>9. ~Inside(c)' /\ ~InTable(c)
  BY <1>1, <1>7, <1>8 DEF Inside, Using, InTable
<1>10. Placed(c)'
  BY <1>1, <1>2, <1>7, <1>8 DEF Placed, InTable, AtNode, Inside, Using
<1>11. n.writer # Null => n.readers = {}
  BY <1>2, <1>6 DEF Inv, WriterAlone
<1>12. /\ c \notin n.readers /\ n.writer # c
       /\ \A d \in Conn \ {c} : /\ d \in n.readers <=> d \in old.readers
                                /\ n.writer = d <=> old.writer = d
  BY <1>6, NullAssumption
<1>13. /\ c \in n.readers <=> Inside(c)' /\ req[c].op \in Shared
       /\ n.writer = c <=> Inside(c)' /\ req[c].op \in Exclusive
  BY <1>9, <1>12
<1> QED
  BY <1>1, <1>2, <1>4, <1>6, <1>7, <1>8, <1>9, <1>10, <1>11, <1>12, <1>13, LockStep

-----------------------------------------------------------------------------
(* The file operations                                                     *)

\* A file operation keeps the types.
LEMMA OperateType ==
    ASSUME Inv, NEW c \in Conn, Operate(c)
    PROVE  TypeOK'
<1>1. TypeOK
  BY DEF Inv
<1>2. pc[c] \in {"locked", "write", "unlink"}
  BY DEF Operate, ss_read, ss_get_info, WriteOpen, WriteData, ss_create, DeleteStat,
         DeleteUnlink, Holding
<1>3. req[c] \in Request /\ req[c].path \in Path /\ req[c].data \in Content
  BY <1>2, RequestFacts DEF Inv, AllPlaced, Placed
<1> DEFINE f == FileOfReq(c)
<1>4. f \in File /\ files[f] \in Content
  BY <1>1, <1>3, FileAssumption DEF FileOfReq, TypeOK
<1>5. /\ {Absent, Dir, Empty, Partial} \subseteq Content
      /\ Text(files[f]) \in Content
  BY <1>4 DEF Content, Text
<1>6. /\ {"SUCCESS", "FILE_NOT_FOUND", "PERMISSION_DENIED", "INVALID_OPERATION",
       "ASYNC_WRITE_FAILED"} \subseteq Code
      /\ {"write", "unlink", "unlock"} \subseteq Location
  BY DEF Code, Location
<1> DEFINE Typed == reply' \in [Conn -> [code : Code, data : Content \cup {Null}] \cup {Null}]
<1>7. ASSUME NEW code \in Code, Fails(c, code) PROVE TypeOK'
  BY <1>1, <1>6, <1>7, AnswerFacts DEF TypeOK, Fails, Goto, locks
<1>8. ASSUME NEW data \in Content \cup {Null}, Succeeds(c, data)
      PROVE  Typed /\ pc' \in [Conn -> Location]
  BY <1>1, <1>6, <1>8, AnswerFacts DEF TypeOK, Succeeds, Goto
<1>9. ASSUME NEW content \in Content
      PROVE  /\ Store(c, content) => files' \in [File -> Content]
             /\ files' = [files EXCEPT ![f] = content] => files' \in [File -> Content]
  BY <1>1, <1>4 DEF TypeOK, Store
<1> HIDE DEF f, Typed
<1>10. CASE ss_read(c)
  BY <1>1, <1>5, <1>6, <1>7, <1>8, <1>10 DEF ss_read, TypeOK, locks, f, Typed
<1>11. CASE ss_get_info(c)
  BY <1>1, <1>4, <1>6, <1>7, <1>8, <1>11 DEF ss_get_info, TypeOK, locks, f, Typed
<1>12. CASE WriteOpen(c)
  <2>1. CASE Fails(c, "PERMISSION_DENIED")
    BY <1>6, <1>7, <2>1
  <2>2. CASE ~Fails(c, "PERMISSION_DENIED")
    <3>1. files' \in [File -> Content]
      BY <1>5, <1>9, <1>12, <2>2 DEF WriteOpen, OpenForWriting, f
    <3>2. before' \in [Conn -> Content \cup {Null}] /\ pc' \in [Conn -> Location]
      BY <1>1, <1>4, <1>6, <1>12, <2>2 DEF WriteOpen, TypeOK, Goto, f
    <3> QED
      BY <1>1, <1>12, <2>2, <3>1, <3>2 DEF WriteOpen, TypeOK, locks
  <2> QED
    BY <2>1, <2>2
<1>13. CASE WriteData(c)
  <2>1. files' \in [File -> Content]
    BY <1>3, <1>5, <1>9, <1>13 DEF WriteData
  <2>2. Typed
    BY <1>1, <1>6, <1>8, <1>13, AnswerFacts DEF WriteData, Typed
  <2>3. pc' \in [Conn -> Location] /\ before' \in [Conn -> Content \cup {Null}]
    BY <1>1, <1>6, <1>13 DEF WriteData, Succeeds, TypeOK, Goto
  <2> QED
    BY <1>1, <1>13, <2>1, <2>2, <2>3 DEF WriteData, TypeOK, locks, Typed
<1>14. CASE ss_create(c)
  <2>1. CASE Fails(c, "PERMISSION_DENIED") \/ Fails(c, "INVALID_OPERATION")
    BY <1>6, <1>7, <2>1
  <2>2. CASE ~(Fails(c, "PERMISSION_DENIED") \/ Fails(c, "INVALID_OPERATION"))
    <3>1. files' \in [File -> Content]
      BY <1>5, <1>9, <1>14, <2>2 DEF ss_create, OpenForWriting, f
    <3>2. Typed /\ pc' \in [Conn -> Location]
      BY <1>8, <1>14, <2>2 DEF ss_create
    <3> QED
      BY <1>1, <1>14, <2>2, <3>1, <3>2 DEF ss_create, TypeOK, locks, Typed
  <2> QED
    BY <2>1, <2>2
<1>15. CASE DeleteStat(c)
  BY <1>1, <1>6, <1>7, <1>15 DEF DeleteStat, TypeOK, Goto, locks
<1>16. CASE DeleteUnlink(c)
  <2>1. CASE Fails(c, "PERMISSION_DENIED")
    BY <1>6, <1>7, <2>1
  <2>2. CASE ~Fails(c, "PERMISSION_DENIED")
    <3>1. files' \in [File -> Content]
      BY <1>5, <1>9, <1>16, <2>2 DEF DeleteUnlink, f
    <3>2. Typed /\ pc' \in [Conn -> Location]
      BY <1>8, <1>16, <2>2 DEF DeleteUnlink
    <3> QED
      BY <1>1, <1>16, <2>2, <3>1, <3>2 DEF DeleteUnlink, TypeOK, locks, Typed
  <2> QED
    BY <2>1, <2>2
<1> QED
  BY <1>10, <1>11, <1>12, <1>13, <1>14, <1>15, <1>16 DEF Operate

\* A file operation stays inside its lock.
LEMMA OperateKeeps ==
    ASSUME Inv, NEW c \in Conn, Operate(c)
    PROVE  Inv'
<1>1. /\ pc[c] \in {"locked", "write", "unlink"}
      /\ \/ Goto(c, "write")
         \/ Goto(c, "unlink")
         \/ Goto(c, "unlock")
      /\ UNCHANGED <<file_locks, file_locks_mutex, req, node>>
  BY DEF Operate, ss_read, ss_get_info, WriteOpen, WriteData, ss_create, DeleteStat,
         DeleteUnlink, Holding, Fails, Succeeds, locks
<1>2. /\ pc'[c] \in {"write", "unlink", "unlock"}
      /\ \A d \in Conn \ {c} : pc'[d] = pc[d]
  BY <1>1 DEF Inv, TypeOK, Goto
<1>3. Inside(c) /\ Inside(c)'
  BY <1>1, <1>2 DEF Inside, Using
<1>4. Placed(c)'
  BY <1>1, <1>2 DEF Inv, AllPlaced, Placed, InTable, AtNode, Inside, Using
<1> QED
  BY <1>1, <1>2, <1>3, <1>4, OperateType, CalmStep

-----------------------------------------------------------------------------
(* The invariant and the theorems                                          *)

\* A server that has just registered has an empty table and no connection.
LEMMA InvInit == Init => Inv
<1> SUFFICES ASSUME Init PROVE Inv
  OBVIOUS
<1>1. /\ file_locks = << >> /\ file_locks \in Seq(LockNode)
      /\ DOMAIN file_locks = {} /\ 0 \in 0 .. Len(file_locks)
  BY DEF Init
<1>2. TypeOK
  BY <1>1 DEF Init, TypeOK, Location, Content
<1>3. AllPlaced
  BY DEF Init, AllPlaced, Placed, InTable, AtNode, Inside, Using
<1>4. OneNodePerPath /\ WriterAlone /\ LocksMatchThreads
  BY <1>1 DEF OneNodePerPath, WriterAlone, LocksMatchThreads
<1> QED
  BY <1>2, <1>3, <1>4 DEF Inv

\* The process starts again
LEMMA CrashKeeps ==
    ASSUME Inv, Crash
    PROVE  Inv'
<1>1. TypeOK'
  <2>1. << >> \in Seq(LockNode) /\ 0 \in 0 .. Len(<< >>)
    OBVIOUS
  <2> QED
    BY <2>1 DEF TypeOK, Crash, Location
<1>2. AllPlaced' /\ OneNodePerPath' /\ WriterAlone' /\ LocksMatchThreads'
  BY DEF Crash, AllPlaced, Placed, InTable, AtNode, Inside, Using, OneNodePerPath, WriterAlone,
         LocksMatchThreads
<1> QED
  BY <1>1, <1>2 DEF Inv

\* Every step keeps the invariant.
LEMMA InvStep == Inv /\ [Next]_vars => Inv'
<1> SUFFICES ASSUME Inv, [Next]_vars PROVE Inv'
  OBVIOUS
<1>1. ASSUME NEW c \in Conn, Accept(c) \/ Run(c) \/ Wait(c) \/ LockFails(c) \/ CopyRpc(c)
      PROVE  Inv'
  BY <1>1, AcceptKeeps, RepliesKeep, EnterTableKeeps, SearchKeeps, InsertKeeps,
     InsertFailsKeeps, LockFailsKeeps, LockKeeps, UnlockKeeps, OperateKeeps DEF Run, Wait
<1>2. CASE UNCHANGED vars
  <2>1. TypeOK' /\ OneNodePerPath' /\ WriterAlone' /\ LocksMatchThreads'
    BY <1>2 DEF Inv, TypeOK, OneNodePerPath, WriterAlone, LocksMatchThreads, Using,
                vars, locks
  <2>2. AllPlaced'
    BY <1>2 DEF Inv, AllPlaced, Placed, InTable, AtNode, Inside, Using, NodesOf, vars, locks
  <2> QED
    BY <2>1, <2>2 DEF Inv
<1>3. CASE Crash
  BY <1>3, CrashKeeps
<1> QED
  BY <1>1, <1>2, <1>3 DEF Next

\* The invariant holds throughout.
THEOREM Invariance == Spec => []Inv
BY InvInit, InvStep, PTL DEF Spec

\* Every variable keeps its type (ss_file_operations.c:26-141).
THEOREM TypeCorrect == Spec => []TypeOK
<1>1. Inv => TypeOK
  BY DEF Inv
<1> QED
  BY <1>1, Invariance, PTL

\* However many threads ask for the lock of a new path at once, there is one lock
\* (ss_file_operations.c:57-59, :90-92).
THEOREM OneLockPerPath == Spec => []OneNodePerPath
<1>1. Inv => OneNodePerPath
  BY DEF Inv
<1> QED
  BY <1>1, Invariance, PTL

\* The locks are held by the threads that use them, and a release gives back what
\* was acquired (ss_file_operations.c:73-86, :106-119).
THEOREM LocksAreTheThreads == Spec => []LocksMatchThreads
<1>1. Inv => LocksMatchThreads
  BY DEF Inv
<1> QED
  BY <1>1, Invariance, PTL

\* No two paths are spellings of one file.
OneName == \A p, q \in Path : FileOf[p] = FileOf[q] => p = q

\* Threads that use one file are inside one lock.
LEMMA LocksExclude ==
    ASSUME OneName, Inv
    PROVE  SingleWriter
<1> SUFFICES ASSUME NEW c \in Conn, NEW d \in Conn, c # d, Using(c), Using(d),
                    FileOfReq(c) = FileOfReq(d)
             PROVE  req[c].op \in Shared /\ req[d].op \in Shared
  BY DEF SingleWriter
<1>1. /\ req[c].path \in Path /\ req[d].path \in Path
      /\ req[c].op \in Shared \cup Exclusive /\ req[d].op \in Shared \cup Exclusive
      /\ node[c] \in DOMAIN file_locks /\ file_locks[node[c]].path = req[c].path
      /\ node[d] \in DOMAIN file_locks /\ file_locks[node[d]].path = req[d].path
  BY RequestFacts DEF Inv, AllPlaced, Placed, AtNode, Inside, Using
<1>2. node[c] = node[d]
  BY <1>1 DEF FileOfReq, Inv, OneNodePerPath, OneName
<1> DEFINE l == file_locks[node[c]]
<1>3. /\ l.writer # Null => l.readers = {}
      /\ req[c].op \in Exclusive => l.writer = c
      /\ req[d].op \in Exclusive => l.writer = d
      /\ req[c].op \in Shared => c \in l.readers
      /\ req[d].op \in Shared => d \in l.readers
  BY <1>1, <1>2 DEF Inv, WriterAlone, LocksMatchThreads
<1> QED
  BY <1>1, <1>3, NullAssumption

\* When no two paths name one file, a file is changed by one thread at a time and
\* read by none meanwhile (ss_file_operations.c:89-103).
THEOREM Exclusion == ASSUME OneName PROVE Spec => []SingleWriter
<1>1. Inv => SingleWriter
  BY LocksExclude
<1> QED
  BY <1>1, Invariance, PTL

=============================================================================

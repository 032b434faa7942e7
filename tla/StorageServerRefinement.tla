----------------------- MODULE StorageServerRefinement ----------------------
(***************************************************************************)
(* When no two paths name one file, the storage server implements          *)
(* FileStore, for any number of connections, paths and files.              *)
(*                                                                         *)
(* A request takes effect in the last step it makes under its lock.  Until *)
(* then the content in the middle of a write is in before, which is what   *)
(* the mapping shows; the lock keeps every other thread from it.           *)
(***************************************************************************)
EXTENDS StorageServerProofs

Undecided == {"received", "search", "insert", "wait", "locked", "write", "unlink"}

Decided == {"unlock", "copy_rpc", "reply"}

\* What a thread has decided, and what it has saved, at each position.
Answered(c) ==
    /\ pc[c] = "idle" => req[c] = Null
    /\ pc[c] # "idle" => req[c] \in Request
    /\ pc[c] \in Undecided \cup {"idle"} => reply[c] = Null
    /\ pc[c] \in Decided => reply[c] \in [code : Code, data : Content \cup {Null}]
    /\ pc[c] = "copy_rpc" => req[c].op = "COPY_FILE" /\ reply[c].code = "SUCCESS"
    /\ pc[c] = "unlink" => req[c].op = "DELETE_FILE"
    /\ pc[c] = "write" => /\ req[c].op = "WRITE_FILE"
                          /\ before[c] \in Content \ {Dir}
                          /\ files[FileOfReq(c)] = Empty

RInv == Inv /\ SingleWriter /\ \A c \in Conn : Answered(c)

-----------------------------------------------------------------------------
\* A thread that writes is alone with its file.
LEMMA WriterFacts ==
    ASSUME RInv, NEW c \in Conn, NEW d \in Conn, Using(c), Using(d), c # d,
           req[c].op \in Exclusive \/ req[d].op \in Exclusive
    PROVE  FileOfReq(c) # FileOfReq(d)
BY ModesDiffer DEF RInv, SingleWriter

\* What the mapping shows of the file of a thread that writes, and of one that does not.
LEMMA CommittedFacts ==
    ASSUME RInv
    PROVE  /\ \A c \in Conn : pc[c] = "write" =>
                /\ Writers(FileOfReq(c)) = {c} /\ Committed[FileOfReq(c)] = before[c]
                /\ FileOfReq(c) \in File
           /\ \A f \in File : Writers(f) = {} => Committed[f] = files[f]
<1>1. ASSUME NEW c \in Conn, pc[c] = "write"
      PROVE  /\ Writers(FileOfReq(c)) = {c} /\ FileOfReq(c) \in File
  <2>1. req[c] \in Request /\ req[c].op \in Exclusive /\ Using(c)
    BY <1>1 DEF RInv, Answered, Exclusive, Using
  <2>2. FileOfReq(c) \in File
    BY <2>1, RequestFacts, FileAssumption DEF FileOfReq
  <2>3. \A d \in Writers(FileOfReq(c)) : d = c
    BY <2>1, WriterFacts DEF Writers, Using
  <2> QED
    BY <1>1, <2>2, <2>3 DEF Writers
<1>2. ASSUME NEW c \in Conn, pc[c] = "write"
      PROVE  Committed[FileOfReq(c)] = before[c]
  BY <1>1, <1>2 DEF Committed, Shown
<1> QED
  BY <1>1, <1>2 DEF Committed, Shown

\* A step of one thread that neither begins nor ends a write, and touches at most the
\* file of that thread, whom no writer shares it with.
LEMMA CommittedStep ==
    ASSUME RInv, NEW c \in Conn, pc[c] # "write", pc'[c] # "write",
           \A d \in Conn \ {c} : pc'[d] = pc[d] /\ req'[d] = req[d] /\ before'[d] = before[d],
           NEW f \in File, NEW v, files' = [files EXCEPT ![f] = v], Writers(f) = {}
    PROVE  Committed' = [Committed EXCEPT ![f] = v]
<1>1. \A g \in File : Writers(g)' = Writers(g)
  BY DEF Writers, FileOfReq
<1>2. \A g \in File : g # f => files'[g] = files[g]
  BY DEF RInv, Inv, TypeOK
<1>3. files'[f] = v
  BY DEF RInv, Inv, TypeOK
<1>4. \A g \in File : \A d \in Writers(g) : before'[d] = before[d]
  BY DEF Writers
<1>5. ASSUME NEW g \in File
      PROVE  Shown(g)' = IF g = f THEN v ELSE Shown(g)
  <2>1. CASE Writers(g) = {}
    BY <1>1, <1>2, <1>3, <2>1 DEF Shown
  <2>2. CASE Writers(g) # {}
    BY <1>1, <1>4, <2>2 DEF Shown
  <2> QED
    BY <2>1, <2>2
<1> QED
  BY <1>5 DEF Committed

\* The same when no file changes.
LEMMA CommittedStays ==
    ASSUME RInv, NEW c \in Conn, pc[c] # "write", pc'[c] # "write",
           \A d \in Conn \ {c} : pc'[d] = pc[d] /\ req'[d] = req[d] /\ before'[d] = before[d],
           files' = files
    PROVE  Committed' = Committed
<1>1. \A g \in File : Writers(g)' = Writers(g)
  BY DEF Writers, FileOfReq
<1>2. \A g \in File : \A d \in Writers(g) : before'[d] = before[d]
  BY DEF Writers
<1>3. \A g \in File : Shown(g)' = Shown(g)
  BY <1>1, <1>2 DEF Shown
<1> QED
  BY <1>3 DEF Committed

-----------------------------------------------------------------------------
(* The invariant                                                           *)

\* A step of one thread whose file, if it changes, no writer shares.
LEMMA OneStep ==
    ASSUME RInv, Inv', SingleWriter', NEW c \in Conn,
           \A d \in Conn \ {c} : /\ pc'[d] = pc[d] /\ req'[d] = req[d]
                                 /\ reply'[d] = reply[d] /\ before'[d] = before[d],
           \/ files' = files
           \/ /\ Using(c) /\ req[c].op \in Exclusive
              /\ \A f \in File : f # FileOfReq(c) => files'[f] = files[f],
           Answered(c)'
    PROVE  RInv'
<1>1. ASSUME NEW d \in Conn \ {c} PROVE Answered(d)'
  <2>1. pc[d] = "write" => req[d] \in Request /\ FileOfReq(d) \in File
    BY RequestFacts, FileAssumption DEF RInv, Answered, FileOfReq
  <2>2. pc[d] = "write" => files'[FileOfReq(d)] = files[FileOfReq(d)]
    BY <2>1, WriterFacts DEF Using
  <2>3. Answered(d)
    BY DEF RInv
  <2> QED
    BY <2>2, <2>3 DEF Answered, FileOfReq
<1> QED
  BY <1>1 DEF RInv

\* An answer.
LEMMA AnswerIs ==
    ASSUME RInv, NEW c \in Conn, NEW code \in Code, NEW data \in Content \cup {Null},
           Answer(c, code, data)
    PROVE  /\ reply'[c] = [code |-> code, data |-> data]
           /\ reply'[c] \in [code : Code, data : Content \cup {Null}]
           /\ \A d \in Conn \ {c} : reply'[d] = reply[d]
BY DEF Answer, RInv, Inv, TypeOK

-----------------------------------------------------------------------------
(* The steps                                                               *)

Maps == RInv' /\ (Promise!Next \/ UNCHANGED Promise!vars)

\* Steps among the locks: nothing that the mapping shows.
LEMMA LocksMap ==
    ASSUME RInv, Inv', SingleWriter', NEW c \in Conn,
           EnterTable(c) \/ Search(c) \/ Insert(c) \/ Wait(c)
    PROVE  Maps
<1>1. /\ UNCHANGED <<files, req, reply, before>>
      /\ pc[c] \in Undecided \ {"write", "unlink"} \/ pc[c] = "unlock"
      /\ \A d \in Conn \ {c} : pc'[d] = pc[d]
      /\ \/ pc[c] # "unlock" /\ pc'[c] \in {"search", "insert", "wait", "locked"}
         \/ pc[c] = "unlock" /\ pc'[c] = AfterUnlock(c)
  BY DEF EnterTable, Search, Insert, Wait, ReadLock, WriteLock, Unlock, Goto, Undecided,
         RInv, Inv, TypeOK
<1>2. Answered(c)'
  BY <1>1 DEF RInv, Answered, AfterUnlock, Undecided, Decided
<1>3. pc[c] # "write" /\ pc'[c] # "write"
  BY <1>1 DEF AfterUnlock, Undecided
<1>4. RInv'
  BY <1>1, <1>2, OneStep
<1>5. Committed' = Committed
  BY <1>1, <1>3, CommittedStays
<1> QED
  BY <1>1, <1>4, <1>5 DEF Maps, Promise!vars

\* A request arrives.
LEMMA AcceptMaps ==
    ASSUME RInv, Inv', SingleWriter', NEW c \in Conn, Accept(c)
    PROVE  Maps
<1>1. PICK r \in Request : req' = [req EXCEPT ![c] = r]
  BY DEF Accept
<1>2. /\ UNCHANGED <<files, reply, before>> /\ pc[c] = "idle" /\ pc'[c] = "received"
      /\ req'[c] = r /\ \A d \in Conn \ {c} : pc'[d] = pc[d] /\ req'[d] = req[d]
  BY <1>1 DEF Accept, Goto, RInv, Inv, TypeOK
<1>3. Answered(c)'
  BY <1>2 DEF RInv, Answered, Undecided, Decided
<1>4. RInv'
  BY <1>2, <1>3, OneStep
<1>5. Committed' = Committed
  BY <1>2, CommittedStays
<1>6. r \in [op : {"READ_FILE", "WRITE_FILE", "GET_FILE_INFO", "CREATE_FILE",
                   "DELETE_FILE", "COPY_FILE", "UNKNOWN"}, path : Path, data : Content]
  BY DEF Request, Content, Shared
<1>7. Promise!Invoke(c)
  BY <1>1, <1>2, <1>5, <1>6 DEF Promise!Invoke, Promise!Content, Content, RInv, Answered
<1> QED
  BY <1>4, <1>7 DEF Maps, Promise!Next

\* The answer goes out.
LEMMA ReplyMaps ==
    ASSUME RInv, Inv', SingleWriter', NEW c \in Conn, Reply(c)
    PROVE  Maps
<1>1. /\ UNCHANGED <<files, before>> /\ pc[c] = "reply" /\ pc'[c] = "idle"
      /\ req' = [req EXCEPT ![c] = Null] /\ reply' = [reply EXCEPT ![c] = Null]
      /\ req'[c] = Null /\ reply'[c] = Null
      /\ \A d \in Conn \ {c} : pc'[d] = pc[d] /\ req'[d] = req[d] /\ reply'[d] = reply[d]
  BY DEF Reply, Goto, RInv, Inv, TypeOK
<1>2. Answered(c)'
  BY <1>1 DEF RInv, Answered, Undecided, Decided
<1>3. RInv'
  BY <1>1, <1>2, OneStep
<1>4. Committed' = Committed
  BY <1>1, CommittedStays
<1>5. reply[c] # Null
  BY <1>1, NullAssumption DEF RInv, Answered, Decided
<1>6. Promise!Return(c)
  BY <1>1, <1>4, <1>5 DEF Promise!Return
<1> QED
  BY <1>3, <1>6 DEF Maps, Promise!Next

\* A request is refused, and nothing has been done.
LEMMA RefusalMaps ==
    ASSUME RInv, Inv', SingleWriter', NEW c \in Conn,
           NEW code \in {"FILE_NOT_FOUND", "FILE_IN_USE", "PERMISSION_DENIED",
                         "INVALID_OPERATION"},
           pc[c] \in Undecided \ {"write"}, Answer(c, code, Null),
           Goto(c, "reply") \/ Goto(c, "unlock"),
           UNCHANGED <<files, req, before>>
    PROVE  Maps
<1>1. code \in Code
  BY DEF Code
<1>2. /\ pc'[c] \in {"reply", "unlock"}
      /\ \A d \in Conn \ {c} : pc'[d] = pc[d] /\ reply'[d] = reply[d]
      /\ reply'[c] \in [code : Code, data : Content \cup {Null}]
  BY <1>1, AnswerIs DEF Goto, RInv, Inv, TypeOK
<1>3. Answered(c)'
  BY <1>2 DEF RInv, Answered, Undecided, Decided
<1>4. RInv'
  BY <1>2, <1>3, OneStep
<1>5. Committed' = Committed
  BY <1>2, CommittedStays
<1>6. req[c] # Null /\ reply[c] = Null
  BY NullAssumption DEF RInv, Answered, Undecided
<1>7. Promise!Refuse(c)
  BY <1>5, <1>6 DEF Promise!Refuse, Promise!Answered, Answer
<1> QED
  BY <1>4, <1>7 DEF Maps, Promise!Next

\* A copy is sent on.
LEMMA CopyMaps ==
    ASSUME RInv, Inv', SingleWriter', NEW c \in Conn, CopyRpc(c)
    PROVE  Maps
<1>1. /\ UNCHANGED <<files, req, before>> /\ pc[c] = "copy_rpc" /\ pc'[c] = "reply"
      /\ \A d \in Conn \ {c} : pc'[d] = pc[d]
      /\ reply' = reply \/ Answer(c, "NETWORK_ERROR", Null)
  BY DEF CopyRpc, Goto, RInv, Inv, TypeOK
<1>2. /\ \A d \in Conn \ {c} : reply'[d] = reply[d]
      /\ reply'[c] \in [code : Code, data : Content \cup {Null}]
  BY <1>1, AnswerIs DEF Code, RInv, Answered, Decided
<1>3. Answered(c)'
  BY <1>1, <1>2 DEF RInv, Answered, Undecided, Decided
<1>4. RInv'
  BY <1>1, <1>2, <1>3, OneStep
<1>5. Committed' = Committed
  BY <1>1, CommittedStays
<1>6. /\ req[c] # Null /\ req[c].op = "COPY_FILE" /\ reply[c] # Null
      /\ reply[c].code = "SUCCESS"
  BY <1>1, NullAssumption DEF RInv, Answered, Decided
<1>7. Promise!Forward(c) \/ UNCHANGED Promise!vars
  BY <1>1, <1>5, <1>6 DEF Promise!Forward, Promise!vars, Answer
<1> QED
  BY <1>4, <1>7 DEF Maps, Promise!Next

\* A thread that reads has no writer beside it.
LEMMA NoWriters ==
    ASSUME RInv, NEW c \in Conn, Using(c), pc[c] # "write"
    PROVE  /\ FileOfReq(c) \in File
           /\ Writers(FileOfReq(c)) = {}
           /\ Committed[FileOfReq(c)] = files[FileOfReq(c)]
           /\ files[FileOfReq(c)] \in Content
<1>1. req[c] \in Request /\ FileOfReq(c) \in File
  BY RequestFacts, FileAssumption DEF RInv, Answered, Using, FileOfReq
<1>2. ASSUME NEW d \in Writers(FileOfReq(c)) PROVE FALSE
  <2>1. d \in Conn /\ d # c /\ Using(d) /\ req[d].op \in Exclusive
    BY <1>2 DEF Writers, Using, RInv, Answered, Exclusive
  <2>2. FileOfReq(d) = FileOfReq(c)
    BY <1>2 DEF Writers
  <2> QED
    BY <2>1, <2>2, WriterFacts
<1> QED
  BY <1>1, <1>2, CommittedFacts DEF RInv, Inv, TypeOK

\* ss_read and ss_get_info tell what the mapping shows.
LEMMA TellingMaps ==
    ASSUME RInv, Inv', SingleWriter', NEW c \in Conn, ss_read(c) \/ ss_get_info(c)
    PROVE  Maps
<1> DEFINE f == FileOfReq(c)
<1>1. /\ pc[c] = "locked" /\ Using(c) /\ UNCHANGED <<files, req, before>>
      /\ req[c].op \in {"READ_FILE", "COPY_FILE", "GET_FILE_INFO"}
  BY DEF ss_read, ss_get_info, Holding, Using, Fails
<1>2. CASE Fails(c, "FILE_NOT_FOUND")
  BY <1>1, <1>2, RefusalMaps DEF Fails, Undecided
<1>3. ASSUME NEW data \in Content, Succeeds(c, data), files[f] # Absent,
             \/ req[c].op \in {"READ_FILE", "COPY_FILE"} /\ data = Text(files[f])
             \/ req[c].op = "GET_FILE_INFO" /\ data = files[f]
      PROVE  Maps
  <2>1. /\ pc'[c] = "unlock" /\ \A d \in Conn \ {c} : pc'[d] = pc[d] /\ reply'[d] = reply[d]
        /\ reply'[c] = [code |-> "SUCCESS", data |-> data]
        /\ reply'[c] \in [code : Code, data : Content \cup {Null}]
    BY <1>3, AnswerIs DEF Succeeds, Goto, Code, RInv, Inv, TypeOK
  <2>2. Answered(c)'
    BY <1>1, <2>1 DEF RInv, Answered, Undecided, Decided
  <2>3. RInv'
    BY <1>1, <2>1, <2>2, OneStep
  <2>4. Committed' = Committed
    BY <1>1, <2>1, CommittedStays
  <2>5. req[c] # Null /\ reply[c] = Null
    BY <1>1, NullAssumption DEF RInv, Answered, Undecided
  <2>6. Committed[f] = files[f]
    BY <1>1, NoWriters
  <2>7. Promise!Tell(c)
    BY <1>1, <1>3, <2>4, <2>6
       DEF Promise!Tell, Promise!Answered, Promise!Text, Text, FileOfReq, Succeeds, Answer
  <2> QED
    BY <2>3, <2>5, <2>7 DEF Maps, Promise!Next, Promise!Do
<1>4. files[f] \in Content /\ Text(files[f]) \in Content
  BY <1>1, NoWriters DEF Text, Content
<1> QED
  BY <1>2, <1>3, <1>4 DEF ss_read, ss_get_info, Holding

\* A request that changes its file in one step.
LEMMA ChangeMaps ==
    ASSUME RInv, Inv', SingleWriter', NEW c \in Conn, Using(c), pc[c] # "write",
           req[c].op \in Exclusive, NEW new \in Content,
           files' = [files EXCEPT ![FileOfReq(c)] = new],
           Promise!Change(req[c], files[FileOfReq(c)], new),
           Succeeds(c, Null), UNCHANGED <<req, before>>
    PROVE  Maps
<1> DEFINE f == FileOfReq(c)
<1>1. /\ f \in File /\ Writers(f) = {} /\ Committed[f] = files[f]
  BY NoWriters
<1>2. /\ pc'[c] = "unlock" /\ \A d \in Conn \ {c} : pc'[d] = pc[d] /\ reply'[d] = reply[d]
      /\ reply'[c] \in [code : Code, data : Content \cup {Null}]
  BY AnswerIs DEF Succeeds, Goto, Code, RInv, Inv, TypeOK
<1>3. Answered(c)'
  BY <1>2 DEF RInv, Answered, Undecided, Decided, Using
<1>4. \A g \in File : g # f => files'[g] = files[g]
  BY DEF RInv, Inv, TypeOK
<1>5. RInv'
  BY <1>2, <1>3, <1>4, OneStep
<1>6. Committed' = [Committed EXCEPT ![f] = new]
  BY <1>1, <1>2, CommittedStep
<1>7. req[c] # Null /\ reply[c] = Null
  BY NullAssumption DEF RInv, Answered, Undecided, Using
<1>8. Promise!Apply(c)
  BY <1>1, <1>6 DEF Promise!Apply, Promise!Answered, Promise!Content, Content, FileOfReq,
                    Succeeds, Answer
<1> QED
  BY <1>5, <1>7, <1>8 DEF Maps, Promise!Next, Promise!Do

\* ss_create and the last step of ss_delete change the file at once.
LEMMA CreateMaps ==
    ASSUME RInv, Inv', SingleWriter', NEW c \in Conn, ss_create(c)
    PROVE  Maps
<1> DEFINE f == FileOfReq(c)
<1>1. /\ pc[c] = "locked" /\ Using(c) /\ req[c].op = "CREATE_FILE" /\ req[c].op \in Exclusive
      /\ UNCHANGED <<req, before>>
  BY DEF ss_create, Holding, Using, Fails, Exclusive
<1>2. CASE \E code \in {"PERMISSION_DENIED", "INVALID_OPERATION"} : Fails(c, code)
  BY <1>1, <1>2, RefusalMaps DEF Fails, Undecided
<1>3. ASSUME NEW new \in {Empty, Dir}, req[c].data = new, Succeeds(c, Null),
             files' = [files EXCEPT ![f] = new],
             new = Empty => files[f] # Dir, new = Dir => files[f] = Absent
      PROVE  Maps
  <2>1. Promise!Change(req[c], files[f], new)
    BY <1>1, <1>3 DEF Promise!Change
  <2>2. new \in Content
    BY DEF Content
  <2> QED
    BY <1>1, <1>3, <2>1, <2>2, ChangeMaps
<1> QED
  BY <1>2, <1>3, ContentAssumption DEF ss_create, OpenForWriting

\* ss_delete looks first and removes then.
LEMMA DeleteMaps ==
    ASSUME RInv, Inv', SingleWriter', NEW c \in Conn, DeleteStat(c) \/ DeleteUnlink(c)
    PROVE  Maps
<1> DEFINE f == FileOfReq(c)
<1>1. /\ pc[c] \in {"locked", "unlink"} /\ Using(c)
      /\ req[c].op = "DELETE_FILE" /\ req[c].op \in Exclusive
      /\ UNCHANGED <<req, before>>
  BY DEF DeleteStat, DeleteUnlink, Holding, Using, Fails, Exclusive, RInv, Answered
<1>2. CASE \E code \in {"FILE_NOT_FOUND", "PERMISSION_DENIED", "INVALID_OPERATION"} :
               Fails(c, code)
  BY <1>1, <1>2, RefusalMaps DEF Fails, Undecided
<1>3. CASE Goto(c, "unlink") /\ UNCHANGED <<files, reply>>
  <2>1. pc'[c] = "unlink" /\ \A d \in Conn \ {c} : pc'[d] = pc[d]
    BY <1>3 DEF Goto, RInv, Inv, TypeOK
  <2>2. Answered(c)'
    BY <1>1, <1>3, <2>1 DEF RInv, Answered, Undecided, Decided
  <2>3. RInv'
    BY <1>1, <1>3, <2>1, <2>2, OneStep
  <2>4. Committed' = Committed
    BY <1>1, <1>3, <2>1, CommittedStays
  <2> QED
    BY <1>1, <1>3, <2>3, <2>4 DEF Maps, Promise!vars
<1>4. CASE files[f] # Absent /\ Succeeds(c, Null) /\ files' = [files EXCEPT ![f] = Absent]
  <2>1. Promise!Change(req[c], files[f], Absent)
    BY <1>1, <1>4 DEF Promise!Change
  <2>2. Absent \in Content
    BY DEF Content
  <2> QED
    BY <1>1, <1>4, <2>1, <2>2, ChangeMaps
<1> QED
  BY <1>2, <1>3, <1>4 DEF DeleteStat, DeleteUnlink

\* ss_write empties the file, which the mapping does not show.
LEMMA WriteOpenMaps ==
    ASSUME RInv, Inv', SingleWriter', NEW c \in Conn, WriteOpen(c)
    PROVE  Maps
<1>1. pc[c] = "locked" /\ Using(c) /\ req[c].op = "WRITE_FILE" /\ req[c].op \in Exclusive
  BY DEF WriteOpen, Holding, Using, Exclusive
<1>2. PICK f \in File : /\ f = FileOfReq(c) /\ Writers(f) = {} /\ Committed[f] = files[f]
                        /\ files[f] \in Content
  BY <1>1, NoWriters
<1>3. CASE Fails(c, "PERMISSION_DENIED")
  BY <1>1, <1>3, RefusalMaps DEF Fails, Undecided
<1>4. CASE /\ files[f] # Dir /\ files' = [files EXCEPT ![f] = Empty]
           /\ before' = [before EXCEPT ![c] = files[f]]
           /\ Goto(c, "write") /\ UNCHANGED <<req, reply>>
  <2>1. /\ pc'[c] = "write" /\ before'[c] = files[f] /\ files'[f] = Empty
        /\ \A d \in Conn \ {c} : pc'[d] = pc[d] /\ before'[d] = before[d]
        /\ \A g \in File : g # f => files'[g] = files[g]
    BY <1>2, <1>4 DEF Goto, RInv, Inv, TypeOK
  <2>2. Answered(c)'
    BY <1>1, <1>2, <1>4, <2>1 DEF RInv, Answered, Undecided, Decided, FileOfReq
  <2>3. RInv'
    BY <1>1, <1>2, <1>4, <2>1, <2>2, OneStep
  <2>4. \A g \in File : Shown(g)' = Shown(g)
    <3>1. Writers(f)' = {c} /\ \A g \in File : g # f => Writers(g)' = Writers(g)
      BY <1>1, <1>2, <1>4, <2>1 DEF Writers, FileOfReq
    <3>2. Shown(f)' = files[f] /\ Shown(f) = files[f]
      BY <1>2, <2>1, <3>1 DEF Shown
    <3>3. ASSUME NEW g \in File, g # f PROVE Shown(g)' = Shown(g)
      <4>1. \A d \in Writers(g) : before'[d] = before[d]
        BY <1>1, <2>1 DEF Writers
      <4> QED
        BY <2>1, <3>1, <3>3, <4>1 DEF Shown
    <3> QED
      BY <3>2, <3>3
  <2>5. Committed' = Committed
    BY <2>4 DEF Committed
  <2> QED
    BY <1>4, <2>3, <2>5 DEF Maps, Promise!vars
<1> QED
  BY <1>2, <1>3, <1>4 DEF WriteOpen, OpenForWriting, locks

\* ss_write stores: this is the moment of the write.
LEMMA WriteDataMaps ==
    ASSUME RInv, Inv', SingleWriter', NEW c \in Conn, WriteData(c)
    PROVE  Maps
<1>1. /\ pc[c] = "write" /\ Using(c) /\ req[c].op = "WRITE_FILE" /\ req[c].op \in Exclusive
      /\ req[c] \in Request /\ reply[c] = Null /\ files[FileOfReq(c)] = Empty
      /\ before[c] # Dir
  BY DEF WriteData, Using, Exclusive, RInv, Answered, Undecided
<1>2. PICK f \in File : f = FileOfReq(c) /\ Writers(f) = {c} /\ Committed[f] = before[c]
  BY <1>1, CommittedFacts
<1>3. PICK new \in {req[c].data, Partial} :
         /\ files' = [files EXCEPT ![f] = new]
         /\ \/ new = req[c].data /\ Succeeds(c, Null)
            \/ /\ new = Partial /\ DiskMayFill
               /\ \/ Succeeds(c, Null)
                  \/ Answer(c, "ASYNC_WRITE_FAILED", Null) /\ Goto(c, "unlock")
  BY <1>1, <1>2, ContentAssumption DEF WriteData, Store
<1>4. /\ new \in Content /\ req[c].data \in Content
  BY <1>1, RequestFacts DEF Content
<1>5. PICK code \in {"SUCCESS", "ASYNC_WRITE_FAILED"} :
         /\ Answer(c, code, Null) /\ Goto(c, "unlock")
         /\ \/ new = req[c].data /\ code = "SUCCESS"
            \/ new = Partial /\ DiskMayFill
  BY <1>3 DEF Succeeds
<1>6. UNCHANGED <<locks, req>> /\ before' = [before EXCEPT ![c] = Null]
  BY DEF WriteData
<1>7. /\ pc'[c] = "unlock" /\ reply'[c] \in [code : Code, data : Content \cup {Null}]
      /\ \A d \in Conn \ {c} : /\ pc'[d] = pc[d] /\ reply'[d] = reply[d]
                               /\ before'[d] = before[d]
      /\ files'[f] = new /\ \A g \in File : g # f => files'[g] = files[g]
  BY <1>2, <1>3, <1>5, <1>6, AnswerIs DEF Goto, Code, RInv, Inv, TypeOK
<1>8. Answered(c)'
  BY <1>1, <1>6, <1>7 DEF RInv, Answered, Undecided, Decided
<1>9. RInv'
  BY <1>1, <1>2, <1>6, <1>7, <1>8, OneStep
<1>10. \A g \in File : Shown(g)' = IF g = f THEN new ELSE Shown(g)
  <2>1. Writers(f)' = {} /\ \A g \in File : g # f => Writers(g)' = Writers(g)
    BY <1>2, <1>6, <1>7 DEF Writers, FileOfReq
  <2>2. ASSUME NEW g \in File, g # f PROVE Shown(g)' = Shown(g)
    <3>1. \A d \in Writers(g) : before'[d] = before[d]
      BY <1>2, <1>7, <2>2 DEF Writers
    <3> QED
      BY <1>7, <2>1, <2>2, <3>1 DEF Shown
  <2> QED
    BY <1>7, <2>1, <2>2 DEF Shown
<1>11. Committed' = [Committed EXCEPT ![f] = new]
  BY <1>10 DEF Committed
<1>12. req[c] # Null
  BY <1>1, NullAssumption
<1>13. CASE new = req[c].data /\ code = "SUCCESS"
  <2>1. Promise!Change(req[c], Committed[f], new)
    BY <1>1, <1>2, <1>13 DEF Promise!Change
  <2>2. Promise!Apply(c)
    BY <1>2, <1>4, <1>5, <1>6, <1>11, <1>13, <2>1
       DEF Promise!Apply, Promise!Answered, Promise!Content, Content, FileOfReq, Answer
  <2> QED
    BY <1>1, <1>9, <1>12, <2>2 DEF Maps, Promise!Next, Promise!Do
<1>14. CASE new = Partial /\ DiskMayFill
  <2>1. Promise!Spoil(c)
    BY <1>1, <1>2, <1>5, <1>6, <1>11, <1>14
       DEF Promise!Spoil, Promise!Answered, FileOfReq, Answer
  <2> QED
    BY <1>1, <1>9, <1>12, <2>1 DEF Maps, Promise!Next, Promise!Do
<1> QED
  BY <1>5, <1>13, <1>14

\* The process dies: what a write leaves is what FileStore lets it leave.
LEMMA CrashMaps ==
    ASSUME RInv, Inv', SingleWriter', Crash
    PROVE  Maps
<1>1. \A c \in Conn : Answered(c)'
  BY DEF Crash, Answered, Undecided, Decided
<1>2. \A f \in File : Writers(f)' = {}
  BY DEF Crash, Writers
<1>3. Committed' = files'
  <2>1. \A f \in File : Shown(f)' = files'[f]
    BY <1>2 DEF Shown
  <2>2. files' = [f \in File |-> files'[f]]
    BY DEF Crash
  <2> QED
    BY <2>1, <2>2 DEF Committed
<1>4. ASSUME NEW f \in File
      PROVE  \/ files'[f] = Committed[f]
             \/ \E r \in Promise!Unfinished(f) : files'[f] \in {Empty, Partial, r.data}
  <2>1. files'[f] \in Left(f)
    BY DEF Crash
  <2>2. CASE Writers(f) = {}
    BY <2>1, <2>2, CommittedFacts DEF Left
  <2>3. CASE Writers(f) # {}
    <3>1. PICK c \in Conn : pc[c] = "write" /\ f = FileOfReq(c) /\ Writers(f) = {c}
      BY <2>3, CommittedFacts DEF Writers
    <3>2. files'[f] \in {Empty, Partial, req[c].data}
      BY <2>1, <3>1 DEF Left, RInv, Answered
    <3>3. /\ req[c] \in Request /\ req[c] # Null /\ reply[c] = Null
          /\ req[c].op = "WRITE_FILE" /\ FileOf[req[c].path] = f
      BY <3>1, NullAssumption DEF RInv, Answered, Undecided, FileOfReq
    <3>4. req[c] \in Promise!Unfinished(f)
      BY <3>3 DEF Promise!Unfinished
    <3> QED
      BY <3>2, <3>4
  <2> QED
    BY <2>2, <2>3
<1>5. Promise!Crash
  BY <1>3, <1>4 DEF Promise!Crash, Crash, Promise!Content, Content
<1> QED
  BY <1>1, <1>5 DEF Maps, Promise!Next, RInv

-----------------------------------------------------------------------------
\* What is not an operation, and a request that gets no lock.
LEMMA TurnedAwayMaps ==
    ASSUME RInv, Inv', SingleWriter', NEW c \in Conn,
           UnknownOperation(c) \/ InsertFails(c) \/ LockFails(c)
    PROVE  Maps
BY RefusalMaps DEF UnknownOperation, InsertFails, LockFails, Undecided

\* A step that changes nothing.
LEMMA StutterMaps ==
    ASSUME RInv, Inv', SingleWriter', UNCHANGED vars
    PROVE  Maps
<1>1. \A c \in Conn : Answered(c)'
  BY DEF RInv, Answered, FileOfReq, vars, locks
<1>2. \A f \in File : Shown(f)' = Shown(f)
  BY DEF Shown, Writers, FileOfReq, vars, locks
<1>3. Committed' = Committed
  BY <1>2 DEF Committed
<1> QED
  BY <1>1, <1>3 DEF Maps, RInv, Promise!vars, vars, locks

\* The server starts where FileStore starts.
LEMMA StartMaps ==
    ASSUME OneName
    PROVE  Init => RInv /\ Promise!Init
<1> SUFFICES ASSUME Init PROVE RInv /\ Promise!Init
  OBVIOUS
<1>1. Inv /\ SingleWriter
  BY InvInit, LocksExclude
<1>2. \A c \in Conn : Answered(c)
  BY DEF Init, Answered, Undecided, Decided
<1>3. \A f \in File : Shown(f) = files[f]
  BY DEF Init, Shown, Writers
<1>4. Committed \in [File -> Content \ {Partial}]
  BY <1>3, ContentAssumption DEF Committed, Init, Content
<1> QED
  BY <1>1, <1>2, <1>4 DEF RInv, Promise!Init, Promise!Content, Content, Init

\* Every step is one of FileStore's, or shows nothing.
LEMMA StepMaps ==
    ASSUME OneName
    PROVE  RInv /\ [Next]_vars => RInv' /\ [Promise!Next]_(Promise!vars)
<1> SUFFICES ASSUME RInv, [Next]_vars PROVE Maps
  BY DEF Maps
<1>1. Inv'
  BY InvStep DEF RInv
<1>2. SingleWriter'
  BY <1>1, LocksExclude, PTL
<1>3. ASSUME NEW c \in Conn, Accept(c) \/ Run(c) \/ Wait(c) \/ LockFails(c) \/ CopyRpc(c)
      PROVE  Maps
  <2>1. CASE EnterTable(c) \/ Search(c) \/ Insert(c) \/ Wait(c)
    BY <1>1, <1>2, <2>1, LocksMap
  <2>2. CASE Accept(c)
    BY <1>1, <1>2, <2>2, AcceptMaps
  <2>3. CASE Reply(c)
    BY <1>1, <1>2, <2>3, ReplyMaps
  <2>4. CASE UnknownOperation(c) \/ InsertFails(c) \/ LockFails(c)
    BY <1>1, <1>2, <2>4, TurnedAwayMaps
  <2>5. CASE CopyRpc(c)
    BY <1>1, <1>2, <2>5, CopyMaps
  <2>6. CASE Operate(c)
    BY <1>1, <1>2, <2>6, TellingMaps, CreateMaps, DeleteMaps, WriteOpenMaps, WriteDataMaps
       DEF Operate
  <2> QED
    BY <1>3, <2>1, <2>2, <2>3, <2>4, <2>5, <2>6 DEF Run
<1>4. CASE Crash
  BY <1>1, <1>2, <1>4, CrashMaps
<1>5. CASE UNCHANGED vars
  BY <1>1, <1>2, <1>5, StutterMaps
<1> QED
  BY <1>3, <1>4, <1>5 DEF Next

\* When no two paths name one file, every request takes effect at one moment or not at
\* all, whatever interleaves with it, and a crash leaves a part only of what was being
\* written (ss_file_operations.c:206-223, storage_server.c:79-108, :141-180).
THEOREM Implements == ASSUME OneName PROVE Spec => IsFileStore
<1>1. Init => RInv /\ Promise!Init
  BY StartMaps
<1>2. RInv /\ [Next]_vars => RInv' /\ [Promise!Next]_(Promise!vars)
  BY StepMaps
<1> QED
  BY <1>1, <1>2, PTL DEF Spec, IsFileStore, Promise!Spec

=============================================================================

-------------------------- MODULE NamingServerProofs -------------------------
(***************************************************************************)
(* Theorems about the naming server, for every number of connections,      *)
(* servers, paths and cache nodes, every hash and every limit.             *)
(*                                                                         *)
(* One invariant carries the theorems about any number of connections.     *)
(* What it adds to the properties: each position of a thread comes with    *)
(* the request and the pointers its handler has there; a thread inside one *)
(* of the two long sections owns ss_list_mutex; the entries below          *)
(* num_registered_ss are filled in, and the one at num_registered_ss only  *)
(* while its registration is going on.                                     *)
(*                                                                         *)
(* The agreement of the lists and the cache with the trie, and of the     *)
(* answers with both, is that of NamingHistory, whose variables say which  *)
(* paths two requests got between: the later sections prove it for any     *)
(* overlap of requests, any hash and any eviction, from one invariant      *)
(* each.                                                                   *)
(***************************************************************************)
EXTENDS NamingHistory, LRUListProofs

AtRegister == {"REGISTER_SS", "register_paths"}

AtCopy == {"COPY_FILE", "copy_dest", "copy_pick", "copy_rpc", "copy_update"}

AtPath == AtCopy \cup {"CREATE_FILE", "create_pick", "create_rpc", "create_update",
                       "DELETE_FILE", "delete_rpc", "delete_trie", "delete_cache",
                       "LOOKUP", "lookup_trie", "lookup_put", "lookup_answer"}

AtServer == {"create_rpc", "create_update", "delete_rpc", "delete_trie", "delete_cache",
             "copy_dest", "copy_pick", "copy_rpc", "copy_update", "lookup_put"}

Holding == {"register_paths", "delete_cache"}

ThreadFits(c) ==
    /\ pc[c] \in AtRegister => req[c].server \in Server
    /\ pc[c] \in AtPath => req[c].path \in Path
    /\ pc[c] \in AtCopy => req[c].path2 \in Path
    /\ pc[c] \in AtServer => local[c].ss # Null
    /\ pc[c] \in {"copy_rpc", "copy_update"} => local[c].dest # Null
    /\ pc[c] = "lookup_answer" => local[c].node # Null \/ local[c].ss # Null

ThreadsFit == \A c \in Conn : ThreadFits(c)

Owner == \A c \in Conn : pc[c] \in Holding => ss_list_mutex = c

Filled ==
    /\ \A i \in Slot : i < num_registered_ss => registered_ss[i].server # Null
    /\ \A i \in Slot : registered_ss[i].server # Null =>
           \/ i < num_registered_ss
           \/ i = num_registered_ss /\ \E c \in Conn : pc[c] = "register_paths"
    /\ \A c \in Conn : pc[c] = "register_paths" =>
           num_registered_ss \in Slot /\ registered_ss[num_registered_ss].server # Null

Inv == TypeOK /\ ThreadsFit /\ Owner /\ Filled /\ PointersFilled /\ RoundRobinInRange

\* A step of the thread of c.
Step(c) == Accept(c) \/ NoThread(c) \/ Run(c) \/ Locked(c) \/ Call(c)

-----------------------------------------------------------------------------
(* Threads *)

\* What a request carries.
LEMMA RequestFacts ==
    ASSUME NEW r \in Request
    PROVE  /\ r.op \in Location
           /\ r.op = "REGISTER_SS" => r.server \in Server
           /\ r.op \in PathOperation \cup {"COPY_FILE"} => r.path \in Path
           /\ r.op = "COPY_FILE" => r.path2 \in Path
BY DEF Request, PathOperation, Location

\* A handler that goes on.
LEMMA GotoFacts ==
    ASSUME ThreadsOK, NEW c \in Conn, NEW where \in Location, NEW ptrs \in Pointers,
           Goto(c, where, ptrs)
    PROVE  /\ ThreadsOK'
           /\ pc'[c] = where /\ local'[c] = ptrs
           /\ req' = req /\ reply' = reply
           /\ \A d \in Conn \ {c} : pc'[d] = pc[d] /\ local'[d] = local[d]
BY DEF ThreadsOK, Goto

\* A handler that answers holds no pointer any more.
LEMMA AnswerFacts ==
    ASSUME ThreadsOK, NEW c \in Conn, NEW code \in Code, NEW server \in Server \cup {Null},
           NEW paths \in SUBSET Path, Answer(c, code, server, paths)
    PROVE  /\ ThreadsOK'
           /\ pc'[c] = "reply" /\ local'[c] = NoLocal
           /\ req' = req
           /\ \A d \in Conn \ {c} : pc'[d] = pc[d] /\ local'[d] = local[d]
<1>1. NoLocal \in Pointers /\ "reply" \in Location
  BY DEF NoLocal, Pointers, Location
<1>2. [code |-> code, server |-> server, paths |-> paths] \in Response
  BY DEF Response
<1> QED
  BY <1>1, <1>2 DEF ThreadsOK, Answer

\* A short answer.
LEMMA AckFacts ==
    ASSUME ThreadsOK, NEW c \in Conn, NEW code \in Code,
           Ack(c) \/ Nack(c, code)
    PROVE  /\ ThreadsOK'
           /\ pc'[c] = "reply" /\ local'[c] = NoLocal
           /\ req' = req
           /\ \A d \in Conn \ {c} : pc'[d] = pc[d] /\ local'[d] = local[d]
<1>1. "SUCCESS" \in Code
  BY RpcAssumption DEF Code
<1>2. CASE Ack(c)
  BY <1>1, <1>2, AnswerFacts DEF Ack
<1>3. CASE Nack(c, code)
  BY <1>3, AnswerFacts DEF Nack
<1> QED
  BY <1>2, <1>3

\* A forwarded call goes on with the pointers it had, or answers.
LEMMA RpcFacts ==
    ASSUME ThreadsOK, NEW c \in Conn, NEW next \in Location, Rpc(c, next)
    PROVE  /\ ThreadsOK'
           /\ req' = req
           /\ \/ pc'[c] = next /\ local'[c] = local[c]
              \/ pc'[c] = "reply" /\ local'[c] = NoLocal
           /\ \A d \in Conn \ {c} : pc'[d] = pc[d] /\ local'[d] = local[d]
<1>1. local[c] \in Pointers
  BY DEF ThreadsOK
<1>2. PICK code \in RpcCode : IF code = "SUCCESS" THEN Goto(c, next, local[c])
                                                ELSE Nack(c, code)
  BY DEF Rpc
<1>3. code \in Code
  BY DEF Code
<1> QED
  BY <1>1, <1>2, <1>3, GotoFacts, AckFacts

-----------------------------------------------------------------------------
(***************************************************************************)
(* A quiet step: one thread moves, outside the two long sections, and      *)
(* neither the array, nor the mutex, nor the trie changes.                 *)
(***************************************************************************)
Quiet(c) ==
    /\ UNCHANGED <<servers, ss_list_mutex, trie, placed>>
    /\ pc[c] \notin Holding /\ pc'[c] \notin Holding
    /\ \A d \in Conn \ {c} : pc'[d] = pc[d] /\ local'[d] = local[d] /\ req'[d] = req[d]
    /\ \A i \in {local'[c].ss, local'[c].dest} :
           i # Null => i \in Slot /\ registered_ss[i].server # Null

\* A quiet step that keeps the types and leaves its own thread fitting keeps all.
LEMMA QuietStep ==
    ASSUME Inv, NEW c \in Conn, Quiet(c), ThreadsOK', ThreadFits(c)',
           WellFormed(cache)', fault' \in BOOLEAN
    PROVE  Inv'
<1>1. TypeOK'
  BY DEF Inv, TypeOK, ServersOK, SharedOK, Quiet, servers
<1>2. ThreadsFit'
  <2> SUFFICES ASSUME NEW d \in Conn PROVE ThreadFits(d)'
    BY DEF ThreadsFit
  <2>1. CASE d = c
    BY <2>1
  <2>2. CASE d # c
    BY <2>2 DEF Inv, ThreadsFit, ThreadFits, Quiet
  <2> QED
    BY <2>1, <2>2
<1>3. Owner'
  BY DEF Inv, Owner, Quiet
<1>4. Filled'
  <2>1. \A d \in Conn : pc'[d] = "register_paths" <=> pc[d] = "register_paths"
    BY DEF Quiet, Holding
  <2> QED
    BY <2>1 DEF Inv, Filled, Quiet, servers
<1>5. PointersFilled'
  <2>1. \A d \in Conn : /\ local'[d].ss # Null => registered_ss[local'[d].ss].server # Null
                        /\ local'[d].dest # Null => registered_ss[local'[d].dest].server # Null
    BY DEF Inv, PointersFilled, Quiet
  <2> QED
    BY <2>1 DEF Inv, PointersFilled, Quiet, servers
<1>6. RoundRobinInRange'
  BY DEF Inv, RoundRobinInRange, Quiet, servers
<1> QED
  BY <1>1, <1>2, <1>3, <1>4, <1>5, <1>6 DEF Inv

\* A trie entry that is there is a slot, filled in.
LEMMA TrieFacts ==
    ASSUME Inv, NEW p \in Path, trie[p] # Null
    PROVE  /\ trie[p] \in Slot
           /\ registered_ss[trie[p]].server \in Server
BY DEF Inv, TypeOK, SharedOK, ServersOK, PointersFilled

\* A pointer a thread holds is a slot, filled in.
LEMMA LocalFacts ==
    ASSUME Inv, NEW c \in Conn
    PROVE  /\ local[c] \in Pointers
           /\ \A i \in {local[c].ss, local[c].dest} :
                  i # Null => i \in Slot /\ registered_ss[i].server \in Server
<1>1. local[c] \in Pointers
  BY DEF Inv, TypeOK, ThreadsOK
<1>2. local[c].ss \in Slot \cup {Null} /\ local[c].dest \in Slot \cup {Null}
  BY <1>1 DEF Pointers
<1> QED
  BY <1>1, <1>2 DEF Inv, TypeOK, ServersOK, PointersFilled

\* No pointers at all, and one pointer.
LEMMA NoLocalFacts ==
    /\ NoLocal \in Pointers
    /\ NoLocal.ss = Null /\ NoLocal.dest = Null
    /\ \A i \in Slot : /\ [NoLocal EXCEPT !.ss = i] \in Pointers
                       /\ [NoLocal EXCEPT !.ss = i].ss = i
                       /\ [NoLocal EXCEPT !.ss = i].dest = Null
<1>1. << >> \in Seq(Path)
  OBVIOUS
<1>2. NoLocal \in Pointers /\ NoLocal.ss = Null /\ NoLocal.dest = Null
  BY <1>1 DEF NoLocal, Pointers
<1>3. ASSUME NEW i \in Slot
      PROVE  /\ [NoLocal EXCEPT !.ss = i] \in Pointers
             /\ [NoLocal EXCEPT !.ss = i].ss = i
             /\ [NoLocal EXCEPT !.ss = i].dest = Null
  BY <1>2 DEF Pointers
<1> QED
  BY <1>2, <1>3

\* Every code a handler answers with is one.
LEMMA CodeFacts ==
    {"SUCCESS", "FILE_EXISTS", "FILE_NOT_FOUND", "SS_UNAVAILABLE", "NETWORK_ERROR",
     "INVALID_OPERATION"} \subseteq Code
BY RpcAssumption DEF Code

\* A thread that answers short, in a quiet step.
LEMMA QuietAnswer ==
    ASSUME Inv, NEW c \in Conn, pc[c] \notin Holding,
           NEW code \in Code, Ack(c) \/ Nack(c, code),
           UNCHANGED <<servers, ss_list_mutex, trie, cache, fault, placed>>
    PROVE  Inv'
<1>1. /\ ThreadsOK'
      /\ pc'[c] = "reply" /\ local'[c] = NoLocal
      /\ req' = req
      /\ \A d \in Conn \ {c} : pc'[d] = pc[d] /\ local'[d] = local[d]
  BY AckFacts DEF Inv, TypeOK
<1>2. Quiet(c)
  BY <1>1, NoLocalFacts DEF Quiet, Holding
<1>3. ThreadFits(c)'
  BY <1>1 DEF ThreadFits, AtRegister, AtCopy, AtPath, AtServer
<1>4. WellFormed(cache)' /\ fault' \in BOOLEAN
  BY DEF Inv, TypeOK, SharedOK
<1> QED
  BY <1>1, <1>2, <1>3, <1>4, QuietStep

-----------------------------------------------------------------------------
(* Quiet steps, one lemma for each action.                                 *)

\* A thread that goes on, in a quiet step.
LEMMA QuietGoto ==
    ASSUME Inv, NEW c \in Conn, pc[c] \notin Holding,
           NEW where \in Location \ Holding, NEW ptrs \in Pointers, Goto(c, where, ptrs),
           UNCHANGED <<servers, ss_list_mutex, trie, fault, placed>>, WellFormed(cache)',
           \A i \in {ptrs.ss, ptrs.dest} :
               i # Null => i \in Slot /\ registered_ss[i].server # Null,
           where \notin AtRegister,
           where \in AtPath => pc[c] \in AtPath,
           where \in AtCopy => pc[c] \in AtCopy,
           where \in AtServer => ptrs.ss # Null,
           where \in {"copy_rpc", "copy_update"} => ptrs.dest # Null,
           where = "lookup_answer" => ptrs.node # Null \/ ptrs.ss # Null
    PROVE  Inv'
<1>1. /\ ThreadsOK'
      /\ pc'[c] = where /\ local'[c] = ptrs
      /\ req' = req
      /\ \A d \in Conn \ {c} : pc'[d] = pc[d] /\ local'[d] = local[d]
  BY GotoFacts DEF Inv, TypeOK
<1>2. Quiet(c)
  BY <1>1 DEF Quiet
<1>3. ThreadFits(c)'
  BY <1>1 DEF Inv, ThreadsFit, ThreadFits
<1>4. fault' \in BOOLEAN
  BY DEF Inv, TypeOK, SharedOK
<1> QED
  BY <1>1, <1>2, <1>3, <1>4, QuietStep

\* accept
LEMMA AcceptKeeps ==
    ASSUME Inv, NEW c \in Conn, Accept(c)
    PROVE  Inv'
<1>1. PICK r \in Request : req' = [req EXCEPT ![c] = r] /\ pc' = [pc EXCEPT ![c] = r.op]
  BY DEF Accept
<1>2. r.op \in {"REGISTER_SS", "LIST_PATHS", "UNKNOWN", "COPY_FILE"} \cup PathOperation
  BY DEF Request
<1>3. ThreadsOK /\ UNCHANGED <<servers, ss_list_mutex, trie, cache, fault, local, placed, reply>>
  BY DEF Inv, TypeOK, Accept
<1>4. ThreadsOK'
  BY <1>1, <1>3, RequestFacts DEF ThreadsOK
<1>5. pc'[c] = r.op /\ req'[c] = r
  BY <1>1, <1>3 DEF ThreadsOK
<1>6. \A d \in Conn \ {c} : pc'[d] = pc[d] /\ req'[d] = req[d]
  BY <1>1, <1>3 DEF ThreadsOK
<1>7. \A i \in {local[c].ss, local[c].dest} :
          i # Null => i \in Slot /\ registered_ss[i].server # Null
  BY LocalFacts DEF Inv, PointersFilled
<1>8. Quiet(c)
  BY <1>2, <1>3, <1>5, <1>6, <1>7 DEF Quiet, Accept, Holding, PathOperation
<1>9. ThreadFits(c)'
  BY <1>2, <1>5, RequestFacts
     DEF ThreadFits, AtRegister, AtCopy, AtPath, AtServer, PathOperation
<1>10. WellFormed(cache)' /\ fault' \in BOOLEAN
  BY <1>3 DEF Inv, TypeOK, SharedOK
<1> QED
  BY <1>4, <1>8, <1>9, <1>10, QuietStep

\* A connection that gets no thread
LEMMA NoThreadKeeps ==
    ASSUME Inv, NEW c \in Conn, NoThread(c)
    PROVE  Inv'
<1>1. /\ ThreadsOK
      /\ UNCHANGED <<servers, ss_list_mutex, trie, cache, fault, req, local, reply, placed>>
      /\ pc[c] = "idle"
  BY DEF Inv, TypeOK, NoThread
<1>2. ThreadsOK'
  BY <1>1 DEF ThreadsOK, NoThread, Location
<1>3. /\ pc'[c] = "unserved"
      /\ \A d \in Conn \ {c} : pc'[d] = pc[d] /\ req'[d] = req[d]
  BY <1>1 DEF ThreadsOK, NoThread
<1>4. \A i \in {local[c].ss, local[c].dest} :
          i # Null => i \in Slot /\ registered_ss[i].server # Null
  BY LocalFacts DEF Inv, PointersFilled
<1>5. Quiet(c)
  BY <1>1, <1>3, <1>4 DEF Quiet, Holding
<1>6. ThreadFits(c)'
  BY <1>3 DEF ThreadFits, AtRegister, AtCopy, AtPath, AtServer
<1>7. WellFormed(cache)' /\ fault' \in BOOLEAN
  BY <1>1 DEF Inv, TypeOK, SharedOK
<1> QED
  BY <1>2, <1>5, <1>6, <1>7, QuietStep

\* send_message and close
LEMMA ReplyKeeps ==
    ASSUME Inv, NEW c \in Conn, Reply(c)
    PROVE  Inv'
<1>1. /\ ThreadsOK
      /\ UNCHANGED <<servers, ss_list_mutex, trie, cache, fault, local, placed>>
      /\ pc[c] = "reply"
  BY DEF Inv, TypeOK, Reply
<1>2. ThreadsOK'
  BY <1>1 DEF ThreadsOK, Reply, Location
<1>3. /\ pc'[c] = "idle"
      /\ \A d \in Conn \ {c} : pc'[d] = pc[d] /\ req'[d] = req[d]
  BY <1>1 DEF ThreadsOK, Reply
<1>4. \A i \in {local[c].ss, local[c].dest} :
          i # Null => i \in Slot /\ registered_ss[i].server # Null
  BY LocalFacts DEF Inv, PointersFilled
<1>5. Quiet(c)
  BY <1>1, <1>3, <1>4 DEF Quiet, Holding
<1>6. ThreadFits(c)'
  BY <1>3 DEF ThreadFits, AtRegister, AtCopy, AtPath, AtServer
<1>7. WellFormed(cache)' /\ fault' \in BOOLEAN
  BY <1>1 DEF Inv, TypeOK, SharedOK
<1> QED
  BY <1>2, <1>5, <1>6, <1>7, QuietStep

\* A forwarded call: the thread goes on with its pointers, or answers.
LEMMA RpcKeeps ==
    ASSUME Inv, NEW c \in Conn, CreateRpc(c) \/ DeleteRpc(c) \/ CopyRpc(c)
    PROVE  Inv'
<1>1. PICK next \in {"create_update", "delete_trie", "copy_update"} :
          /\ Rpc(c, next)
          /\ \/ next = "create_update" /\ pc[c] = "create_rpc"
             \/ next = "delete_trie" /\ pc[c] = "delete_rpc"
             \/ next = "copy_update" /\ pc[c] = "copy_rpc"
  BY DEF CreateRpc, DeleteRpc, CopyRpc
<1>2. UNCHANGED <<servers, ss_list_mutex, trie, cache, fault, placed>>
  BY DEF CreateRpc, DeleteRpc, CopyRpc
<1>3. PICK code \in RpcCode : IF code = "SUCCESS" THEN Goto(c, next, local[c])
                                                ELSE Nack(c, code)
  BY <1>1 DEF Rpc
<1>4. code \in Code /\ pc[c] \notin Holding
  BY <1>1 DEF Code, Holding
<1>5. CASE code = "SUCCESS"
  <2>1. Goto(c, next, local[c])
    BY <1>3, <1>5
  <2>2. /\ next \in Location \ Holding /\ next \notin AtRegister
        /\ next \in AtPath => pc[c] \in AtPath
        /\ next \in AtCopy => pc[c] \in AtCopy
        /\ next # "lookup_answer"
    BY <1>1 DEF Location, Holding, AtRegister, AtPath, AtCopy
  <2>3. /\ next \in AtServer => local[c].ss # Null
        /\ next \in {"copy_rpc", "copy_update"} => local[c].dest # Null
    BY <1>1 DEF Inv, ThreadsFit, ThreadFits, AtServer
  <2>4. local[c] \in Pointers
    BY LocalFacts
  <2>5. \A i \in {local[c].ss, local[c].dest} :
            i # Null => i \in Slot /\ registered_ss[i].server # Null
    BY LocalFacts DEF Inv, PointersFilled
  <2>6. WellFormed(cache)'
    BY <1>2 DEF Inv, TypeOK, SharedOK
  <2> QED
    BY <1>2, <1>4, <2>1, <2>2, <2>3, <2>4, <2>5, <2>6, QuietGoto
<1>6. CASE code # "SUCCESS"
  BY <1>2, <1>3, <1>4, <1>6, QuietAnswer
<1> QED
  BY <1>5, <1>6

\* The answers that look at nothing.
LEMMA ShortAnswersKeep ==
    ASSUME Inv, NEW c \in Conn,
           UnknownOperation(c) \/ RegisterFull(c) \/ ListFails(c)
    PROVE  Inv'
<1>1. CASE UnknownOperation(c)
  BY <1>1, CodeFacts, QuietAnswer DEF UnknownOperation, Holding
<1>2. CASE RegisterFull(c)
  BY <1>2, CodeFacts, QuietAnswer DEF RegisterFull, Holding
<1>3. CASE ListFails(c)
  BY <1>3, CodeFacts, QuietAnswer DEF ListFails, Holding
<1> QED
  BY <1>1, <1>2, <1>3

\* A thread that answers, in a quiet step, whatever its answer.
LEMMA QuietReply ==
    ASSUME Inv, NEW c \in Conn, pc[c] \notin Holding,
           NEW server \in Server \cup {Null}, NEW paths \in SUBSET Path,
           Answer(c, "SUCCESS", server, paths),
           UNCHANGED <<servers, ss_list_mutex, trie, cache, fault, placed>>
    PROVE  Inv'
<1>1. /\ ThreadsOK'
      /\ pc'[c] = "reply" /\ local'[c] = NoLocal
      /\ req' = req
      /\ \A d \in Conn \ {c} : pc'[d] = pc[d] /\ local'[d] = local[d]
  BY AnswerFacts, CodeFacts DEF Inv, TypeOK
<1>2. Quiet(c)
  BY <1>1, NoLocalFacts DEF Quiet, Holding
<1>3. ThreadFits(c)'
  BY <1>1 DEF ThreadFits, AtRegister, AtCopy, AtPath, AtServer
<1>4. WellFormed(cache)' /\ fault' \in BOOLEAN
  BY DEF Inv, TypeOK, SharedOK
<1> QED
  BY <1>1, <1>2, <1>3, <1>4, QuietStep

\* LIST_PATHS
LEMMA ListPathsKeeps ==
    ASSUME Inv, NEW c \in Conn, ListPaths(c)
    PROVE  Inv'
<1>1. \A i \in Mapped : PathOrder[i] \in Path
  BY OrderAssumption DEF Mapped
<1>2. trie_collect_paths \subseteq {PathOrder[i] : i \in Mapped}
  BY Zenon DEF trie_collect_paths
<1>3. trie_collect_paths \in SUBSET Path
  BY <1>1, <1>2
<1> QED
  BY <1>3, QuietReply DEF ListPaths, Holding

\* A lookup answers with what ss_info points at.
LEMMA LookupAnswerKeeps ==
    ASSUME Inv, NEW c \in Conn, LookupAnswer(c)
    PROVE  Inv'
<1>1. pc[c] = "lookup_answer" /\ ~NodeFreed(c) /\ WellFormed(cache)
  BY DEF LookupAnswer, Inv, TypeOK, SharedOK
<1>2. Pointed(c) \in Server \cup {Null}
  <2>1. CASE local[c].node = Null
    <3>1. local[c].ss # Null
      BY <1>1, <2>1 DEF Inv, ThreadsFit, ThreadFits
    <3> QED
      BY <2>1, <3>1, LocalFacts DEF Pointed
  <2>2. CASE local[c].node # Null
    <3>1. local[c].node \in Node
      BY <2>2, LocalFacts DEF Pointers
    <3> QED
      BY <1>1, <2>2, <3>1 DEF Pointed, WellFormed, CacheType
  <2> QED
    BY <2>1, <2>2
<1> QED
  BY <1>1, <1>2, QuietReply DEF LookupAnswer, Holding

\* The operations that begin with a look at the trie.
LEMMA TrieLooksKeep ==
    ASSUME Inv, NEW c \in Conn,
           CreateCheck(c) \/ DeleteFind(c) \/ CopySource(c) \/ LookupTrie(c)
    PROVE  Inv'
<1>1. UNCHANGED <<servers, ss_list_mutex, trie, cache, fault, placed>>
  BY DEF CreateCheck, DeleteFind, CopySource, LookupTrie
<1>2. pc[c] \in {"CREATE_FILE", "DELETE_FILE", "COPY_FILE", "lookup_trie"}
  BY DEF CreateCheck, DeleteFind, CopySource, LookupTrie
<1>3. pc[c] \in AtPath /\ pc[c] \notin Holding
  BY <1>2 DEF AtPath, AtCopy, Holding
<1>4. WellFormed(cache)'
  BY <1>1 DEF Inv, TypeOK, SharedOK
<1>5. req[c].path \in Path
  BY <1>3 DEF Inv, ThreadsFit, ThreadFits
<1>6. CASE \E code \in Code : Nack(c, code)
  BY <1>1, <1>3, <1>6, QuietAnswer
<1>7. CASE CreateCheck(c) /\ Goto(c, "create_pick", NoLocal)
  <2>1. /\ "create_pick" \in Location \ Holding
        /\ "create_pick" \notin AtRegister \cup AtCopy \cup AtServer
    BY DEF Location, Holding, AtRegister, AtCopy, AtServer
  <2> QED
    BY <1>1, <1>3, <1>4, <1>7, <2>1, NoLocalFacts, QuietGoto
<1>8. ASSUME NEW where \in {"delete_rpc", "copy_dest", "lookup_put"},
             where = "copy_dest" => pc[c] = "COPY_FILE",
             trie[req[c].path] # Null,
             Goto(c, where, [NoLocal EXCEPT !.ss = trie[req[c].path]])
      PROVE  Inv'
  <2>1. /\ where \in Location \ Holding /\ where \notin AtRegister
        /\ where \in AtCopy => pc[c] \in AtCopy
        /\ where \notin {"copy_rpc", "copy_update", "lookup_answer"}
    BY <1>8 DEF Location, Holding, AtRegister, AtCopy
  <2>2. trie[req[c].path] \in Slot /\ registered_ss[trie[req[c].path]].server # Null
    BY <1>5, <1>8, TrieFacts, NullAssumption
  <2> DEFINE ptrs == [NoLocal EXCEPT !.ss = trie[req[c].path]]
  <2>3. ptrs \in Pointers /\ ptrs.ss = trie[req[c].path] /\ ptrs.dest = Null
    BY <2>2, NoLocalFacts
  <2>4. ptrs.ss # Null /\ Goto(c, where, ptrs)
    BY <1>8, <2>3
  <2> HIDE DEF ptrs
  <2>5. \A i \in {ptrs.ss, ptrs.dest} :
            i # Null => i \in Slot /\ registered_ss[i].server # Null
    BY <2>2, <2>3
  <2> QED
    BY <1>1, <1>3, <1>4, <2>1, <2>3, <2>4, <2>5, QuietGoto
<1>9. CASE CreateCheck(c)
  BY <1>6, <1>7, <1>9, CodeFacts DEF CreateCheck
<1>10. CASE DeleteFind(c)
  BY <1>6, <1>8, <1>10, CodeFacts DEF DeleteFind
<1>11. CASE CopySource(c)
  BY <1>6, <1>8, <1>11, CodeFacts DEF CopySource
<1>12. CASE LookupTrie(c)
  BY <1>6, <1>8, <1>12, CodeFacts DEF LookupTrie
<1> QED
  BY <1>9, <1>10, <1>11, <1>12

\* A copy looks for its destination.
LEMMA CopyDestKeeps ==
    ASSUME Inv, NEW c \in Conn, CopyDest(c)
    PROVE  Inv'
<1>1. UNCHANGED <<servers, ss_list_mutex, trie, cache, fault, placed>>
  BY DEF CopyDest
<1>2. pc[c] = "copy_dest"
  BY DEF CopyDest
<1>3. /\ pc[c] \in AtCopy /\ pc[c] \in AtPath /\ pc[c] \in AtServer
      /\ pc[c] \notin Holding
  BY <1>2 DEF AtPath, AtCopy, AtServer, Holding
<1>4. WellFormed(cache)'
  BY <1>1 DEF Inv, TypeOK, SharedOK
<1>5. /\ local[c] \in Pointers /\ local[c].ss # Null
      /\ req[c].path2 \in Path
  BY <1>3, LocalFacts DEF Inv, ThreadsFit, ThreadFits
<1>6. \A i \in {local[c].ss, local[c].dest} :
          i # Null => i \in Slot /\ registered_ss[i].server # Null
  BY LocalFacts DEF Inv, PointersFilled
<1>7. CASE Goto(c, "copy_pick", local[c])
  <2>1. "copy_pick" \in Location \ Holding /\ "copy_pick" \notin AtRegister
    BY DEF Location, Holding, AtRegister
  <2> QED
    BY <1>1, <1>3, <1>4, <1>5, <1>6, <1>7, <2>1, QuietGoto
<1>8. CASE /\ trie[req[c].path2] # Null
           /\ Goto(c, "copy_rpc", [local[c] EXCEPT !.dest = trie[req[c].path2],
                                                  !.exists = TRUE])
  <2>1. "copy_rpc" \in Location \ Holding /\ "copy_rpc" \notin AtRegister
    BY DEF Location, Holding, AtRegister
  <2>2. trie[req[c].path2] \in Slot /\ registered_ss[trie[req[c].path2]].server # Null
    BY <1>5, <1>8, TrieFacts, NullAssumption
  <2> DEFINE ptrs == [local[c] EXCEPT !.dest = trie[req[c].path2], !.exists = TRUE]
  <2>3. ptrs \in Pointers /\ ptrs.ss = local[c].ss /\ ptrs.dest = trie[req[c].path2]
    BY <1>5, <2>2 DEF Pointers
  <2>4. Goto(c, "copy_rpc", ptrs) /\ ptrs.ss # Null /\ ptrs.dest # Null
    BY <1>5, <1>8, <2>3
  <2> HIDE DEF ptrs
  <2>5. \A i \in {ptrs.ss, ptrs.dest} :
            i # Null => i \in Slot /\ registered_ss[i].server # Null
    BY <1>6, <2>2, <2>3
  <2> QED
    BY <1>1, <1>3, <1>4, <2>1, <2>3, <2>4, <2>5, QuietGoto
<1> QED
  BY <1>7, <1>8 DEF CopyDest

\* A lookup asks the cache first.
LEMMA LookupCacheKeeps ==
    ASSUME Inv, NEW c \in Conn, LookupCache(c)
    PROVE  Inv'
<1>1. UNCHANGED <<servers, ss_list_mutex, trie, fault, placed>> /\ pc[c] = "LOOKUP"
  BY DEF LookupCache
<1>2. pc[c] \in AtPath /\ pc[c] \notin Holding
  BY <1>1 DEF AtPath, AtCopy, Holding
<1>3. req[c].path \in Path /\ WellFormed(cache)
  BY <1>2 DEF Inv, TypeOK, SharedOK, ThreadsFit, ThreadFits
<1>4. WellFormed(cache)'
  BY <1>3, GetFacts DEF LookupCache
<1> DEFINE n == Found(cache, req[c].path)
<1>5. CASE n = Null
  <2>1. Goto(c, "lookup_trie", NoLocal)
    BY <1>5 DEF LookupCache
  <2>2. /\ "lookup_trie" \in Location \ Holding
        /\ "lookup_trie" \notin AtRegister \cup AtCopy \cup AtServer
    BY DEF Location, Holding, AtRegister, AtCopy, AtServer
  <2> QED
    BY <1>1, <1>2, <1>4, <2>1, <2>2, NoLocalFacts, QuietGoto
<1>6. CASE n # Null
  <2>1. n \in Node
    BY <1>3, <1>6, FoundFacts
  <2> DEFINE ptrs == [NoLocal EXCEPT !.node = n]
  <2>2. Goto(c, "lookup_answer", ptrs)
    BY <1>6 DEF LookupCache
  <2> HIDE DEF n
  <2>3. ptrs \in Pointers /\ ptrs.ss = Null /\ ptrs.dest = Null /\ ptrs.node = n
    BY <2>1, NoLocalFacts DEF Pointers
  <2> HIDE DEF ptrs
  <2>4. /\ "lookup_answer" \in Location \ Holding
        /\ "lookup_answer" \notin AtRegister \cup AtCopy \cup AtServer
    BY DEF Location, Holding, AtRegister, AtCopy, AtServer
  <2> QED
    BY <1>1, <1>2, <1>4, <1>6, <2>2, <2>3, <2>4, QuietGoto
<1> QED
  BY <1>5, <1>6

\* A lookup that missed puts what the trie gave into the cache.
LEMMA LookupPutKeeps ==
    ASSUME Inv, NEW c \in Conn, LookupPut(c)
    PROVE  Inv'
<1>1. UNCHANGED <<servers, ss_list_mutex, trie, fault, placed>> /\ pc[c] = "lookup_put"
  BY DEF LookupPut
<1>2. pc[c] \in AtPath /\ pc[c] \in AtServer /\ pc[c] \notin Holding
  BY <1>1 DEF AtPath, AtCopy, AtServer, Holding
<1>3. req[c].path \in Path /\ local[c].ss # Null /\ WellFormed(cache)
  BY <1>2 DEF Inv, TypeOK, SharedOK, ThreadsFit, ThreadFits
<1>4. local[c] \in Pointers /\ registered_ss[local[c].ss].server \in Server
  BY <1>3, LocalFacts
<1>5. WellFormed(cache)'
  BY <1>3, <1>4, PutFacts DEF LookupPut
<1>6. \A i \in {local[c].ss, local[c].dest} :
          i # Null => i \in Slot /\ registered_ss[i].server # Null
  BY LocalFacts DEF Inv, PointersFilled
<1>7. /\ "lookup_answer" \in Location \ Holding
      /\ "lookup_answer" \notin AtRegister \cup AtCopy \cup AtServer
  BY DEF Location, Holding, AtRegister, AtCopy, AtServer
<1>8. Goto(c, "lookup_answer", local[c])
  BY DEF LookupPut
<1> QED
  BY <1>1, <1>2, <1>3, <1>4, <1>5, <1>6, <1>7, <1>8, QuietGoto

\* A freed node is read.
LEMMA UseAfterFreeKeeps ==
    ASSUME Inv, NEW c \in Conn, UseAfterFree(c)
    PROVE  Inv'
<1>1. fault' = TRUE /\ UNCHANGED <<servers, ss_list_mutex, trie, cache, threads, placed>>
  BY DEF UseAfterFree, ReadFreed
<1>2. TypeOK'
  BY <1>1 DEF Inv, TypeOK, ServersOK, SharedOK, ThreadsOK, servers, threads
<1>3. ThreadsFit' /\ Owner' /\ Filled' /\ PointersFilled' /\ RoundRobinInRange'
  BY <1>1 DEF Inv, ThreadsFit, ThreadFits, Owner, Filled, PointersFilled,
              RoundRobinInRange, servers, threads
<1> QED
  BY <1>2, <1>3 DEF Inv

-----------------------------------------------------------------------------
(* Steps that change the array, the trie or the mutex.                     *)

\* One thread moves; the others keep what fits them.
LEMMA ThreadMoved ==
    ASSUME Inv, NEW c \in Conn, ThreadFits(c)', req' = req,
           \A d \in Conn \ {c} : pc'[d] = pc[d] /\ local'[d] = local[d]
    PROVE  ThreadsFit'
<1> SUFFICES ASSUME NEW d \in Conn PROVE ThreadFits(d)'
  BY DEF ThreadsFit
<1>1. CASE d = c
  BY <1>1
<1>2. CASE d # c
  BY <1>2 DEF Inv, ThreadsFit, ThreadFits
<1> QED
  BY <1>1, <1>2

\* The entries stay filled in, and the new pointers are to such entries.
LEMMA PointersMoved ==
    ASSUME Inv, NEW c \in Conn,
           \A i \in Slot : registered_ss[i].server # Null => registered_ss'[i].server # Null,
           \A p \in Path : trie'[p] # trie[p] /\ trie'[p] # Null =>
               registered_ss'[trie'[p]].server # Null,
           \A i \in {local'[c].ss, local'[c].dest} : i # Null => registered_ss'[i].server # Null,
           \A d \in Conn \ {c} : local'[d] = local[d]
    PROVE  PointersFilled'
<1>1. \A p \in Path : trie[p] # Null => registered_ss'[trie[p]].server # Null
  BY TrieFacts, NullAssumption
<1>2. \A d \in Conn : \A i \in {local[d].ss, local[d].dest} :
          i # Null => registered_ss'[i].server # Null
  BY LocalFacts, NullAssumption
<1> QED
  BY <1>1, <1>2 DEF PointersFilled

\* While the mutex is free nobody is in a long section, and the entry of the next
\* registration is empty.
LEMMA MutexFreeFacts ==
    ASSUME Inv, MutexFree
    PROVE  /\ \A d \in Conn : pc[d] \notin Holding
           /\ \A i \in Slot : registered_ss[i].server # Null => i < num_registered_ss
<1>1. \A d \in Conn : pc[d] \notin Holding
  BY ConnAssumption DEF Inv, Owner, MutexFree
<1> QED
  BY <1>1 DEF Inv, Filled, Holding

\* The thread in a long section is the only one.
LEMMA HolderFacts ==
    ASSUME Inv, NEW c \in Conn, pc[c] \in Holding
    PROVE  \A d \in Conn \ {c} : pc[d] \notin Holding
BY DEF Inv, Owner

\* The array's entries, with a list of paths of one replaced.
LEMMA PathsReplaced ==
    ASSUME Inv, NEW i \in Slot, NEW l \in Seq(Path), Len(l) <= MAX_ACCESSIBLE_PATHS,
           registered_ss' = [registered_ss EXCEPT ![i].accessible_paths = l],
           UNCHANGED <<num_registered_ss, current_ss_index>>
    PROVE  /\ ServersOK'
           /\ \A k \in Slot : registered_ss'[k].server = registered_ss[k].server
<1>1. ServersOK
  BY DEF Inv, TypeOK
<1>2. /\ registered_ss' \in [Slot -> [server : Server \cup {Null},
                                      accessible_paths : Seq(Path)]]
      /\ \A k \in Slot : registered_ss'[k].server = registered_ss[k].server
  BY <1>1 DEF ServersOK
<1>3. \A k \in Slot : registered_ss'[k].accessible_paths =
          IF k = i THEN l ELSE registered_ss[k].accessible_paths
  BY <1>1 DEF ServersOK
<1>4. \A k \in Slot : Len(registered_ss'[k].accessible_paths) <= MAX_ACCESSIBLE_PATHS
  BY <1>1, <1>3 DEF ServersOK
<1> QED
  BY <1>1, <1>2, <1>4 DEF ServersOK

\* A path added to a list stays within the limit.
LEMMA ListedFacts ==
    ASSUME NEW l \in Seq(Path), Len(l) <= MAX_ACCESSIBLE_PATHS, NEW p \in Path
    PROVE  Listed(l, p) \in Seq(Path) /\ Len(Listed(l, p)) <= MAX_ACCESSIBLE_PATHS
BY LimitAssumption DEF Listed

\* A path that is listed is taken from a place where it is.
LEMMA RemoveFirstPlace ==
    ASSUME NEW l \in Seq(Path), NEW p \in Path
    PROVE  \/ p \notin ToSet(l) /\ RemoveFirst(l, p) = l
           \/ \E k \in DOMAIN l : l[k] = p /\ RemoveFirst(l, p) = RemoveAt(l, k)
<1>1. CASE ~ \E i \in 1 .. Len(l) : l[i] = p
  BY <1>1 DEF RemoveFirst, ToSet
<1>2. CASE \E i \in 1 .. Len(l) : l[i] = p
  <2> DEFINE I == {i \in 1 .. Len(l) : l[i] = p}
             k == Min(I)
  <2>1. I # {} /\ I \in SUBSET Nat
    BY <1>2
  <2>2. k \in I
    BY <2>1, MinIsLeast
  <2>3. SelectInSeq(l, LAMBDA v : v = p) = k
    BY <2>1 DEF SelectInSeq
  <2>4. RemoveFirst(l, p) = RemoveAt(l, k)
    BY <1>2, <2>3 DEF RemoveFirst
  <2> HIDE DEF k
  <2>5. k \in DOMAIN l /\ l[k] = p
    BY <2>2
  <2> QED
    BY <2>4, <2>5
<1> QED
  BY <1>1, <1>2

\* A path taken from a list leaves it no longer.
LEMMA RemoveFirstFacts ==
    ASSUME NEW l \in Seq(Path), NEW p \in Path
    PROVE  RemoveFirst(l, p) \in Seq(Path) /\ Len(RemoveFirst(l, p)) <= Len(l)
BY RemoveFirstPlace, RemoveAtElements

\* A registration begins: the entry it fills in was empty.
LEMMA RegisterStartKeeps ==
    ASSUME Inv, NEW c \in Conn, RegisterStart(c)
    PROVE  /\ Inv'
           /\ \A i \in Slot : registered_ss[i].server # Null =>
                  registered_ss'[i].server = registered_ss[i].server
<1> DEFINE n == num_registered_ss
           paths == Exports[req[c].server]
           ptrs == [NoLocal EXCEPT !.rest = paths]
           entry == [server |-> req[c].server, accessible_paths |-> paths]
<1>1. /\ pc[c] = "REGISTER_SS" /\ MutexFree /\ n \in Slot
      /\ ss_list_mutex' = c
      /\ registered_ss' = [registered_ss EXCEPT ![n] = entry]
      /\ Goto(c, "register_paths", ptrs)
      /\ UNCHANGED <<num_registered_ss, current_ss_index, trie, cache, fault, placed>>
  BY LimitAssumption DEF RegisterStart, Inv, TypeOK, ServersOK, Slot
<1>2. req[c].server \in Server
  BY <1>1 DEF Inv, ThreadsFit, ThreadFits, AtRegister
<1>3. paths \in Seq(Path) /\ Len(paths) <= MAX_ACCESSIBLE_PATHS
  BY <1>2, ExportsAssumption
<1>4. /\ entry.server = req[c].server /\ entry.accessible_paths = paths
      /\ entry \in [server : Server \cup {Null}, accessible_paths : Seq(Path)]
  BY <1>2, <1>3
<1>5. ptrs \in Pointers /\ ptrs.ss = Null /\ ptrs.dest = Null
  BY <1>3, NoLocalFacts DEF Pointers
<1> HIDE DEF n, paths, ptrs, entry
<1>6. "register_paths" \in Location
  BY DEF Location
<1>7. /\ ThreadsOK'
      /\ pc'[c] = "register_paths" /\ local'[c] = ptrs
      /\ req' = req
      /\ \A d \in Conn \ {c} : pc'[d] = pc[d] /\ local'[d] = local[d]
  BY <1>1, <1>5, <1>6, GotoFacts DEF Inv, TypeOK
<1>8. \A i \in Slot : registered_ss'[i] = IF i = n THEN entry ELSE registered_ss[i]
  BY <1>1 DEF Inv, TypeOK, ServersOK
<1>9. /\ registered_ss'[n].server # Null
      /\ \A i \in Slot : i # n => registered_ss'[i].server = registered_ss[i].server
  BY <1>1, <1>2, <1>4, <1>8, NullAssumption
<1>10. registered_ss[n].server = Null
  BY <1>1, MutexFreeFacts DEF n, Slot
<1>11. \A i \in Slot : registered_ss[i].server # Null =>
           registered_ss'[i].server = registered_ss[i].server
  BY <1>9, <1>10
<1>12. TypeOK'
  <2>1. ServersOK'
    BY <1>1, <1>3, <1>4, <1>8 DEF Inv, TypeOK, ServersOK
  <2>2. SharedOK'
    BY <1>1 DEF Inv, TypeOK, SharedOK
  <2> QED
    BY <1>7, <2>1, <2>2 DEF TypeOK
<1>13. ThreadFits(c)'
  BY <1>2, <1>7 DEF ThreadFits, AtRegister, AtPath, AtCopy, AtServer
<1>14. ThreadsFit'
  BY <1>7, <1>13, ThreadMoved
<1>15. Owner'
  BY <1>1, <1>7, MutexFreeFacts DEF Owner
<1>16. Filled'
  <2>1. n' = n /\ \A i \in Slot : i < n => registered_ss[i].server # Null
    BY <1>1 DEF Inv, Filled, n
  <2>2. \A i \in Slot : i < n => registered_ss'[i].server # Null
    BY <1>9, <2>1
  <2>3. \A i \in Slot : registered_ss'[i].server # Null => i < n \/ i = n
    BY <1>1, <1>9, MutexFreeFacts DEF n
  <2> QED
    BY <1>1, <1>7, <1>9, <2>1, <2>2, <2>3 DEF Filled, n
<1>17. PointersFilled'
  BY <1>1, <1>5, <1>7, <1>11, PointersMoved
<1>18. RoundRobinInRange'
  BY <1>1 DEF Inv, RoundRobinInRange
<1> QED
  BY <1>11, <1>12, <1>14, <1>15, <1>16, <1>17, <1>18 DEF Inv

\* One path of a registration is published: it points at the entry just filled in.
LEMMA RegisterPathKeeps ==
    ASSUME Inv, NEW c \in Conn, RegisterPath(c)
    PROVE  Inv'
<1> DEFINE n == num_registered_ss
           p == Head(local[c].rest)
           ptrs == [local[c] EXCEPT !.rest = Tail(@)]
<1>1. /\ pc[c] = "register_paths" /\ local[c].rest # << >>
      /\ trie' = [trie EXCEPT ![p] = n]
      /\ placed' = placed \cup {<<p, registered_ss[n].server>>}
      /\ Goto(c, "register_paths", ptrs)
      /\ UNCHANGED <<servers, ss_list_mutex, cache, fault>>
  BY DEF RegisterPath, trie_insert
<1>2. n \in Slot /\ registered_ss[n].server \in Server
  BY <1>1 DEF Inv, TypeOK, ServersOK, Filled
<1>3. local[c] \in Pointers
  BY LocalFacts
<1>4. p \in Path /\ Tail(local[c].rest) \in Seq(Path)
  BY <1>1, <1>3 DEF Pointers
<1>5. ptrs \in Pointers /\ ptrs.ss = local[c].ss /\ ptrs.dest = local[c].dest
  BY <1>3, <1>4 DEF Pointers
<1> HIDE DEF n, p, ptrs
<1>6. "register_paths" \in Location
  BY DEF Location
<1>7. /\ ThreadsOK'
      /\ pc'[c] = "register_paths" /\ local'[c] = ptrs
      /\ req' = req
      /\ \A d \in Conn \ {c} : pc'[d] = pc[d] /\ local'[d] = local[d]
  BY <1>1, <1>5, <1>6, GotoFacts DEF Inv, TypeOK
<1>8. \A d \in Conn : pc'[d] = pc[d]
  BY <1>1, <1>7
<1>9. TypeOK'
  <2>1. ServersOK'
    BY <1>1 DEF Inv, TypeOK, ServersOK, servers
  <2>2. SharedOK'
    BY <1>1, <1>2, <1>4 DEF Inv, TypeOK, SharedOK
  <2> QED
    BY <1>7, <2>1, <2>2 DEF TypeOK
<1>10. ThreadFits(c)'
  BY <1>1, <1>7 DEF Inv, ThreadsFit, ThreadFits, AtRegister, AtPath, AtCopy, AtServer
<1>11. ThreadsFit'
  BY <1>7, <1>10, ThreadMoved
<1>12. Owner'
  BY <1>1, <1>8 DEF Inv, Owner
<1>13. Filled'
  BY <1>1, <1>8 DEF Inv, Filled, servers
<1>14. PointersFilled'
  <2>1. \A q \in Path : trie'[q] # trie[q] => trie'[q] = n
    BY <1>1 DEF Inv, TypeOK, SharedOK
  <2>2. registered_ss' = registered_ss /\ registered_ss[n].server # Null
    BY <1>1, <1>2, NullAssumption DEF servers
  <2>3. \A i \in {local'[c].ss, local'[c].dest} : i # Null => registered_ss'[i].server # Null
    BY <1>5, <1>7, <2>2, LocalFacts, NullAssumption
  <2> QED
    BY <1>7, <2>1, <2>2, <2>3, PointersMoved
<1>15. RoundRobinInRange'
  BY <1>1 DEF Inv, RoundRobinInRange, servers
<1> QED
  BY <1>9, <1>11, <1>12, <1>13, <1>14, <1>15 DEF Inv

\* A registration ends: the entry it filled in now counts.
LEMMA RegisterEndKeeps ==
    ASSUME Inv, NEW c \in Conn, RegisterEnd(c)
    PROVE  Inv'
<1> DEFINE n == num_registered_ss
<1>1. /\ pc[c] = "register_paths"
      /\ n' = n + 1
      /\ ss_list_mutex' = Null
      /\ Ack(c)
      /\ UNCHANGED <<registered_ss, current_ss_index, trie, cache, fault, placed>>
  BY DEF RegisterEnd
<1>2. n \in Slot /\ registered_ss[n].server # Null /\ n \in Nat /\ n + 1 \in 0 .. MAX_SS
  BY <1>1, LimitAssumption DEF Inv, Filled, Slot
<1>3. /\ ThreadsOK'
      /\ pc'[c] = "reply" /\ local'[c] = NoLocal
      /\ req' = req
      /\ \A d \in Conn \ {c} : pc'[d] = pc[d] /\ local'[d] = local[d]
  BY <1>1, AckFacts, CodeFacts DEF Inv, TypeOK
<1>4. \A d \in Conn : pc'[d] \notin Holding
  BY <1>1, <1>3, HolderFacts DEF Holding
<1>5. TypeOK'
  <2>1. ServersOK'
    BY <1>1, <1>2 DEF Inv, TypeOK, ServersOK
  <2>2. SharedOK'
    BY <1>1 DEF Inv, TypeOK, SharedOK
  <2> QED
    BY <1>3, <2>1, <2>2 DEF TypeOK
<1>6. ThreadFits(c)'
  BY <1>3 DEF ThreadFits, AtRegister, AtPath, AtCopy, AtServer
<1>7. ThreadsFit'
  BY <1>3, <1>6, ThreadMoved
<1>8. Owner'
  BY <1>4 DEF Owner
<1>9. Filled'
  <2>1. \A i \in Slot : i < n + 1 => i < n \/ i = n
    BY <1>2 DEF Slot
  <2>2. \A i \in Slot : i < n \/ i = n => i < n + 1
    BY <1>2 DEF Slot
  <2>3. \A d \in Conn : pc'[d] # "register_paths"
    BY <1>4 DEF Holding
  <2> QED
    BY <1>1, <1>2, <2>1, <2>2, <2>3 DEF Inv, Filled
<1>10. PointersFilled'
  BY <1>1, <1>3, NoLocalFacts, PointersMoved
<1>11. RoundRobinInRange'
  BY <1>1, <1>2 DEF Inv, TypeOK, ServersOK, RoundRobinInRange
<1> QED
  BY <1>5, <1>7, <1>8, <1>9, <1>10, <1>11 DEF Inv

\* The turn is a registered server's, and so is the next one.
LEMMA TurnFacts ==
    ASSUME Inv, NEW i \in Slot, get_available_ss_for_creation(i),
           UNCHANGED <<registered_ss, num_registered_ss>>
    PROVE  /\ registered_ss[i].server # Null
           /\ current_ss_index' \in Nat
           /\ RoundRobinInRange'
<1>1. /\ num_registered_ss \in Nat /\ num_registered_ss > 0
      /\ i = current_ss_index /\ current_ss_index \in Nat
      /\ current_ss_index' = (current_ss_index + 1) % num_registered_ss
  BY DEF get_available_ss_for_creation, Inv, TypeOK, ServersOK
<1>2. i < num_registered_ss
  BY <1>1 DEF Inv, RoundRobinInRange
<1>3. current_ss_index' \in 0 .. num_registered_ss - 1
  BY <1>1
<1> QED
  BY <1>1, <1>2, <1>3 DEF Inv, Filled, RoundRobinInRange

\* A creation, or a copy to a new path, picks its server.
LEMMA PickKeeps ==
    ASSUME Inv, NEW c \in Conn, CreatePick(c) \/ CopyPick(c)
    PROVE  Inv'
<1>1. /\ UNCHANGED <<registered_ss, num_registered_ss, ss_list_mutex, trie, cache, fault,
                     placed>>
      /\ pc[c] \in {"create_pick", "copy_pick"}
      /\ pc[c] \notin Holding /\ pc[c] \in AtPath
  BY DEF CreatePick, CopyPick, Holding, AtPath, AtCopy
<1>2. CASE Nack(c, "SS_UNAVAILABLE") /\ UNCHANGED current_ss_index
  BY <1>1, <1>2, CodeFacts, QuietAnswer DEF servers
<1>3. ASSUME NEW i \in Slot, get_available_ss_for_creation(i),
             NEW where \in {"create_rpc", "copy_rpc"}, NEW ptrs \in Pointers,
             Goto(c, where, ptrs),
             where = "copy_rpc" => pc[c] = "copy_pick",
             ptrs.ss # Null, where = "copy_rpc" => ptrs.dest # Null,
             \A k \in {ptrs.ss, ptrs.dest} :
                 k # Null => k \in Slot /\ registered_ss[k].server # Null
      PROVE  Inv'
  <2>1. current_ss_index' \in Nat /\ RoundRobinInRange'
    BY <1>1, <1>3, TurnFacts
  <2>2. where \in Location /\ where \notin Holding \cup AtRegister
    BY <1>3 DEF Location, Holding, AtRegister
  <2>3. /\ ThreadsOK'
        /\ pc'[c] = where /\ local'[c] = ptrs
        /\ req' = req
        /\ \A d \in Conn \ {c} : pc'[d] = pc[d] /\ local'[d] = local[d]
    BY <1>3, <2>2, GotoFacts DEF Inv, TypeOK
  <2>4. \A d \in Conn : /\ pc'[d] \in Holding <=> pc[d] \in Holding
                        /\ pc'[d] = "register_paths" <=> pc[d] = "register_paths"
    BY <1>1, <2>2, <2>3 DEF Holding
  <2>5. TypeOK'
    <3>1. ServersOK'
      BY <1>1, <2>1 DEF Inv, TypeOK, ServersOK
    <3>2. SharedOK'
      BY <1>1 DEF Inv, TypeOK, SharedOK
    <3> QED
      BY <2>3, <3>1, <3>2 DEF TypeOK
  <2>6. ThreadFits(c)'
    <3>1. where \in AtCopy => pc[c] \in AtCopy
      BY <1>3 DEF AtCopy
    <3>2. req[c].path \in Path /\ (pc[c] \in AtCopy => req[c].path2 \in Path)
      BY <1>1 DEF Inv, ThreadsFit, ThreadFits
    <3> QED
      BY <1>3, <2>2, <2>3, <3>1, <3>2 DEF ThreadFits
  <2>7. ThreadsFit'
    BY <2>3, <2>6, ThreadMoved
  <2>8. Owner' /\ Filled'
    BY <1>1, <2>4 DEF Inv, Owner, Filled
  <2>9. PointersFilled'
    BY <1>1, <1>3, <2>3, PointersMoved
  <2> QED
    BY <2>1, <2>5, <2>7, <2>8, <2>9 DEF Inv
<1>4. CASE \E i \in Slot : /\ get_available_ss_for_creation(i)
                           /\ pc[c] = "create_pick"
                           /\ Goto(c, "create_rpc", [NoLocal EXCEPT !.ss = i])
  <2>1. PICK i \in Slot : /\ get_available_ss_for_creation(i)
                          /\ Goto(c, "create_rpc", [NoLocal EXCEPT !.ss = i])
    BY <1>4
  <2> DEFINE ptrs == [NoLocal EXCEPT !.ss = i]
  <2>2. ptrs \in Pointers /\ ptrs.ss = i /\ ptrs.dest = Null /\ i # Null
    BY NoLocalFacts, SlotAssumption
  <2>3. registered_ss[i].server # Null
    BY <1>1, <2>1, TurnFacts
  <2>4. Goto(c, "create_rpc", ptrs)
    BY <2>1
  <2> HIDE DEF ptrs
  <2> QED
    BY <1>3, <2>1, <2>2, <2>3, <2>4
<1>5. CASE \E i \in Slot : /\ get_available_ss_for_creation(i)
                           /\ pc[c] = "copy_pick"
                           /\ Goto(c, "copy_rpc", [local[c] EXCEPT !.dest = i])
  <2>1. PICK i \in Slot : /\ get_available_ss_for_creation(i)
                          /\ Goto(c, "copy_rpc", [local[c] EXCEPT !.dest = i])
    BY <1>5
  <2> DEFINE ptrs == [local[c] EXCEPT !.dest = i]
  <2>2. local[c] \in Pointers /\ local[c].ss # Null
    BY <1>5, LocalFacts DEF Inv, ThreadsFit, ThreadFits, AtServer
  <2>3. ptrs \in Pointers /\ ptrs.ss = local[c].ss /\ ptrs.dest = i /\ i # Null
    BY <2>2, SlotAssumption DEF Pointers
  <2>4. registered_ss[i].server # Null
    BY <1>1, <2>1, TurnFacts
  <2>5. Goto(c, "copy_rpc", ptrs)
    BY <2>1
  <2> HIDE DEF ptrs
  <2>6. \A k \in {ptrs.ss, ptrs.dest} :
            k # Null => k \in Slot /\ registered_ss[k].server # Null
    BY <2>3, <2>4, LocalFacts, NullAssumption
  <2> QED
    BY <1>3, <1>5, <2>1, <2>2, <2>3, <2>5, <2>6
<1> QED
  BY <1>2, <1>4, <1>5 DEF CreatePick, CopyPick

\* A path is placed on a registered server.
LEMMA PlaceFacts ==
    ASSUME Inv, NEW p \in Path, NEW i \in Slot, registered_ss[i].server # Null, Place(p, i),
           UNCHANGED <<num_registered_ss, current_ss_index, ss_list_mutex, cache, fault>>
    PROVE  /\ ServersOK' /\ SharedOK'
           /\ \A k \in Slot : registered_ss'[k].server = registered_ss[k].server
           /\ \A q \in Path : trie'[q] # trie[q] => trie'[q] = i
<1> DEFINE l == registered_ss[i].accessible_paths
           new == Listed(l, p)
<1>1. /\ trie' = [trie EXCEPT ![p] = i]
      /\ placed' = placed \cup {<<p, registered_ss[i].server>>}
      /\ registered_ss' = [registered_ss EXCEPT ![i].accessible_paths = new]
  BY DEF Place, trie_insert
<1>2. registered_ss[i].server \in Server /\ l \in Seq(Path) /\ Len(l) <= MAX_ACCESSIBLE_PATHS
  BY DEF Inv, TypeOK, ServersOK
<1>3. new \in Seq(Path) /\ Len(new) <= MAX_ACCESSIBLE_PATHS
  BY <1>2, ListedFacts
<1>4. ServersOK' /\ \A k \in Slot : registered_ss'[k].server = registered_ss[k].server
  <2> HIDE DEF new
  <2> QED
    BY <1>1, <1>3, PathsReplaced
<1>5. SharedOK'
  BY <1>1, <1>2 DEF Inv, TypeOK, SharedOK
<1>6. \A q \in Path : trie'[q] # trie[q] => trie'[q] = i
  BY <1>1 DEF Inv, TypeOK, SharedOK
<1> QED
  BY <1>4, <1>5, <1>6

\* A creation or a copy that succeeded is entered; a copy over a path that was
\* there only answers.
LEMMA UpdateKeeps ==
    ASSUME Inv, NEW c \in Conn, CreateUpdate(c) \/ CopyUpdate(c)
    PROVE  /\ Inv'
           /\ \A i \in Slot : registered_ss[i].server # Null =>
                  registered_ss'[i].server = registered_ss[i].server
<1>1. /\ Ack(c)
      /\ UNCHANGED <<num_registered_ss, current_ss_index, ss_list_mutex, cache, fault>>
      /\ pc[c] \in {"create_update", "copy_update"}
      /\ pc[c] \notin Holding /\ pc[c] \in AtPath
  BY DEF CreateUpdate, CopyUpdate, Holding, AtPath, AtCopy
<1>2. CASE UNCHANGED <<registered_ss, trie, placed>>
  BY <1>1, <1>2, CodeFacts, QuietAnswer DEF servers
<1>3. ASSUME NEW p \in Path, NEW i \in Slot, registered_ss[i].server # Null, Place(p, i)
      PROVE  /\ Inv'
             /\ \A k \in Slot : registered_ss[k].server # Null =>
                    registered_ss'[k].server = registered_ss[k].server
  <2>1. /\ ServersOK' /\ SharedOK'
        /\ \A k \in Slot : registered_ss'[k].server = registered_ss[k].server
        /\ \A q \in Path : trie'[q] # trie[q] => trie'[q] = i
    BY <1>1, <1>3, PlaceFacts
  <2>2. /\ ThreadsOK'
        /\ pc'[c] = "reply" /\ local'[c] = NoLocal
        /\ req' = req
        /\ \A d \in Conn \ {c} : pc'[d] = pc[d] /\ local'[d] = local[d]
    BY <1>1, AckFacts, CodeFacts DEF Inv, TypeOK
  <2>3. ThreadFits(c)'
    BY <2>2 DEF ThreadFits, AtRegister, AtPath, AtCopy, AtServer
  <2>4. ThreadsFit'
    BY <2>2, <2>3, ThreadMoved
  <2>5. \A d \in Conn : /\ pc'[d] \in Holding <=> pc[d] \in Holding
                        /\ pc'[d] = "register_paths" <=> pc[d] = "register_paths"
    BY <1>1, <2>2 DEF Holding
  <2>6. Owner' /\ Filled'
    BY <1>1, <2>1, <2>5 DEF Inv, Owner, Filled
  <2>7. PointersFilled'
    BY <1>3, <2>1, <2>2, NoLocalFacts, PointersMoved
  <2>8. RoundRobinInRange'
    BY <1>1 DEF Inv, RoundRobinInRange
  <2> QED
    BY <2>1, <2>2, <2>4, <2>6, <2>7, <2>8 DEF Inv, TypeOK
<1>4. CASE CreateUpdate(c)
  <2>1. pc[c] \in AtServer /\ Place(req[c].path, local[c].ss)
    BY <1>4 DEF CreateUpdate, AtServer
  <2> QED
    BY <1>1, <1>3, <2>1, LocalFacts, NullAssumption DEF Inv, ThreadsFit, ThreadFits
<1>5. CASE CopyUpdate(c)
  <2>1. CASE Place(req[c].path2, local[c].dest)
    <3>1. pc[c] = "copy_update" /\ pc[c] \in AtCopy
      BY <1>5 DEF CopyUpdate, AtCopy
    <3> QED
      BY <1>3, <2>1, <3>1, LocalFacts, NullAssumption DEF Inv, ThreadsFit, ThreadFits
  <2> QED
    BY <1>2, <1>5, <2>1 DEF CopyUpdate
<1> QED
  BY <1>4, <1>5

\* DELETE_FILE clears the trie.
LEMMA DeleteTrieKeeps ==
    ASSUME Inv, NEW c \in Conn, DeleteTrie(c)
    PROVE  Inv'
<1>1. /\ pc[c] = "delete_trie" /\ MutexFree
      /\ ss_list_mutex' = c
      /\ trie' = [trie EXCEPT ![req[c].path] = Null]
      /\ Goto(c, "delete_cache", local[c])
      /\ UNCHANGED <<servers, cache, fault, placed>>
  BY DEF DeleteTrie
<1>2. req[c].path \in Path /\ local[c].ss # Null
  BY <1>1 DEF Inv, ThreadsFit, ThreadFits, AtPath, AtServer
<1>3. "delete_cache" \in Location /\ local[c] \in Pointers
  BY LocalFacts DEF Location
<1>4. /\ ThreadsOK'
      /\ pc'[c] = "delete_cache" /\ local'[c] = local[c]
      /\ req' = req
      /\ \A d \in Conn \ {c} : pc'[d] = pc[d] /\ local'[d] = local[d]
  BY <1>1, <1>3, GotoFacts DEF Inv, TypeOK
<1>5. TypeOK'
  <2>1. ServersOK'
    BY <1>1 DEF Inv, TypeOK, ServersOK, servers
  <2>2. SharedOK'
    BY <1>1 DEF Inv, TypeOK, SharedOK
  <2> QED
    BY <1>4, <2>1, <2>2 DEF TypeOK
<1>6. ThreadFits(c)'
  BY <1>2, <1>4 DEF ThreadFits, AtRegister, AtPath, AtCopy, AtServer
<1>7. ThreadsFit'
  BY <1>4, <1>6, ThreadMoved
<1>8. Owner'
  BY <1>1, <1>4, MutexFreeFacts DEF Owner
<1>9. Filled'
  <2>1. \A d \in Conn : pc'[d] = "register_paths" <=> pc[d] = "register_paths"
    BY <1>1, <1>4
  <2> QED
    BY <1>1, <2>1 DEF Inv, Filled, servers
<1>10. PointersFilled'
  <2>1. \A q \in Path : trie'[q] # trie[q] => trie'[q] = Null
    BY <1>1 DEF Inv, TypeOK, SharedOK
  <2>2. \A i \in {local'[c].ss, local'[c].dest} : i # Null => registered_ss'[i].server # Null
    BY <1>1, <1>4, LocalFacts, NullAssumption DEF servers
  <2> QED
    BY <1>1, <1>4, <2>1, <2>2, PointersMoved DEF servers
<1>11. RoundRobinInRange'
  BY <1>1 DEF Inv, RoundRobinInRange, servers
<1> QED
  BY <1>5, <1>7, <1>8, <1>9, <1>10, <1>11 DEF Inv

\* DELETE_FILE clears the cache and the server's list, and gives the mutex back.
LEMMA DeleteCacheKeeps ==
    ASSUME Inv, NEW c \in Conn, DeleteCache(c)
    PROVE  /\ Inv'
           /\ \A i \in Slot : registered_ss[i].server # Null =>
                  registered_ss'[i].server = registered_ss[i].server
<1> DEFINE i == local[c].ss
           p == req[c].path
           old == registered_ss[i].accessible_paths
           l == RemoveFirst(old, p)
<1>1. /\ pc[c] = "delete_cache"
      /\ cache' = lru_remove(cache, p)
      /\ registered_ss' = [registered_ss EXCEPT ![i].accessible_paths = l]
      /\ ss_list_mutex' = Null
      /\ Ack(c)
      /\ UNCHANGED <<num_registered_ss, current_ss_index, trie, fault, placed>>
  BY DEF DeleteCache, remove_path_from_ss_info
<1>2. p \in Path /\ i \in Slot
  BY <1>1, LocalFacts DEF Inv, ThreadsFit, ThreadFits, AtPath, AtServer
<1>3. old \in Seq(Path) /\ Len(old) <= MAX_ACCESSIBLE_PATHS
  BY <1>2 DEF Inv, TypeOK, ServersOK
<1>4. l \in Seq(Path) /\ Len(l) <= MAX_ACCESSIBLE_PATHS
  <2> HIDE DEF old, p
  <2>1. l \in Seq(Path) /\ Len(l) <= Len(old)
    BY <1>2, <1>3, RemoveFirstFacts
  <2> HIDE DEF l
  <2> QED
    BY <1>3, <2>1, LimitAssumption
<1>5. WellFormed(cache')
  <2>1. WellFormed(cache)
    BY DEF Inv, TypeOK, SharedOK
  <2>2. CASE Found(cache, p) = Null
    BY <1>1, <2>1, <2>2 DEF lru_remove
  <2>3. CASE Found(cache, p) # Null
    BY <1>1, <1>2, <2>1, <2>3, RemoveFacts
  <2> QED
    BY <2>2, <2>3
<1> HIDE DEF i, p, l
<1>6. ServersOK' /\ \A k \in Slot : registered_ss'[k].server = registered_ss[k].server
  BY <1>1, <1>2, <1>4, PathsReplaced
<1>7. /\ ThreadsOK'
      /\ pc'[c] = "reply" /\ local'[c] = NoLocal
      /\ req' = req
      /\ \A d \in Conn \ {c} : pc'[d] = pc[d] /\ local'[d] = local[d]
  BY <1>1, AckFacts, CodeFacts DEF Inv, TypeOK
<1>8. \A d \in Conn : pc'[d] \notin Holding /\ pc[d] # "register_paths"
  BY <1>1, <1>7, HolderFacts DEF Holding
<1>9. SharedOK'
  BY <1>1, <1>5 DEF Inv, TypeOK, SharedOK
<1>10. ThreadFits(c)'
  BY <1>7 DEF ThreadFits, AtRegister, AtPath, AtCopy, AtServer
<1>11. ThreadsFit'
  BY <1>7, <1>10, ThreadMoved
<1>12. Owner'
  BY <1>8 DEF Owner
<1>13. Filled'
  <2>1. \A d \in Conn : pc'[d] # "register_paths"
    BY <1>8 DEF Holding
  <2> QED
    BY <1>1, <1>6, <1>8, <2>1 DEF Inv, Filled
<1>14. PointersFilled'
  BY <1>1, <1>6, <1>7, NoLocalFacts, PointersMoved
<1>15. RoundRobinInRange'
  BY <1>1 DEF Inv, RoundRobinInRange
<1> QED
  BY <1>6, <1>7, <1>9, <1>11, <1>12, <1>13, <1>14, <1>15 DEF Inv, TypeOK

-----------------------------------------------------------------------------
(* The invariant and the theorems.                                         *)

\* The process starts with nothing, and restarts so.
LEMMA InvInit == Init => Inv
<1> SUFFICES ASSUME Init PROVE Inv
  OBVIOUS
<1>1. << >> \in Seq(Path) /\ Len(<< >>) = 0 /\ NoLocal \in Pointers
  BY NoLocalFacts
<1>2. ServersOK
  BY <1>1, LimitAssumption DEF Init, ServersOK
<1>3. SharedOK
  BY EmptyFacts DEF Init, SharedOK
<1>4. ThreadsOK
  BY <1>1 DEF Init, ThreadsOK, Location
<1>5. \A c \in Conn : pc[c] = "idle" /\ local[c] = NoLocal
  BY DEF Init
<1>6. ThreadsFit /\ Owner
  BY <1>5 DEF ThreadsFit, ThreadFits, Owner, AtRegister, AtPath, AtCopy, AtServer, Holding
<1>7. Filled
  BY <1>5 DEF Init, Filled, Slot
<1>8. PointersFilled
  BY <1>5, NoLocalFacts DEF Init, PointersFilled
<1>9. RoundRobinInRange
  BY DEF Init, RoundRobinInRange
<1> QED
  BY <1>2, <1>3, <1>4, <1>6, <1>7, <1>8, <1>9 DEF Inv, TypeOK

\* A restart leaves the initial state.
LEMMA RestartKeeps ==
    ASSUME Restart
    PROVE  Inv'
<1>1. Init'
  BY DEF Restart, Init
<1>2. (Init => Inv)'
  BY InvInit, PTL
<1> QED
  BY <1>1, <1>2

\* What every step of a thread keeps, and what it does to the entries.
LEMMA ThreadStep ==
    ASSUME Inv, NEW c \in Conn, Step(c)
    PROVE  /\ Inv'
           /\ \A i \in Slot : registered_ss[i].server # Null =>
                  registered_ss'[i].server = registered_ss[i].server
<1>1. CASE RegisterStart(c)
  BY <1>1, RegisterStartKeeps
<1>2. CASE CreateUpdate(c) \/ CopyUpdate(c)
  BY <1>2, UpdateKeeps
<1>3. CASE DeleteCache(c)
  BY <1>3, DeleteCacheKeeps
<1>4. CASE Accept(c) \/ NoThread(c) \/ Reply(c) \/ Call(c)
  <2>1. UNCHANGED registered_ss
    BY <1>4 DEF Accept, NoThread, Reply, Call, CreateRpc, DeleteRpc, CopyRpc, servers
  <2> QED
    BY <1>4, <2>1, AcceptKeeps, NoThreadKeeps, ReplyKeeps, RpcKeeps DEF Call
<1>5. CASE \/ UnknownOperation(c) \/ RegisterFull(c) \/ ListFails(c) \/ ListPaths(c)
           \/ LookupAnswer(c) \/ UseAfterFree(c)
  <2>1. UNCHANGED registered_ss
    BY <1>5 DEF UnknownOperation, RegisterFull, ListFails, ListPaths, LookupAnswer,
                UseAfterFree, ReadFreed, servers
  <2> QED
    BY <1>5, <2>1, ShortAnswersKeep, ListPathsKeeps, LookupAnswerKeeps, UseAfterFreeKeeps
<1>6. CASE \/ CreateCheck(c) \/ DeleteFind(c) \/ CopySource(c) \/ LookupTrie(c)
           \/ CopyDest(c) \/ LookupCache(c) \/ LookupPut(c)
  <2>1. UNCHANGED registered_ss
    BY <1>6 DEF CreateCheck, DeleteFind, CopySource, LookupTrie, CopyDest, LookupCache,
                LookupPut, servers
  <2> QED
    BY <1>6, <2>1, TrieLooksKeep, CopyDestKeeps, LookupCacheKeeps, LookupPutKeeps
<1>7. CASE \/ RegisterPath(c) \/ RegisterEnd(c) \/ CreatePick(c) \/ CopyPick(c)
           \/ DeleteTrie(c)
  <2>1. UNCHANGED registered_ss
    BY <1>7 DEF RegisterPath, RegisterEnd, CreatePick, CopyPick, DeleteTrie, servers
  <2> QED
    BY <1>7, <2>1, RegisterPathKeeps, RegisterEndKeeps, PickKeeps, DeleteTrieKeeps
<1> QED
  BY <1>1, <1>2, <1>3, <1>4, <1>5, <1>6, <1>7 DEF Step, Run, Locked

\* Every step keeps the invariant.
LEMMA InvStep == Inv /\ [Next]_vars => Inv'
<1> SUFFICES ASSUME Inv, [Next]_vars PROVE Inv'
  OBVIOUS
<1>1. CASE Next
  BY <1>1, ThreadStep, RestartKeeps DEF Next, Step
<1>2. CASE UNCHANGED vars
  <2>1. TypeOK'
    BY <1>2 DEF Inv, TypeOK, ServersOK, SharedOK, ThreadsOK, vars, servers, threads
  <2>2. ThreadsFit' /\ Owner' /\ Filled' /\ PointersFilled' /\ RoundRobinInRange'
    BY <1>2 DEF Inv, ThreadsFit, ThreadFits, Owner, Filled, PointersFilled,
                RoundRobinInRange, vars, servers, threads
  <2> QED
    BY <2>1, <2>2 DEF Inv
<1> QED
  BY <1>1, <1>2

\* The invariant holds throughout.
THEOREM Invariance == Spec => []Inv
BY InvInit, InvStep, PTL DEF Spec

\* Every variable keeps its type, the cache its shape, and no list of paths outgrows
\* its array (naming_server.c:26-35, :205-227).
THEOREM TypeCorrect == Spec => []TypeOK
<1>1. Inv => TypeOK
  BY DEF Inv
<1> QED
  BY <1>1, Invariance, PTL

\* The trie and the threads hold pointers to filled entries only, although they read
\* them without the mutex (naming_server.c:77-88, :160, :373).
THEOREM PointersSafety == Spec => []PointersFilled
<1>1. Inv => PointersFilled
  BY DEF Inv
<1> QED
  BY <1>1, Invariance, PTL

\* The round-robin cursor names a registered server (naming_server.c:30-31).
THEOREM CursorSafety == Spec => []RoundRobinInRange
<1>1. Inv => RoundRobinInRange
  BY DEF Inv
<1> QED
  BY <1>1, Invariance, PTL

\* Until a restart, an entry that has been given to a server stays that server's:
\* registration never fills in an entry twice (naming_server.c:66-91).
THEOREM EntriesAreStable == Spec => RegistrationStable
<1>1. Inv /\ [Next]_vars =>
          [Restart \/ \A i \in Slot : registered_ss[i].server # Null =>
              registered_ss'[i].server = registered_ss[i].server]_vars
  BY ThreadStep DEF Next, Step
<1> QED
  BY <1>1, Invariance, PTL DEF Spec, RegistrationStable

-----------------------------------------------------------------------------
(***************************************************************************)
(* Overlapping requests.  First what the steps of HNext are: a step that   *)
(* is plain, and leaves all that the agreement is about, or one of ten     *)
(* others.                                                                 *)
(***************************************************************************)
\* Where a handler that goes on is, with which pointers.
LEMMA GotoMoves ==
    ASSUME ThreadsOK, NEW c \in Conn, NEW where, NEW ptrs, Goto(c, where, ptrs)
    PROVE  pc'[c] = where /\ local'[c] = ptrs /\ req' = req /\ reply' = reply
BY DEF ThreadsOK, Goto

\* Where a handler that answers is, with which response.
LEMMA AnswerMoves ==
    ASSUME ThreadsOK, NEW c \in Conn, NEW code, NEW server, NEW paths,
           Answer(c, code, server, paths)
    PROVE  /\ pc'[c] = "reply" /\ local'[c] = NoLocal /\ req' = req
           /\ reply' = [reply EXCEPT ![c] = [code |-> code, server |-> server, paths |-> paths]]
           /\ reply'[c].server = server
BY DEF ThreadsOK, Answer

\* A short answer names no server.
LEMMA AckMoves ==
    ASSUME ThreadsOK, NEW c \in Conn, NEW code, Ack(c) \/ Nack(c, code)
    PROVE  /\ pc'[c] = "reply" /\ local'[c] = NoLocal /\ req' = req
           /\ reply'[c].server = Null
BY AnswerMoves DEF Ack, Nack

\* A call that came back leads on, with the pointers it had, or to an answer.
LEMMA RpcMoves ==
    ASSUME ThreadsOK, NEW c \in Conn, NEW next, Rpc(c, next)
    PROVE  /\ req' = req
           /\ \/ pc'[c] = next /\ local'[c] = local[c] /\ reply' = reply
              \/ pc'[c] = "reply" /\ local'[c] = NoLocal /\ reply'[c].server = Null
<1>1. PICK code \in RpcCode : IF code = "SUCCESS" THEN Goto(c, next, local[c])
                                                ELSE Nack(c, code)
  BY DEF Rpc
<1> QED
  BY <1>1, GotoMoves, AckMoves

\* A thread leaves the others where they are.
LEMMA OthersStay ==
    ASSUME ThreadsOK, NEW c \in Conn, Step(c),
           NEW d \in Conn, d # c
    PROVE  pc'[d] = pc[d] /\ req'[d] = req[d] /\ local'[d] = local[d] /\ reply'[d] = reply[d]
<1> DEFINE Stay == /\ pc'[d] = pc[d] /\ req'[d] = req[d]
                   /\ local'[d] = local[d] /\ reply'[d] = reply[d]
<1>1. ASSUME NEW code, NEW server, NEW paths, Answer(c, code, server, paths) PROVE Stay
  BY <1>1 DEF Answer, ThreadsOK
<1>2. ASSUME NEW code, Ack(c) \/ Nack(c, code) PROVE Stay
  BY <1>1, <1>2 DEF Ack, Nack
<1>3. ASSUME NEW where, NEW ptrs, Goto(c, where, ptrs) PROVE Stay
  BY <1>3 DEF Goto, ThreadsOK
<1>4. ASSUME NEW next, Rpc(c, next) PROVE Stay
  BY <1>2, <1>3, <1>4 DEF Rpc
<1>5. Accept(c) \/ NoThread(c) \/ UseAfterFree(c) \/ Reply(c) => Stay
  BY DEF Accept, NoThread, UseAfterFree, ReadFreed, threads, Reply, ThreadsOK
<1> HIDE DEF Stay
<1>6. UnknownOperation(c) \/ RegisterEnd(c) \/ RegisterFull(c) \/ ListFails(c) => Stay
  BY <1>2 DEF UnknownOperation, RegisterEnd, RegisterFull, ListFails
<1>7. CreateUpdate(c) \/ CopyUpdate(c) \/ DeleteCache(c) => Stay
  BY <1>2 DEF CreateUpdate, CopyUpdate, DeleteCache
<1>8. RegisterStart(c) \/ RegisterPath(c) \/ DeleteTrie(c) => Stay
  BY <1>3 DEF RegisterStart, RegisterPath, DeleteTrie
<1>9. LookupPut(c) \/ LookupCache(c) => Stay
  BY <1>3 DEF LookupPut, LookupCache
<1>10. CreateRpc(c) \/ DeleteRpc(c) \/ CopyRpc(c) => Stay
  BY <1>4 DEF CreateRpc, DeleteRpc, CopyRpc
<1>11. CreateCheck(c) \/ DeleteFind(c) \/ CopySource(c) \/ LookupTrie(c) => Stay
  BY <1>2, <1>3 DEF CreateCheck, DeleteFind, CopySource, LookupTrie
<1>12. CopyDest(c) \/ CreatePick(c) \/ CopyPick(c) => Stay
  BY <1>2, <1>3 DEF CopyDest, CreatePick, CopyPick
<1>13. ListPaths(c) \/ LookupAnswer(c) => Stay
  BY <1>1 DEF ListPaths, LookupAnswer
<1>14. Stay
  BY <1>5, <1>6, <1>7, <1>8, <1>9, <1>10, <1>11, <1>12, <1>13 DEF Step, Run, Locked, Call
<1> QED
  BY <1>14 DEF Stay

\* A step of NamingHistory is a step of the naming server.
LEMMA EventsAreSteps ==
    ASSUME NEW c \in Conn, Event(c) \/ Quietly(c)
    PROVE  Step(c)
BY DEF Event, Quietly, Step, Run, Locked, Call

\* NamingHistory only watches: what it adds restricts no behaviour of the server.
LEMMA HistoryWatches == [HNext]_hvars => [Next]_vars
<1>1. CASE HNext
  <2>1. ASSUME ~fault, NEW c \in Conn, Event(c) \/ Quietly(c) PROVE Next
    BY <2>1, EventsAreSteps DEF Next, Step
  <2>2. HRestart => Next
    BY DEF HRestart, Next
  <2> QED
    BY <1>1, <2>1, <2>2 DEF HNext
<1>2. CASE UNCHANGED hvars
  BY <1>2 DEF hvars
<1> QED
  BY <1>1, <1>2

\* The positions at which a thread holds the mutex or something it answers with.
Marked == Holding \cup {"lookup_put", "lookup_answer"}

Plain(c) ==
    /\ UNCHANGED <<registered_ss, num_registered_ss, trie, placed, cache, history>>
    /\ \/ UNCHANGED <<pc, req, local>>
       \/ pc[c] \notin Marked /\ pc'[c] \notin Marked

\* What CREATE and COPY end with.
Places(c, p, i) ==
    /\ p \in Path /\ i \in Slot /\ registered_ss[i].server # Null
    /\ Place(p, i) /\ Placing(p)
    /\ UNCHANGED <<num_registered_ss, cache>>
    /\ pc[c] \notin Marked /\ pc'[c] \notin Marked

\* The steps that leave all but their own thread and the turn of the servers.
LEMMA PlainSteps ==
    ASSUME Inv, NEW c \in Conn, Quietly(c), UNCHANGED history,
           ~RegisterStart(c), ~RegisterEnd(c), LookupTrie(c) => trie[req[c].path] = Null
    PROVE  Plain(c)
<1>1. ThreadsOK
  BY DEF Inv, TypeOK
<1>2. CASE Accept(c)
  <2>1. PICK r \in Request : pc' = [pc EXCEPT ![c] = r.op]
    BY <1>2 DEF Accept
  <2>2. r.op \in {"REGISTER_SS", "LIST_PATHS", "UNKNOWN", "COPY_FILE"} \cup PathOperation
    BY DEF Request
  <2>3. pc'[c] = r.op /\ pc[c] = "idle"
    BY <1>1, <1>2, <2>1 DEF Accept, ThreadsOK
  <2>4. pc[c] \notin Marked /\ pc'[c] \notin Marked
    BY <2>2, <2>3 DEF PathOperation, Marked, Holding
  <2> QED
    BY <1>2, <2>4 DEF Accept, Plain, servers
<1>3. CASE NoThread(c) \/ Reply(c)
  <2>1. pc[c] \in {"idle", "reply"} /\ pc'[c] \in {"idle", "unserved"}
    BY <1>1, <1>3 DEF NoThread, Reply, ThreadsOK
  <2>2. pc[c] \notin Marked /\ pc'[c] \notin Marked
    BY <2>1 DEF Marked, Holding
  <2> QED
    BY <1>3, <2>2 DEF NoThread, Reply, Plain, servers
<1>4. CASE UnknownOperation(c) \/ RegisterFull(c) \/ ListFails(c)
  <2>1. /\ pc[c] \in {"UNKNOWN", "REGISTER_SS", "LIST_PATHS"}
        /\ \E code : Nack(c, code)
    BY <1>4 DEF UnknownOperation, RegisterFull, ListFails
  <2>2. pc'[c] = "reply"
    BY <1>1, <2>1, AckMoves
  <2>3. pc[c] \notin Marked /\ pc'[c] \notin Marked
    BY <2>1, <2>2 DEF Marked, Holding
  <2> QED
    BY <1>4, <2>3 DEF UnknownOperation, RegisterFull, ListFails, Plain, servers
<1>5. CASE ListPaths(c)
  <2>1. pc[c] = "LIST_PATHS" /\ pc'[c] = "reply"
    BY <1>1, <1>5, AnswerMoves DEF ListPaths
  <2> QED
    BY <1>5, <2>1 DEF ListPaths, Plain, servers, Marked, Holding
<1>6. CASE CreateRpc(c) \/ DeleteRpc(c) \/ CopyRpc(c)
  <2>1. /\ pc[c] \in {"create_rpc", "delete_rpc", "copy_rpc"}
        /\ \E next \in {"create_update", "delete_trie", "copy_update"} : Rpc(c, next)
    BY <1>6 DEF CreateRpc, DeleteRpc, CopyRpc
  <2>2. pc'[c] \in {"create_update", "delete_trie", "copy_update", "reply"}
    BY <1>1, <2>1, RpcMoves
  <2>3. pc[c] \notin Marked /\ pc'[c] \notin Marked
    BY <2>1, <2>2 DEF Marked, Holding
  <2> QED
    BY <1>6, <2>3 DEF CreateRpc, DeleteRpc, CopyRpc, Plain, servers
<1>7. CASE CreateCheck(c) \/ DeleteFind(c) \/ CopySource(c)
  <2>1. /\ pc[c] \in {"CREATE_FILE", "DELETE_FILE", "COPY_FILE"}
        /\ \/ \E code : Nack(c, code)
           \/ \E where \in {"create_pick", "delete_rpc", "copy_dest"} :
                  \E ptrs : Goto(c, where, ptrs)
    BY <1>7 DEF CreateCheck, DeleteFind, CopySource
  <2>2. pc'[c] \in {"create_pick", "delete_rpc", "copy_dest", "reply"}
    BY <1>1, <2>1, AckMoves, GotoMoves
  <2>3. pc[c] \notin Marked /\ pc'[c] \notin Marked
    BY <2>1, <2>2 DEF Marked, Holding
  <2> QED
    BY <1>7, <2>3 DEF CreateCheck, DeleteFind, CopySource, Plain, servers
<1>8. CASE CopyDest(c) \/ CreatePick(c) \/ CopyPick(c)
  <2>1. /\ pc[c] \in {"copy_dest", "create_pick", "copy_pick"}
        /\ \/ \E code : Nack(c, code)
           \/ \E where \in {"copy_pick", "copy_rpc", "create_rpc"} :
                  \E ptrs : Goto(c, where, ptrs)
    BY <1>8 DEF CopyDest, CreatePick, CopyPick
  <2>2. pc'[c] \in {"copy_pick", "copy_rpc", "create_rpc", "reply"}
    BY <1>1, <2>1, AckMoves, GotoMoves
  <2>3. pc[c] \notin Marked /\ pc'[c] \notin Marked
    BY <2>1, <2>2 DEF Marked, Holding
  <2>4. UNCHANGED <<registered_ss, num_registered_ss, trie, placed, cache>>
    BY <1>8 DEF CopyDest, CreatePick, CopyPick, servers
  <2> QED
    BY <2>3, <2>4 DEF Plain
<1>9. CASE CopyUpdate(c) /\ local[c].exists
  <2>1. pc[c] = "copy_update" /\ pc'[c] = "reply"
    BY <1>1, <1>9, AckMoves DEF CopyUpdate
  <2> QED
    BY <1>9, <2>1 DEF CopyUpdate, Plain, Marked, Holding
<1>10. CASE LookupCache(c) /\ Found(cache, req[c].path) = Null
  <2>1. pc[c] = "LOOKUP" /\ pc'[c] = "lookup_trie" /\ cache' = cache
    BY <1>1, <1>10, GotoMoves DEF LookupCache, lru_get
  <2> QED
    BY <1>10, <2>1 DEF LookupCache, Plain, servers, Marked, Holding
<1>11. CASE LookupTrie(c)
  <2>1. trie[req[c].path] = Null
    BY <1>11
  <2>2. pc[c] = "lookup_trie" /\ pc'[c] = "reply"
    BY <1>1, <1>11, <2>1, AckMoves DEF LookupTrie
  <2> QED
    BY <1>11, <2>2 DEF LookupTrie, Plain, servers, Marked, Holding
<1>12. CASE UseAfterFree(c)
  BY <1>12 DEF UseAfterFree, ReadFreed, Plain, servers, threads
<1> QED
  BY <1>2, <1>3, <1>4, <1>5, <1>6, <1>7, <1>8, <1>9, <1>10, <1>11, <1>12 DEF Quietly

\* The kinds of steps there are.
LEMMA StepKinds ==
    ASSUME Inv, NEW c \in Conn, Event(c) \/ (Quietly(c) /\ UNCHANGED history)
    PROVE  /\ \A d \in Conn \ {c} :
                  pc'[d] = pc[d] /\ req'[d] = req[d] /\ local'[d] = local[d]
           /\ \/ Plain(c)
              \/ \E p \in Path, i \in Slot : Places(c, p, i)
              \/ RegisterStart(c) /\ UNCHANGED history
              \/ RegisterPath(c) /\ Placing(Head(local[c].rest))
              \/ RegisterEnd(c) /\ UNCHANGED history
              \/ DeleteTrie(c) /\ Clearing(req[c].path, local[c].ss)
              \/ DeleteCache(c) /\ Forgetting(req[c].path)
              \/ LookupCache(c) /\ Found(cache, req[c].path) # Null /\ Overtaking(c)
              \/ LookupTrie(c) /\ trie[req[c].path] # Null /\ UNCHANGED history
              \/ LookupPut(c) /\ Overtaking(c)
              \/ LookupAnswer(c) /\ Answered(c)
<1>1. ThreadsOK
  BY DEF Inv, TypeOK
<1>2. \A d \in Conn \ {c} : pc'[d] = pc[d] /\ req'[d] = req[d] /\ local'[d] = local[d]
  BY <1>1, EventsAreSteps, OthersStay
<1>3. CASE CreateUpdate(c) /\ Placing(req[c].path)
  <2> DEFINE p == req[c].path
             i == local[c].ss
  <2>1. pc[c] = "create_update" /\ pc'[c] = "reply"
    BY <1>1, <1>3, AckMoves DEF CreateUpdate
  <2>2. p \in Path /\ i # Null
    BY <2>1 DEF Inv, ThreadsFit, ThreadFits, AtPath, AtServer
  <2>3. i \in Slot /\ registered_ss[i].server # Null
    BY <2>2, LocalFacts, NullAssumption
  <2>4. Places(c, p, i)
    BY <1>3, <2>1, <2>2, <2>3 DEF CreateUpdate, Places, Marked, Holding
  <2> QED
    BY <1>2, <2>2, <2>3, <2>4
<1>4. CASE CopyUpdate(c) /\ ~local[c].exists /\ Placing(req[c].path2)
  <2> DEFINE p == req[c].path2
             i == local[c].dest
  <2>1. pc[c] = "copy_update" /\ pc'[c] = "reply"
    BY <1>1, <1>4, AckMoves DEF CopyUpdate
  <2>2. p \in Path /\ i # Null
    BY <2>1 DEF Inv, ThreadsFit, ThreadFits, AtCopy
  <2>3. i \in Slot /\ registered_ss[i].server # Null
    BY <2>2, LocalFacts, NullAssumption
  <2>4. Places(c, p, i)
    BY <1>4, <2>1, <2>2, <2>3 DEF CopyUpdate, Places, Marked, Holding
  <2> QED
    BY <1>2, <2>2, <2>3, <2>4
<1>5. CASE Quietly(c) /\ UNCHANGED history
  BY <1>2, <1>5, PlainSteps
<1> QED
  BY <1>2, <1>3, <1>4, <1>5 DEF Event

-----------------------------------------------------------------------------
(* What the history variables hold.                                        *)

\* The lists and the history hold paths, and the ages stay below the limit.
LEMMA HistoryStep ==
    ASSUME Inv, HistoryOK, [HNext]_hvars
    PROVE  HistoryOK'
<1>1. LRU_CACHE_SIZE \in Nat
  BY SizeAssumption
<1>2. CASE HRestart
  BY <1>1, <1>2 DEF HRestart, HistoryOK
<1>3. CASE UNCHANGED hvars
  BY <1>3 DEF hvars, history, HistoryOK
<1>4. ASSUME NEW p \in Path, Placing(p) PROVE HistoryOK'
  BY <1>4 DEF Placing, HistoryOK
<1>5. ASSUME NEW c \in Conn, Event(c) \/ (Quietly(c) /\ UNCHANGED history)
      PROVE  HistoryOK'
  <2>1. CASE Plain(c)
    BY <2>1 DEF Plain, history, HistoryOK
  <2>2. CASE \E p \in Path, i \in Slot : Places(c, p, i)
    BY <1>4, <2>2 DEF Places
  <2>3. CASE RegisterPath(c) /\ Placing(Head(local[c].rest))
    <3>1. local[c].rest \in Seq(Path) /\ local[c].rest # << >>
      BY <2>3, LocalFacts DEF RegisterPath, Pointers
    <3>2. Head(local[c].rest) \in Path
      BY <3>1
    <3> QED
      BY <1>4, <2>3, <3>2
  <2>4. CASE /\ DeleteTrie(c) \/ DeleteCache(c)
             /\ Clearing(req[c].path, local[c].ss) \/ Forgetting(req[c].path)
    <3>1. req[c].path \in Path
      BY <2>4 DEF DeleteTrie, DeleteCache, Inv, ThreadsFit, ThreadFits, AtPath
    <3> QED
      BY <1>1, <2>4, <3>1 DEF Clearing, Forgetting, HistoryOK
  <2>5. CASE Overtaking(c)
    <3>1. \A d \in Conn : age[d] \in 0 .. LRU_CACHE_SIZE
      BY DEF HistoryOK
    <3>2. \A d \in Conn : age'[d] \in 0 .. LRU_CACHE_SIZE
      BY <1>1, <2>5, <3>1 DEF Overtaking
    <3> QED
      BY <2>5, <3>2 DEF Overtaking, HistoryOK
  <2>6. CASE Answered(c)
    BY <1>1, <2>6 DEF Answered, HistoryOK
  <2>7. CASE UNCHANGED history
    BY <2>7 DEF history, HistoryOK
  <2> QED
    BY <1>5, <2>1, <2>2, <2>3, <2>4, <2>5, <2>6, <2>7, StepKinds
<1> QED
  BY <1>2, <1>3, <1>5 DEF HNext

\* The invariants of the naming server hold of NamingHistory too.
LEMMA HistoryInvariance == HSpec => [](Inv /\ HistoryOK)
<1>1. HInit => Inv /\ HistoryOK
  BY InvInit, SizeAssumption DEF HInit, HistoryOK
<1>2. Inv /\ HistoryOK /\ [HNext]_hvars => (Inv /\ HistoryOK)'
  BY HistoryWatches, HistoryStep, InvStep
<1> QED
  BY <1>1, <1>2, PTL DEF HSpec

-----------------------------------------------------------------------------
(***************************************************************************)
(* The lists of paths and the trie.  Two sections take several steps.      *)
(* While a registration goes on, the paths it has mapped already come      *)
(* before those it has not; between the two clearings of a DELETE its path *)
(* is listed once at most, by the entry it was found in, unless contested. *)
(***************************************************************************)
PathsOf(i) == registered_ss[i].accessible_paths

\* How far the registration of c has come.
Mapping(c) == \E m \in 1 .. Len(PathsOf(num_registered_ss)) + 1 :
    LET paths == PathsOf(num_registered_ss)
    IN  /\ local[c].rest = SubSeq(paths, m, Len(paths))
        /\ \A k \in 1 .. m - 1 : paths[k] \in contested \/ trie[paths[k]] # Null

MappingHolds == \A c \in Conn : pc[c] = "register_paths" => Mapping(c)

\* What is left of the path a DELETE has cleared.
Leaving(c) ==
    LET p == req[c].path
    IN  p \notin contested =>
            \A i \in Slot : p \in ToSet(PathsOf(i)) =>
                i = local[c].ss /\ ListedOnce(PathsOf(i), p)

LeavingHolds == \A c \in Conn : pc[c] = "delete_cache" => Leaving(c)

ListsInv == ListsMatchTrie /\ MappingHolds /\ LeavingHolds

\* At most one thread is inside the two sections.
LEMMA OneHolder ==
    ASSUME Inv, NEW c \in Conn, NEW d \in Conn, pc[c] \in Holding, pc[d] \in Holding
    PROVE  c = d
BY DEF Inv, Owner

\* When the mutex is free, nobody is.
LEMMA NoHolder ==
    ASSUME Inv, MutexFree
    PROVE  /\ \A c \in Conn : pc[c] \notin Holding
           /\ \A p : ~BeingDeleted(p)
           /\ \A i, p : ~Awaited(i, p)
<1>1. \A c \in Conn : pc[c] \notin Holding
  BY ConnAssumption DEF Inv, Owner, MutexFree
<1> QED
  BY <1>1 DEF BeingDeleted, Awaited, Holding

\* A list, taken apart.
LEMMA PathsFacts ==
    ASSUME Inv, NEW i \in Slot
    PROVE  PathsOf(i) \in Seq(Path) /\ ToSet(PathsOf(i)) \subseteq Path
BY DEF Inv, TypeOK, ServersOK, PathsOf, ToSet

\* Taking a path from a list keeps what is said of the others, and a path listed once
\* is not listed any more.
LEMMA OnceRemoved ==
    ASSUME NEW l \in Seq(Path), NEW p \in Path
    PROVE  LET r == RemoveFirst(l, p)
           IN  /\ ToSet(r) \subseteq ToSet(l)
               /\ \A q \in Path : ListedOnce(l, q) => ListedOnce(r, q)
               /\ ListedOnce(l, p) => p \notin ToSet(r)
<1> DEFINE r == RemoveFirst(l, p)
<1>1. CASE p \notin ToSet(l) /\ r = l
  BY <1>1
<1>2. CASE \E k \in DOMAIN l : l[k] = p /\ r = RemoveAt(l, k)
  <2>1. PICK k \in DOMAIN l : l[k] = p /\ r = RemoveAt(l, k)
    BY <1>2
  <2>2. /\ r \in Seq(Path) /\ Len(r) = Len(l) - 1
        /\ \A j \in 1 .. Len(l) - 1 : r[j] = IF j < k THEN l[j] ELSE l[j + 1]
    BY <2>1, RemoveAtElements
  <2> HIDE DEF r
  <2> DEFINE at(j) == IF j < k THEN j ELSE j + 1
  <2>3. /\ DOMAIN r = 1 .. Len(l) - 1 /\ DOMAIN l = 1 .. Len(l)
        /\ Len(l) \in Nat /\ k \in 1 .. Len(l)
    BY <2>2
  <2>4. \A j \in DOMAIN r : at(j) \in DOMAIN l /\ r[j] = l[at(j)] /\ at(j) # k
    BY <2>2, <2>3
  <2>5. \A i, j \in DOMAIN r : at(i) = at(j) => i = j
    BY <2>3
  <2> HIDE DEF at
  <2>6. ToSet(r) \subseteq ToSet(l)
    BY <2>4 DEF ToSet
  <2>7. \A q \in Path : ListedOnce(l, q) => ListedOnce(r, q)
    BY <2>4, <2>5 DEF ListedOnce
  <2>8. ListedOnce(l, p) => p \notin ToSet(r)
    BY <2>1, <2>4 DEF ListedOnce, ToSet
  <2> QED
    BY <2>6, <2>7, <2>8 DEF r
<1> QED
  BY <1>1, <1>2, RemoveFirstPlace

\* Adding a path to a list keeps what is said of the others, and a path that was not
\* listed is listed once.
LEMMA OnceListed ==
    ASSUME NEW l \in Seq(Path), NEW p \in Path
    PROVE  /\ ToSet(Listed(l, p)) \subseteq ToSet(l) \cup {p}
           /\ \A q \in Path \ {p} : ListedOnce(l, q) => ListedOnce(Listed(l, p), q)
           /\ p \notin ToSet(l) => ListedOnce(Listed(l, p), p)
<1> DEFINE a == Append(l, p)
<1>1. /\ DOMAIN l = 1 .. Len(l) /\ Len(l) \in Nat /\ DOMAIN a = 1 .. Len(l) + 1
      /\ \A k \in 1 .. Len(l) : a[k] = l[k]
      /\ a[Len(l) + 1] = p
  OBVIOUS
<1> HIDE DEF a
<1>2. \A k \in DOMAIN a : k \in DOMAIN l \/ k = Len(l) + 1
  BY <1>1
<1>3. ToSet(a) \subseteq ToSet(l) \cup {p}
  BY <1>1, <1>2 DEF ToSet
<1>4. \A q \in Path \ {p} : ListedOnce(l, q) => ListedOnce(a, q)
  BY <1>1, <1>2 DEF ListedOnce
<1>5. p \notin ToSet(l) => ListedOnce(a, p)
  BY <1>1, <1>2 DEF ListedOnce, ToSet
<1>6. p \notin ToSet(l) => ListedOnce(l, p)
  BY DEF ListedOnce, ToSet
<1> QED
  BY <1>3, <1>4, <1>5, <1>6 DEF Listed, a

\* What leaves the lists, the trie and the two sections alone keeps the agreement.
LEMMA ListsKept ==
    ASSUME Inv, ListsInv, NEW c \in Conn,
           UNCHANGED <<registered_ss, num_registered_ss, trie, contested>>,
           \A d \in Conn \ {c} : pc'[d] = pc[d] /\ req'[d] = req[d] /\ local'[d] = local[d],
           \/ UNCHANGED <<pc, req, local>>
           \/ pc[c] \notin Holding /\ pc'[c] \notin Holding
    PROVE  ListsInv'
<1>1. \A d \in Conn : /\ pc'[d] \in Holding <=> pc[d] \in Holding
                      /\ pc[d] \in Holding =>
                             pc'[d] = pc[d] /\ req'[d] = req[d] /\ local'[d] = local[d]
  OBVIOUS
<1>2. \A p : BeingDeleted(p) => BeingDeleted(p)'
  BY <1>1 DEF BeingDeleted, Holding
<1>3. \A i, p : Awaited(i, p) => Awaited(i, p)'
  BY <1>1 DEF Awaited, Holding
<1>4. \A i \in Slot : PathsOf(i)' = PathsOf(i)
  BY DEF PathsOf
<1>5. ListsMatchTrie'
  BY <1>2, <1>3, <1>4 DEF ListsInv, ListsMatchTrie, PathsOf
<1>6. MappingHolds'
  <2> SUFFICES ASSUME NEW d \in Conn, pc'[d] = "register_paths" PROVE Mapping(d)'
    BY DEF MappingHolds
  <2>1. pc[d] = "register_paths" /\ local'[d] = local[d]
    BY <1>1 DEF Holding
  <2>2. Mapping(d)
    BY <2>1 DEF ListsInv, MappingHolds
  <2> QED
    BY <2>1, <2>2 DEF Mapping, PathsOf
<1>7. LeavingHolds'
  <2> SUFFICES ASSUME NEW d \in Conn, pc'[d] = "delete_cache" PROVE Leaving(d)'
    BY DEF LeavingHolds
  <2>1. pc[d] = "delete_cache" /\ local'[d] = local[d] /\ req'[d] = req[d]
    BY <1>1 DEF Holding
  <2>2. Leaving(d)
    BY <2>1 DEF ListsInv, LeavingHolds
  <2> QED
    BY <2>1, <2>2 DEF Leaving, PathsOf
<1> QED
  BY <1>5, <1>6, <1>7 DEF ListsInv

\* A path is placed by CREATE or COPY: listed already only if it was mapped, or contested.
LEMMA ListsPlaced ==
    ASSUME Inv, HistoryOK, ListsInv, NEW c \in Conn, NEW p \in Path, NEW i \in Slot,
           Places(c, p, i),
           \A d \in Conn \ {c} : pc'[d] = pc[d] /\ req'[d] = req[d] /\ local'[d] = local[d]
    PROVE  ListsInv'
<1> DEFINE l == PathsOf(i)
<1>1. /\ MutexFree /\ pc'[c] \notin Holding
      /\ trie' = [trie EXCEPT ![p] = i]
      /\ registered_ss' = [registered_ss EXCEPT ![i].accessible_paths = Listed(l, p)]
      /\ contested' = IF trie[p] = Null THEN contested ELSE contested \cup {p}
  BY DEF Places, Place, Placing, trie_insert, PathsOf, Marked
<1>2. /\ \A d \in Conn : pc'[d] \notin Holding
      /\ \A q : ~BeingDeleted(q)
      /\ \A k, q : ~Awaited(k, q)
  BY <1>1, NoHolder
<1>3. \A k \in Slot : /\ PathsOf(k) \in Seq(Path) /\ ToSet(PathsOf(k)) \subseteq Path
                      /\ PathsOf(k)' = IF k = i THEN Listed(l, p) ELSE PathsOf(k)
  BY <1>1, PathsFacts DEF PathsOf, Inv, TypeOK, ServersOK
<1>4. trie'[p] = i /\ \A q \in Path : q # p => trie'[q] = trie[q]
  BY <1>1 DEF Inv, TypeOK, SharedOK
<1>5. \A k \in Slot : \A q \in ToSet(PathsOf(k)) :
          q \in contested \/ (trie[q] = k /\ ListedOnce(PathsOf(k), q))
  BY <1>2 DEF ListsInv, ListsMatchTrie, PathsOf
<1>6. /\ ToSet(Listed(l, p)) \subseteq ToSet(l) \cup {p}
      /\ \A q \in Path \ {p} : ListedOnce(l, q) => ListedOnce(Listed(l, p), q)
      /\ p \notin ToSet(l) => ListedOnce(Listed(l, p), p)
  BY <1>3, OnceListed
<1> HIDE DEF l
<1>7. p \in contested' \/ \A k \in Slot : p \notin ToSet(PathsOf(k))
  BY <1>1, <1>5, SlotAssumption
<1>8. ASSUME NEW k \in Slot, NEW q \in ToSet(PathsOf(k)')
      PROVE  q \in contested' \/ (trie'[q] = k /\ ListedOnce(PathsOf(k)', q))
  <2>1. contested \subseteq contested'
    BY <1>1
  <2>2. CASE q = p
    BY <1>3, <1>4, <1>6, <1>7, <2>2 DEF l
  <2>3. CASE q # p
    <3>1. q \in Path /\ q \in ToSet(PathsOf(k))
      BY <1>3, <1>6, <2>3 DEF l
    <3>2. ListedOnce(PathsOf(k), q) => ListedOnce(PathsOf(k)', q)
      BY <1>3, <1>6, <2>3, <3>1 DEF l
    <3> QED
      BY <1>4, <1>5, <2>1, <2>3, <3>1, <3>2
  <2> QED
    BY <2>2, <2>3
<1>9. ListsMatchTrie'
  BY <1>8 DEF ListsMatchTrie, PathsOf
<1>10. MappingHolds' /\ LeavingHolds'
  BY <1>2 DEF MappingHolds, LeavingHolds, Holding
<1> QED
  BY <1>9, <1>10 DEF ListsInv

\* A registration begins: none of the paths it lists is mapped yet.
LEMMA ListsRegisterStart ==
    ASSUME Inv, Inv', ListsInv, NEW c \in Conn, RegisterStart(c), UNCHANGED history,
           \A d \in Conn \ {c} : pc'[d] = pc[d] /\ req'[d] = req[d] /\ local'[d] = local[d]
    PROVE  ListsInv'
<1> DEFINE n == num_registered_ss
           e == Exports[req[c].server]
           ptrs == [NoLocal EXCEPT !.rest = e]
<1>1. /\ pc[c] = "REGISTER_SS" /\ MutexFree
      /\ registered_ss' = [registered_ss EXCEPT ![n] =
             [server |-> req[c].server, accessible_paths |-> e]]
      /\ Goto(c, "register_paths", ptrs)
      /\ UNCHANGED <<num_registered_ss, trie, contested>>
  BY DEF RegisterStart, history
<1>2. ptrs.rest = e
  BY DEF NoLocal
<1> HIDE DEF ptrs
<1>3. pc'[c] = "register_paths" /\ local'[c].rest = e
  BY <1>1, <1>2, GotoMoves DEF Inv, TypeOK
<1>4. /\ \A d \in Conn : pc'[d] \in Holding => d = c
      /\ \A q : ~BeingDeleted(q)
      /\ \A k, q : ~Awaited(k, q)
  BY <1>1, NoHolder
<1>5. n \in Slot
  BY <1>3 DEF Inv, Filled, RegisterStart, Slot, ServersOK, TypeOK
<1>6. /\ PathsOf(n)' = e
      /\ \A k \in Slot : k # n => PathsOf(k)' = PathsOf(k)
  BY <1>1, <1>5 DEF PathsOf, Inv, TypeOK, ServersOK
<1>7. ListsMatchTrie'
  <2> SUFFICES ASSUME NEW k \in Slot, NEW q \in ToSet(PathsOf(k)')
               PROVE  \/ q \in contested \/ Awaited(k, q)'
                      \/ trie[q] = k /\ ListedOnce(PathsOf(k)', q)
    BY <1>1 DEF ListsMatchTrie, PathsOf
  <2>1. CASE k = n
    BY <1>1, <1>3, <1>6, <2>1 DEF Awaited
  <2>2. CASE k # n
    BY <1>4, <1>6, <2>2 DEF ListsInv, ListsMatchTrie, PathsOf
  <2> QED
    BY <2>1, <2>2
<1>8. Mapping(c)'
  <2>1. e \in Seq(Path)
    BY <1>1, ExportsAssumption DEF Inv, ThreadsFit, ThreadFits, AtRegister
  <2> HIDE DEF e, n
  <2>2. /\ 1 \in 1 .. Len(e) + 1
        /\ e = SubSeq(e, 1, Len(e))
        /\ 1 .. 1 - 1 = {}
    BY <2>1
  <2>3. PathsOf(num_registered_ss)' = e
    BY <1>1, <1>6 DEF n
  <2> QED
    BY <1>3, <2>2, <2>3 DEF Mapping
<1>9. MappingHolds' /\ LeavingHolds'
  BY <1>3, <1>4, <1>8 DEF MappingHolds, LeavingHolds, Holding
<1> QED
  BY <1>7, <1>9 DEF ListsInv

\* A registration maps its next path: a path it lists twice has become contested, and so
\* has one another entry lists.
LEMMA ListsRegisterPath ==
    ASSUME Inv, HistoryOK, ListsInv, NEW c \in Conn, RegisterPath(c),
           Placing(Head(local[c].rest)),
           \A d \in Conn \ {c} : pc'[d] = pc[d] /\ req'[d] = req[d] /\ local'[d] = local[d]
    PROVE  ListsInv'
<1> DEFINE n == num_registered_ss
           rest == local[c].rest
           p == Head(rest)
           l == PathsOf(n)
           ptrs == [local[c] EXCEPT !.rest = Tail(rest)]
<1>1. /\ pc[c] = "register_paths" /\ rest # << >>
      /\ trie' = [trie EXCEPT ![p] = n]
      /\ UNCHANGED <<registered_ss, num_registered_ss>>
      /\ contested' = IF trie[p] = Null THEN contested ELSE contested \cup {p}
      /\ Goto(c, "register_paths", ptrs)
  BY DEF RegisterPath, trie_insert, Placing, servers
<1>2. local[c] \in Pointers /\ rest \in Seq(Path)
  BY LocalFacts DEF Pointers
<1>3. p \in Path /\ Tail(rest) \in Seq(Path)
  BY <1>1, <1>2
<1>4. ptrs.rest = Tail(rest)
  BY <1>2 DEF Pointers
<1> HIDE DEF ptrs
<1>5. pc'[c] = "register_paths" /\ local'[c].rest = Tail(rest)
  BY <1>1, <1>4, GotoMoves DEF Inv, TypeOK
<1>6. n \in Slot
  BY <1>1 DEF Inv, Filled
<1>7. /\ \A d \in Conn : pc[d] \in Holding \/ pc'[d] \in Holding => d = c
      /\ \A q : ~BeingDeleted(q)
  BY <1>1, OneHolder DEF Holding, BeingDeleted
<1>8. \A k \in Slot : PathsOf(k)' = PathsOf(k) /\ ToSet(PathsOf(k)) \subseteq Path
  BY <1>1, PathsFacts DEF PathsOf
<1>9. trie'[p] = n /\ \A q \in Path : q # p => trie'[q] = trie[q]
  BY <1>1, <1>3 DEF Inv, TypeOK, SharedOK
<1>10. \A k, q : Awaited(k, q) <=> k = n /\ q \in ToSet(rest)
  BY <1>1, <1>7 DEF Awaited, Holding
<1>11. \A k, q : k = n /\ q \in ToSet(Tail(rest)) => Awaited(k, q)'
  BY <1>1, <1>5, <1>7 DEF Awaited, Holding
<1>12. PICK m \in 1 .. Len(l) + 1 :
           /\ rest = SubSeq(l, m, Len(l))
           /\ \A k \in 1 .. m - 1 : l[k] \in contested \/ trie[l[k]] # Null
  BY <1>1 DEF ListsInv, MappingHolds, Mapping
<1>13. l \in Seq(Path)
  BY <1>6, PathsFacts
<1> HIDE DEF l, n
<1>14. /\ m \in 1 .. Len(l) /\ p = l[m] /\ Tail(rest) = SubSeq(l, m + 1, Len(l))
       /\ \A q : q \in ToSet(rest) <=> q = p \/ q \in ToSet(Tail(rest))
       /\ \A k \in m + 1 .. Len(l) : l[k] \in ToSet(Tail(rest))
  <2>1. /\ Len(l) \in Nat /\ m \in Nat /\ m >= 1 /\ m <= Len(l) + 1
        /\ Len(rest) = Len(l) - m + 1
        /\ \A j \in 1 .. Len(l) - m + 1 : rest[j] = l[m - 1 + j]
    BY <1>12, <1>13
  <2>2. m \in 1 .. Len(l)
    BY <1>1, <1>2, <2>1
  <2>3. p = l[m]
    BY <1>1, <1>2, <2>1, <2>2
  <2>4. /\ Tail(rest) \in Seq(Path) /\ Len(Tail(rest)) = Len(l) - m
        /\ \A j \in 1 .. Len(l) - m : Tail(rest)[j] = rest[j + 1]
    BY <1>1, <1>2, <2>1, <2>2
  <2>5. \A j \in 1 .. Len(l) - m : Tail(rest)[j] = l[m + j]
    <3> SUFFICES ASSUME NEW j \in 1 .. Len(l) - m PROVE Tail(rest)[j] = l[m + j]
      OBVIOUS
    <3>1. j + 1 \in 1 .. Len(l) - m + 1 /\ m - 1 + (j + 1) = m + j
      BY <2>1, <2>2
    <3> QED
      BY <2>1, <2>4, <3>1
  <2>6. Tail(rest) = SubSeq(l, m + 1, Len(l))
    BY <1>12, <1>13, <2>2
  <2>7. \A q : q \in ToSet(rest) <=> q = p \/ q \in ToSet(Tail(rest))
    <3> SUFFICES ASSUME NEW q
                 PROVE  q \in ToSet(rest) <=> q = p \/ q \in ToSet(Tail(rest))
      OBVIOUS
    <3>1. /\ DOMAIN rest = 1 .. Len(l) - m + 1
          /\ DOMAIN Tail(rest) = 1 .. Len(l) - m
      BY <1>2, <2>1, <2>4
    <3>2. ASSUME q \in ToSet(rest) PROVE q = p \/ q \in ToSet(Tail(rest))
      <4>1. PICK j \in 1 .. Len(l) - m + 1 : rest[j] = q
        BY <3>1, <3>2 DEF ToSet
      <4>2. CASE j = 1
        BY <4>1, <4>2, <2>1, <2>2, <2>3
      <4>3. CASE j # 1
        <5>1. j - 1 \in 1 .. Len(l) - m /\ Tail(rest)[j - 1] = q
          BY <4>1, <4>3, <2>1, <2>2, <2>4
        <5> QED
          BY <3>1, <5>1 DEF ToSet
      <4> QED
        BY <4>2, <4>3
    <3>3. ASSUME q = p \/ q \in ToSet(Tail(rest)) PROVE q \in ToSet(rest)
      <4>1. CASE q = p
        <5>1. 1 \in 1 .. Len(l) - m + 1 /\ rest[1] = p
          BY <2>1, <2>2, <2>3
        <5> QED
          BY <3>1, <4>1, <5>1 DEF ToSet
      <4>2. CASE q \in ToSet(Tail(rest))
        <5>1. PICK j \in 1 .. Len(l) - m : Tail(rest)[j] = q
          BY <3>1, <4>2 DEF ToSet
        <5>2. j + 1 \in 1 .. Len(l) - m + 1 /\ rest[j + 1] = q
          BY <5>1, <2>1, <2>2, <2>4
        <5> QED
          BY <3>1, <5>2 DEF ToSet
      <4> QED
        BY <3>3, <4>1, <4>2
    <3> QED
      BY <3>2, <3>3
  <2>8. \A k \in m + 1 .. Len(l) : l[k] \in ToSet(Tail(rest))
    <3> SUFFICES ASSUME NEW k \in m + 1 .. Len(l) PROVE l[k] \in ToSet(Tail(rest))
      OBVIOUS
    <3>1. k - m \in 1 .. Len(l) - m /\ m + (k - m) = k
      BY <2>1, <2>2
    <3>2. Tail(rest)[k - m] = l[k]
      BY <2>5, <3>1
    <3>3. k - m \in DOMAIN Tail(rest)
      BY <2>4, <3>1
    <3> QED
      BY <3>2, <3>3 DEF ToSet
  <2> QED
    BY <2>2, <2>3, <2>6, <2>7, <2>8
<1> HIDE DEF p, rest
<1>15. ASSUME p \notin contested', p \notin ToSet(Tail(rest)) PROVE ListedOnce(l, p)
  <2>1. p \notin contested /\ trie[p] = Null
    BY <1>1, <1>15
  <2>2. \A k \in 1 .. Len(l) : l[k] = p => k = m
    BY <1>12, <1>13, <1>14, <1>15, <2>1
  <2> QED
    BY <1>13, <2>2 DEF ListedOnce
<1>16. ASSUME NEW k \in Slot, NEW q \in ToSet(PathsOf(k))
       PROVE  q \in contested' \/ Awaited(k, q)' \/ (trie'[q] = k /\ ListedOnce(PathsOf(k), q))
  <2>1. q \in contested \/ Awaited(k, q) \/ (trie[q] = k /\ ListedOnce(PathsOf(k), q))
    BY <1>7 DEF ListsInv, ListsMatchTrie, PathsOf
  <2>2. contested \subseteq contested'
    BY <1>1
  <2>3. CASE q # p
    <3>1. q \in Path /\ trie'[q] = trie[q]
      BY <1>8, <1>9, <2>3
    <3>2. Awaited(k, q) => k = n /\ q \in ToSet(Tail(rest))
      BY <1>10, <1>14, <2>3
    <3>3. Awaited(k, q) => Awaited(k, q)'
      BY <1>11, <3>2
    <3> QED
      BY <2>1, <2>2, <3>1, <3>3
  <2>4. CASE q = p /\ k = n
    <3>1. PathsOf(k) = l /\ trie'[q] = k
      BY <1>9, <2>4 DEF l
    <3>2. q \in ToSet(Tail(rest)) => Awaited(k, q)'
      BY <1>11, <2>4
    <3>3. q \notin contested' /\ q \notin ToSet(Tail(rest)) => ListedOnce(l, q)
      BY <1>15, <2>4
    <3> QED
      BY <3>1, <3>2, <3>3
  <2>5. CASE q = p /\ k # n
    <3>1. q \in contested \/ trie[p] = k
      BY <1>10, <2>1, <2>5
    <3> QED
      BY <1>1, <2>5, <3>1, SlotAssumption
  <2> QED
    BY <2>3, <2>4, <2>5
<1>17. ListsMatchTrie'
  BY <1>8, <1>16 DEF ListsMatchTrie, PathsOf
<1>18. Mapping(c)'
  <2>1. PathsOf(num_registered_ss)' = l
    BY <1>1, <1>6, <1>8 DEF l, n
  <2>2. m + 1 \in 1 .. Len(l) + 1 /\ local'[c].rest = SubSeq(l, m + 1, Len(l))
    BY <1>5, <1>13, <1>14
  <2>3. \A k \in 1 .. m : l[k] \in contested' \/ trie'[l[k]] # Null
    <3> SUFFICES ASSUME NEW k \in 1 .. m PROVE l[k] \in contested' \/ trie'[l[k]] # Null
      OBVIOUS
    <3>1. CASE k = m
      BY <1>6, <1>9, <1>14, <3>1, SlotAssumption
    <3>2. CASE k # m
      <4>1. k \in 1 .. m - 1 /\ l[k] \in Path
        BY <1>13, <1>14, <3>2
      <4> QED
        BY <1>1, <1>6, <1>9, <1>12, <4>1, SlotAssumption
    <3> QED
      BY <3>1, <3>2
  <2>4. (m + 1) - 1 = m
    BY <1>14
  <2> QED
    BY <2>1, <2>2, <2>3, <2>4 DEF Mapping
<1>19. MappingHolds' /\ LeavingHolds'
  BY <1>5, <1>7, <1>18 DEF MappingHolds, LeavingHolds, Holding
<1> QED
  BY <1>17, <1>19 DEF ListsInv

\* A registration ends: it has mapped all of its paths.
LEMMA ListsRegisterEnd ==
    ASSUME Inv, ListsInv, NEW c \in Conn, RegisterEnd(c), UNCHANGED history,
           \A d \in Conn \ {c} : pc'[d] = pc[d] /\ req'[d] = req[d] /\ local'[d] = local[d]
    PROVE  ListsInv'
<1>1. /\ pc[c] = "register_paths" /\ local[c].rest = << >>
      /\ UNCHANGED <<registered_ss, trie, contested>>
      /\ pc'[c] = "reply"
  BY AckMoves DEF RegisterEnd, history, Inv, TypeOK
<1>2. /\ \A d \in Conn : pc[d] \in Holding => d = c
      /\ \A q : ~BeingDeleted(q)
  BY <1>1, OneHolder DEF Holding, BeingDeleted
<1>3. \A k, q : ~Awaited(k, q)
  BY <1>1, <1>2 DEF Awaited, Holding, ToSet
<1>4. \A d \in Conn : pc'[d] \notin Holding
  BY <1>1, <1>2 DEF Holding
<1>5. ListsMatchTrie'
  BY <1>1, <1>2, <1>3 DEF ListsInv, ListsMatchTrie
<1>6. MappingHolds' /\ LeavingHolds'
  BY <1>4 DEF MappingHolds, LeavingHolds, Holding
<1> QED
  BY <1>5, <1>6 DEF ListsInv

\* DELETE clears the mapping: unless contested, the path is listed by the entry it was
\* found mapped to, or by none.
LEMMA ListsDeleteTrie ==
    ASSUME Inv, HistoryOK, ListsInv, NEW c \in Conn, DeleteTrie(c),
           Clearing(req[c].path, local[c].ss),
           \A d \in Conn \ {c} : pc'[d] = pc[d] /\ req'[d] = req[d] /\ local'[d] = local[d]
    PROVE  ListsInv'
<1> DEFINE p == req[c].path
           i == local[c].ss
<1>1. /\ pc[c] = "delete_trie" /\ MutexFree
      /\ UNCHANGED <<registered_ss, num_registered_ss>>
      /\ trie' = [trie EXCEPT ![p] = Null]
      /\ contested' = IF trie[p] \in {Null, i} THEN contested ELSE contested \cup {p}
      /\ pc'[c] = "delete_cache" /\ local'[c] = local[c] /\ req' = req
  BY GotoMoves DEF DeleteTrie, Clearing, Inv, TypeOK, servers
<1>2. /\ \A d \in Conn : pc'[d] \in Holding => d = c
      /\ \A q : ~BeingDeleted(q)
      /\ \A k, q : ~Awaited(k, q)
  BY <1>1, NoHolder
<1>3. \A q \in Path : q # p => trie'[q] = trie[q]
  BY <1>1 DEF Inv, TypeOK, SharedOK
<1>4. \A k \in Slot : PathsOf(k)' = PathsOf(k) /\ ToSet(PathsOf(k)) \subseteq Path
  BY <1>1, PathsFacts DEF PathsOf
<1>5. \A q : q = p => BeingDeleted(q)'
  BY <1>1 DEF BeingDeleted
<1>6. \A k \in Slot : \A q \in ToSet(PathsOf(k)) :
          q \in contested \/ (trie[q] = k /\ ListedOnce(PathsOf(k), q))
  BY <1>2 DEF ListsInv, ListsMatchTrie, PathsOf
<1>7. contested \subseteq contested'
  BY <1>1
<1> HIDE DEF p, i
<1>8. \A k \in Slot : \A q \in ToSet(PathsOf(k)) :
          \/ q \in contested' \/ BeingDeleted(q)'
          \/ trie'[q] = k /\ ListedOnce(PathsOf(k), q)
  <2> SUFFICES ASSUME NEW k \in Slot, NEW q \in ToSet(PathsOf(k))
               PROVE  \/ q \in contested' \/ BeingDeleted(q)'
                      \/ trie'[q] = k /\ ListedOnce(PathsOf(k), q)
    OBVIOUS
  <2>1. CASE q = p
    BY <1>5, <2>1
  <2>2. CASE q # p
    <3>1. q \in Path /\ trie'[q] = trie[q]
      BY <1>3, <1>4, <2>2
    <3> QED
      BY <1>6, <1>7, <3>1
  <2> QED
    BY <2>1, <2>2
<1>9. ListsMatchTrie'
  BY <1>4, <1>8 DEF ListsMatchTrie, PathsOf
<1>10. Leaving(c)'
  <2> SUFFICES ASSUME p \notin contested', NEW k \in Slot, p \in ToSet(PathsOf(k))
               PROVE  k = i /\ ListedOnce(PathsOf(k), p)
    BY <1>1, <1>4 DEF Leaving, p, i
  <2> QED
    BY <1>1, <1>6, SlotAssumption
<1>11. MappingHolds' /\ LeavingHolds'
  BY <1>1, <1>2, <1>10 DEF MappingHolds, LeavingHolds, Holding
<1> QED
  BY <1>9, <1>11 DEF ListsInv

\* DELETE takes the path from the list of the entry it was found in.
LEMMA ListsDeleteCache ==
    ASSUME Inv, HistoryOK, ListsInv, NEW c \in Conn, DeleteCache(c),
           Forgetting(req[c].path),
           \A d \in Conn \ {c} : pc'[d] = pc[d] /\ req'[d] = req[d] /\ local'[d] = local[d]
    PROVE  ListsInv'
<1> DEFINE p == req[c].path
           i == local[c].ss
           r == RemoveFirst(PathsOf(i), p)
<1>1. /\ pc[c] = "delete_cache" /\ pc'[c] = "reply"
      /\ UNCHANGED <<num_registered_ss, trie, contested>>
      /\ registered_ss' = [registered_ss EXCEPT ![i].accessible_paths = r]
  BY AckMoves DEF DeleteCache, remove_path_from_ss_info, PathsOf, Forgetting, Inv, TypeOK
<1>2. p \in Path /\ i \in Slot
  BY <1>1, LocalFacts DEF Inv, ThreadsFit, ThreadFits, AtPath, AtServer
<1>3. /\ \A d \in Conn : pc[d] \in Holding => d = c
      /\ \A q : BeingDeleted(q) => q = p
      /\ \A k, q : ~Awaited(k, q)
  BY <1>1, OneHolder DEF Holding, BeingDeleted, Awaited
<1>4. \A d \in Conn : pc'[d] \notin Holding
  BY <1>1, <1>3 DEF Holding
<1>5. \A k \in Slot : /\ PathsOf(k) \in Seq(Path) /\ ToSet(PathsOf(k)) \subseteq Path
                      /\ PathsOf(k)' = IF k = i THEN r ELSE PathsOf(k)
  BY <1>1, PathsFacts DEF PathsOf, Inv, TypeOK, ServersOK
<1>6. /\ ToSet(r) \subseteq ToSet(PathsOf(i))
      /\ \A q \in Path : ListedOnce(PathsOf(i), q) => ListedOnce(r, q)
      /\ ListedOnce(PathsOf(i), p) => p \notin ToSet(r)
  BY <1>2, <1>5, OnceRemoved
<1>7. p \notin contested => \A k \in Slot : p \in ToSet(PathsOf(k)) =>
          k = i /\ ListedOnce(PathsOf(k), p)
  BY <1>1 DEF ListsInv, LeavingHolds, Leaving
<1>8. \A k \in Slot : \A q \in ToSet(PathsOf(k)) :
          q \in contested \/ q = p \/ (trie[q] = k /\ ListedOnce(PathsOf(k), q))
  BY <1>3 DEF ListsInv, ListsMatchTrie, PathsOf
<1> HIDE DEF p, i, r
<1>9. ASSUME NEW k \in Slot, NEW q \in ToSet(PathsOf(k)')
      PROVE  q \in contested \/ (trie[q] = k /\ ListedOnce(PathsOf(k)', q))
  <2>1. q \in ToSet(PathsOf(k)) /\ q \in Path
    BY <1>5, <1>6
  <2>2. ListedOnce(PathsOf(k), q) => ListedOnce(PathsOf(k)', q)
    BY <1>5, <1>6, <2>1
  <2>3. q = p => q \in contested
    BY <1>5, <1>6, <1>7, <2>1
  <2> QED
    BY <1>8, <2>1, <2>2, <2>3
<1>10. ListsMatchTrie'
  BY <1>1, <1>9 DEF ListsMatchTrie, PathsOf
<1>11. MappingHolds' /\ LeavingHolds'
  BY <1>4 DEF MappingHolds, LeavingHolds, Holding
<1> QED
  BY <1>10, <1>11 DEF ListsInv

\* The start and a restart find the lists empty.
LEMMA ListsInit ==
    ASSUME \A i \in Slot : registered_ss[i].accessible_paths = << >>,
           \A c \in Conn : pc[c] = "idle"
    PROVE  ListsInv
<1>1. \A i \in Slot : ToSet(registered_ss[i].accessible_paths) = {}
  BY DEF ToSet
<1> QED
  BY <1>1 DEF ListsInv, ListsMatchTrie, MappingHolds, LeavingHolds

\* Every step keeps lists and trie in agreement.
LEMMA ListsStep ==
    ASSUME Inv, HistoryOK, ListsInv, [HNext]_hvars
    PROVE  ListsInv'
<1>1. Inv'
  BY InvStep, HistoryWatches
<1>2. CASE HRestart
  <2>1. /\ registered_ss' = [i \in Slot |-> [server |-> Null, accessible_paths |-> << >>]]
        /\ pc' = [c \in Conn |-> "idle"]
    BY <1>2 DEF HRestart, Restart
  <2>2. \A i \in Slot : ToSet(registered_ss'[i].accessible_paths) = {}
    BY <2>1 DEF ToSet
  <2>3. \A c \in Conn : pc'[c] = "idle"
    BY <2>1
  <2> QED
    BY <2>2, <2>3 DEF ListsInv, ListsMatchTrie, MappingHolds, LeavingHolds
<1>3. CASE UNCHANGED hvars
  <2>1. UNCHANGED <<registered_ss, num_registered_ss, trie, contested, pc, req, local>>
    BY <1>3 DEF hvars, vars, history, servers, threads
  <2> QED
    BY <2>1 DEF ListsInv, ListsMatchTrie, MappingHolds, LeavingHolds, Mapping, Leaving,
                PathsOf, BeingDeleted, Awaited
<1>4. ASSUME NEW c \in Conn, Event(c) \/ (Quietly(c) /\ UNCHANGED history)
      PROVE  ListsInv'
  <2>1. \A d \in Conn \ {c} : pc'[d] = pc[d] /\ req'[d] = req[d] /\ local'[d] = local[d]
    BY <1>4, StepKinds
  <2>2. CASE Plain(c)
    BY <2>1, <2>2, ListsKept DEF Plain, history, Marked
  <2>3. CASE \E p \in Path, i \in Slot : Places(c, p, i)
    BY <2>1, <2>3, ListsPlaced
  <2>4. CASE RegisterStart(c) /\ UNCHANGED history
    BY <1>1, <2>1, <2>4, ListsRegisterStart
  <2>5. CASE RegisterPath(c) /\ Placing(Head(local[c].rest))
    BY <2>1, <2>5, ListsRegisterPath
  <2>6. CASE RegisterEnd(c) /\ UNCHANGED history
    BY <2>1, <2>6, ListsRegisterEnd
  <2>7. CASE DeleteTrie(c) /\ Clearing(req[c].path, local[c].ss)
    BY <2>1, <2>7, ListsDeleteTrie
  <2>8. CASE DeleteCache(c) /\ Forgetting(req[c].path)
    BY <2>1, <2>8, ListsDeleteCache
  <2>9. CASE /\ LookupCache(c) \/ LookupTrie(c) \/ LookupPut(c) \/ LookupAnswer(c)
             /\ Overtaking(c) \/ Answered(c) \/ UNCHANGED history
    <3>1. /\ pc[c] \in {"LOOKUP", "lookup_trie", "lookup_put", "lookup_answer"}
          /\ UNCHANGED <<registered_ss, num_registered_ss, trie, contested>>
      BY <2>9 DEF LookupCache, LookupTrie, LookupPut, LookupAnswer, servers, Overtaking,
                  Answered, history
    <3>2. pc'[c] \in {"lookup_trie", "lookup_put", "lookup_answer", "reply"}
      BY <2>9, GotoMoves, AckMoves, AnswerMoves
         DEF LookupCache, LookupTrie, LookupPut, LookupAnswer, Inv, TypeOK
    <3> QED
      BY <2>1, <3>1, <3>2, ListsKept DEF Holding
  <2> QED
    BY <1>4, <2>2, <2>3, <2>4, <2>5, <2>6, <2>7, <2>8, <2>9, StepKinds
<1> QED
  BY <1>2, <1>3, <1>4 DEF HNext

\* Whatever requests overlap, whatever is registered twice and however often a path is
\* listed: the paths an entry lists are mapped to it and listed once, but for those a
\* registration has yet to map, a DELETE to take out, or two requests got between
\* (naming_server.c:77-87, :192-196, :253-259).
THEOREM ListsAgree == HSpec => []ListsMatchTrie
<1>1. HInit => ListsInv
  BY ListsInit DEF HInit, Init
<1>2. Inv /\ HistoryOK /\ ListsInv /\ [HNext]_hvars => ListsInv'
  BY ListsStep
<1>3. ListsInv => ListsMatchTrie
  BY DEF ListsInv
<1> QED
  BY <1>1, <1>2, <1>3, HistoryInvariance, PTL DEF HSpec

-----------------------------------------------------------------------------
(***************************************************************************)
(* The cache, the pointers taken from it, and the answers.                 *)
(*                                                                         *)
(* Held: a node a thread will answer with is still in the list, and has    *)
(* come no nearer to the tail than its age allows.  Looked: what a thread  *)
(* has from the trie is what the trie says, but for the events.  Right: so *)
(* is what a node of the cache says.  Placed: all three name servers where *)
(* their path was placed.                                                  *)
(***************************************************************************)
Looking == {"lookup_put", "lookup_answer"}

Held(c) ==
    /\ pc[c] = "lookup_put" => local[c].node = Null
    /\ HoldsNode(c) /\ age[c] < LRU_CACHE_SIZE =>
           /\ local[c].node \in Live(cache) /\ cache.path[local[c].node] = req[c].path
           /\ Position(cache, local[c].node) <= age[c] + 1

MapsTo(p, i) == p \in stale \/ BeingDeleted(p) \/ trie[p] = i

Right(p, s) == \/ p \in stale \/ BeingDeleted(p)
               \/ trie[p] # Null /\ registered_ss[trie[p]].server = s

Looked(c) == /\ pc[c] \in Looking /\ local[c].node = Null
             /\ pc[c] = "lookup_answer" => age[c] < LRU_CACHE_SIZE
             => MapsTo(req[c].path, local[c].ss)

NodesRight == \A n \in Live(cache) : Alone(cache.path[n]) => Right(cache.path[n], cache.info[n])

TriePlaced == \A p \in Path : trie[p] # Null => <<p, registered_ss[trie[p]].server>> \in placed

NodesPlaced == \A n \in Live(cache) : <<cache.path[n], cache.info[n]>> \in placed

ThreadPlaced(c) == pc[c] \in Looking /\ local[c].node = Null =>
    <<req[c].path, registered_ss[local[c].ss].server>> \in placed

HInv == /\ Inv /\ HistoryOK /\ IndexedIn(cache)
        /\ \A c \in Conn : Held(c) /\ Looked(c) /\ ThreadPlaced(c)
        /\ NodesRight /\ TriePlaced /\ NodesPlaced

\* The start, and what a restart leaves.
LEMMA HInvInit == HInit => HInv
<1> SUFFICES ASSUME HInit PROVE HInv
  OBVIOUS
<1>1. Inv /\ HistoryOK
  BY InvInit, SizeAssumption DEF HInit, HistoryOK
<1>2. Live(cache) = {} /\ (\A c \in Conn : pc[c] = "idle") /\ \A p \in Path : trie[p] = Null
  BY EmptyFacts DEF HInit, Init
<1> QED
  BY <1>1, <1>2 DEF HInv, IndexedIn, Held, HoldsNode, Looked, Looking, NodesRight,
                    TriePlaced, NodesPlaced, ThreadPlaced

\* The thread that is looking a path up has it, and the server it found.
LEMMA LookingFacts ==
    ASSUME Inv, NEW c \in Conn, pc[c] \in {"LOOKUP", "lookup_trie", "delete_cache"} \cup Looking
    PROVE  /\ req[c].path \in Path /\ WellFormed(cache)
           /\ pc[c] \in Looking /\ local[c].node = Null =>
                  local[c].ss \in Slot /\ registered_ss[local[c].ss].server \in Server
<1>1. req[c].path \in Path /\ WellFormed(cache)
  BY DEF Inv, TypeOK, SharedOK, ThreadsFit, ThreadFits, AtPath, Looking
<1>2. pc[c] \in Looking /\ local[c].node = Null => local[c].ss # Null
  BY DEF Inv, ThreadsFit, ThreadFits, AtServer, Looking
<1> QED
  BY <1>1, <1>2, LocalFacts

\* What a step does to the cache.
LEMMA CacheSteps ==
    ASSUME Inv, NEW c \in Conn, Event(c) \/ (Quietly(c) /\ UNCHANGED history)
    PROVE  \/ UNCHANGED cache
           \/ LookupCache(c)
           \/ LookupPut(c)
           \/ DeleteCache(c)
BY StepKinds DEF Plain, Places, RegisterStart, RegisterPath, RegisterEnd, DeleteTrie,
                 LookupTrie, LookupAnswer

\* Buckets of paths that are alone keep pointing at their nodes; a node of the list is
\* one that was there, or the one a thread has put.
LEMMA NodesStep ==
    ASSUME Inv, IndexedIn(cache), NEW c \in Conn,
           Event(c) \/ (Quietly(c) /\ UNCHANGED history),
           pc[c] = "lookup_put" => local[c].node = Null
    PROVE  /\ IndexedIn(cache)'
           /\ \A n \in Live(cache') :
                  \/ /\ n \in Live(cache)
                     /\ cache'.path[n] = cache.path[n] /\ cache'.info[n] = cache.info[n]
                     /\ DeleteCache(c) /\ Alone(req[c].path) => cache.path[n] # req[c].path
                  \/ /\ LookupPut(c)
                     /\ cache'.path[n] = req[c].path
                     /\ cache'.info[n] = registered_ss[local[c].ss].server
<1>1. WellFormed(cache)
  BY DEF Inv, TypeOK, SharedOK
<1>2. ~LookupPut(c) \/ ~DeleteCache(c)
  BY DEF LookupPut, DeleteCache
<1>3. CASE UNCHANGED cache /\ ~DeleteCache(c)
  BY <1>3 DEF IndexedIn
<1>4. CASE LookupCache(c)
  <2>1. pc[c] = "LOOKUP" /\ req[c].path \in Path
    BY <1>4, LookingFacts DEF LookupCache
  <2>2. /\ Live(cache') = Live(cache) /\ cache'.path = cache.path
        /\ cache'.info = cache.info /\ cache'.map = cache.map
    BY <1>1, <1>4, <2>1, GetFacts DEF LookupCache
  <2>3. ~DeleteCache(c)
    BY <2>1 DEF DeleteCache
  <2> QED
    BY <2>2, <2>3 DEF IndexedIn
<1>5. CASE LookupPut(c)
  <2> DEFINE p == req[c].path
             s == registered_ss[local[c].ss].server
  <2>1. PICK n \in Fresh(cache) : cache' = lru_put(cache, p, s, n)
    BY <1>5 DEF LookupPut
  <2>2. p \in Path /\ s \in Server
    BY <1>5, LookingFacts DEF LookupPut, Looking
  <2> HIDE DEF p, s
  <2>3. /\ IndexedIn(cache')
        /\ \A k \in Live(cache') :
               \/ cache'.path[k] = p /\ cache'.info[k] = s
               \/ /\ k \in Live(cache)
                  /\ cache'.path[k] = cache.path[k] /\ cache'.info[k] = cache.info[k]
    BY <1>1, <2>1, <2>2, PutIndexed
  <2> QED
    BY <1>2, <1>5, <2>3 DEF p, s
<1>6. CASE DeleteCache(c)
  <2> DEFINE p == req[c].path
  <2>1. p \in Path /\ cache' = lru_remove(cache, p)
    BY <1>6, LookingFacts DEF DeleteCache
  <2> HIDE DEF p
  <2>2. /\ IndexedIn(cache')
        /\ \A k \in Live(cache') : /\ k \in Live(cache) /\ (Alone(p) => cache.path[k] # p)
                                   /\ cache'.path[k] = cache.path[k]
                                   /\ cache'.info[k] = cache.info[k]
    BY <1>1, <2>1, RemoveIndexed
  <2> QED
    BY <2>2 DEF p
<1> QED
  BY <1>3, <1>4, <1>5, <1>6, CacheSteps

-----------------------------------------------------------------------------
(* The nodes that are held.                                                *)

\* What a step does to a node that another thread holds.
LEMMA HeldByOthers ==
    ASSUME Inv, HistoryOK, NEW c \in Conn, Event(c) \/ (Quietly(c) /\ UNCHANGED history),
           pc[c] = "lookup_put" => local[c].node = Null,
           NEW d \in Conn \ {c}, Held(d)
    PROVE  Held(d)'
<1> DEFINE n == local[d].node
<1>1. /\ pc'[d] = pc[d] /\ req'[d] = req[d] /\ local'[d] = local[d]
      /\ age[d] \in 0 .. LRU_CACHE_SIZE /\ LRU_CACHE_SIZE \in Nat
  BY StepKinds, SizeAssumption DEF HistoryOK
<1> SUFFICES ASSUME pc[d] = "lookup_answer", n # Null, age'[d] < LRU_CACHE_SIZE
             PROVE  /\ n \in Live(cache') /\ cache'.path[n] = req[d].path
                    /\ Position(cache', n) <= age'[d] + 1
  BY <1>1 DEF Held, HoldsNode
<1>2. WellFormed(cache)
  BY DEF Inv, TypeOK, SharedOK
<1>3. ASSUME age[d] < LRU_CACHE_SIZE
      PROVE  /\ n \in Live(cache) /\ cache.path[n] = req[d].path
             /\ Position(cache, n) \in Nat /\ Position(cache, n) <= age[d] + 1
  <2>1. n \in Live(cache) /\ cache.path[n] = req[d].path /\ Position(cache, n) <= age[d] + 1
    BY <1>3 DEF Held, HoldsNode
  <2> QED
    BY <1>2, <2>1, PositionFacts DEF WellFormed, CacheType
<1> HIDE DEF n
<1>4. CASE UNCHANGED <<cache, age>>
  BY <1>3, <1>4
<1>5. Overtaking(c) => age'[d] = age[d] + 1 /\ age[d] < LRU_CACHE_SIZE
  BY <1>1 DEF Overtaking, HoldsNode, HistoryOK, n
<1>6. CASE LookupCache(c) /\ Found(cache, req[c].path) # Null /\ Overtaking(c)
  <2>1. req[c].path \in Path /\ cache' = lru_get(cache, req[c].path)
    BY <1>6, LookingFacts DEF LookupCache
  <2>2. /\ Live(cache') = Live(cache) /\ cache'.path = cache.path
        /\ Position(cache', n) <= Position(cache, n) + 1
    BY <1>2, <1>3, <1>5, <1>6, <2>1, GetFacts, GetPosition
  <2>3. Position(cache', n) \in Nat
    <3>1. WellFormed(cache') /\ n \in Live(cache')
      BY <1>2, <1>3, <1>5, <1>6, <2>1, <2>2, GetFacts
    <3> QED
      BY <3>1, PositionFacts DEF WellFormed, CacheType
  <2> QED
    BY <1>1, <1>3, <1>5, <1>6, <2>2, <2>3
<1>7. CASE LookupPut(c) /\ Overtaking(c)
  <2> DEFINE p == req[c].path
             s == registered_ss[local[c].ss].server
  <2>1. PICK k \in Fresh(cache) : cache' = lru_put(cache, p, s, k)
    BY <1>7 DEF LookupPut
  <2>2. p \in Path /\ s \in Server
    BY <1>7, LookingFacts DEF LookupPut, Looking
  <2> HIDE DEF p, s
  <2>3. Position(cache, n) < LRU_CACHE_SIZE
    BY <1>1, <1>3, <1>5, <1>7
  <2>4. /\ n \in Live(cache') /\ cache'.path[n] = cache.path[n]
        /\ Position(cache', n) <= Position(cache, n) + 1
    BY <1>2, <1>3, <1>5, <1>7, <2>1, <2>2, <2>3, PutPosition
  <2>5. Position(cache', n) \in Nat
    <3>1. WellFormed(cache')
      BY <1>2, <2>1, <2>2, PutFacts
    <3> QED
      BY <2>4, <3>1, PositionFacts DEF WellFormed, CacheType
  <2> QED
    BY <1>1, <1>3, <1>5, <1>7, <2>4, <2>5
<1>8. CASE DeleteCache(c) /\ Forgetting(req[c].path)
  <2>1. req[d].path # req[c].path /\ age'[d] = age[d]
    BY <1>1, <1>8 DEF Forgetting, Answering, HistoryOK
  <2>2. req[c].path \in Path /\ cache' = lru_remove(cache, req[c].path)
    BY <1>8, LookingFacts DEF DeleteCache
  <2>3. /\ n \in Live(cache') /\ cache'.path[n] = cache.path[n]
        /\ Position(cache', n) <= Position(cache, n)
    BY <1>2, <1>3, <2>1, <2>2, RemovePosition
  <2>4. Position(cache', n) \in Nat
    <3>1. WellFormed(cache')
      BY InvStep, EventsAreSteps, ThreadStep DEF Inv, TypeOK, SharedOK
    <3> QED
      BY <2>3, <3>1, PositionFacts DEF WellFormed, CacheType
  <2> QED
    BY <1>1, <1>3, <2>1, <2>3, <2>4
<1>9. CASE LookupAnswer(c) /\ Answered(c)
  <2>1. age'[d] = age[d] /\ UNCHANGED cache
    BY <1>9 DEF Answered, LookupAnswer, HistoryOK
  <2> QED
    BY <1>3, <2>1
<1>10. CASE \/ Plain(c)
            \/ \E p \in Path, i \in Slot : Places(c, p, i)
            \/ RegisterStart(c) /\ UNCHANGED history
            \/ RegisterPath(c) /\ Placing(Head(local[c].rest))
            \/ RegisterEnd(c) /\ UNCHANGED history
            \/ DeleteTrie(c) /\ Clearing(req[c].path, local[c].ss)
            \/ LookupTrie(c) /\ UNCHANGED history
  <2>1. UNCHANGED <<cache, age>>
    BY <1>10 DEF Plain, Places, RegisterStart, RegisterPath, RegisterEnd, DeleteTrie,
                 LookupTrie, Placing, Clearing, history
  <2> QED
    BY <1>4, <2>1
<1> QED
  BY <1>6, <1>7, <1>8, <1>9, <1>10, StepKinds


\* Where a step leaves its own thread, when that is in a lookup.
LEMMA OwnMoves ==
    ASSUME Inv, NEW c \in Conn, Event(c) \/ (Quietly(c) /\ UNCHANGED history)
    PROVE  \/ pc'[c] \notin Looking
           \/ Plain(c) /\ UNCHANGED <<pc, req, local>>
           \/ /\ LookupCache(c) /\ Found(cache, req[c].path) # Null /\ Overtaking(c)
              /\ pc'[c] = "lookup_answer" /\ req' = req
              /\ local'[c].node = Found(cache, req[c].path)
           \/ /\ LookupTrie(c) /\ trie[req[c].path] # Null /\ UNCHANGED history
              /\ pc'[c] = "lookup_put" /\ req' = req
              /\ local'[c].ss = trie[req[c].path] /\ local'[c].node = Null
           \/ /\ LookupPut(c) /\ Overtaking(c)
              /\ pc[c] = "lookup_put" /\ pc'[c] = "lookup_answer"
              /\ req' = req /\ local'[c] = local[c]
<1>1. ThreadsOK
  BY DEF Inv, TypeOK
<1>2. CASE Plain(c) \/ \E p \in Path, i \in Slot : Places(c, p, i)
  BY <1>2 DEF Plain, Places, Marked, Looking
<1>3. CASE RegisterStart(c) \/ RegisterPath(c) \/ DeleteTrie(c)
  <2>1. pc'[c] \in {"register_paths", "delete_cache"}
    BY <1>1, <1>3, GotoMoves DEF RegisterStart, RegisterPath, DeleteTrie
  <2> QED
    BY <2>1 DEF Looking
<1>4. CASE RegisterEnd(c) \/ DeleteCache(c) \/ LookupAnswer(c)
  <2>1. pc'[c] = "reply"
    BY <1>1, <1>4, AckMoves, AnswerMoves DEF RegisterEnd, DeleteCache, LookupAnswer
  <2> QED
    BY <2>1 DEF Looking
<1>5. CASE LookupCache(c) /\ Found(cache, req[c].path) # Null /\ Overtaking(c)
  <2> DEFINE n == Found(cache, req[c].path)
  <2>1. Goto(c, "lookup_answer", [NoLocal EXCEPT !.node = n])
    BY <1>5 DEF LookupCache
  <2>2. [NoLocal EXCEPT !.node = n].node = n
    BY DEF NoLocal
  <2> HIDE DEF n
  <2> QED
    BY <1>1, <1>5, <2>1, <2>2, GotoMoves DEF n
<1>6. CASE LookupTrie(c) /\ trie[req[c].path] # Null /\ UNCHANGED history
  <2> DEFINE i == trie[req[c].path]
  <2>1. Goto(c, "lookup_put", [NoLocal EXCEPT !.ss = i])
    BY <1>6 DEF LookupTrie
  <2>2. [NoLocal EXCEPT !.ss = i].ss = i /\ [NoLocal EXCEPT !.ss = i].node = Null
    BY DEF NoLocal
  <2>3. pc'[c] = "lookup_put" /\ req' = req /\ local'[c] = [NoLocal EXCEPT !.ss = i]
    BY <1>1, <2>1, GotoMoves
  <2> QED
    BY <1>6, <2>2, <2>3
<1>7. CASE LookupPut(c) /\ Overtaking(c)
  BY <1>1, <1>7, GotoMoves DEF LookupPut
<1> QED
  BY <1>2, <1>3, <1>4, <1>5, <1>6, <1>7, StepKinds

\* A node that was found is the first of the list, with its path, and new to its thread.
LEMMA HeldStep ==
    ASSUME Inv, HistoryOK, NEW c \in Conn, Event(c) \/ (Quietly(c) /\ UNCHANGED history),
           \A d \in Conn : Held(d)
    PROVE  \A d \in Conn : Held(d)'
<1>1. ASSUME NEW d \in Conn \ {c} PROVE Held(d)'
  BY <1>1, HeldByOthers DEF Held
<1>2. Held(c)'
  <2>1. CASE pc'[c] \notin Looking
    BY <2>1 DEF Held, HoldsNode, Looking
  <2>2. CASE Plain(c) /\ UNCHANGED <<pc, req, local>>
    <3>1. UNCHANGED <<cache, age>>
      BY <2>2 DEF Plain, history
    <3> QED
      BY <2>2, <3>1 DEF Held, HoldsNode
  <2>3. CASE /\ LookupCache(c) /\ Found(cache, req[c].path) # Null /\ Overtaking(c)
             /\ pc'[c] = "lookup_answer" /\ req' = req
             /\ local'[c].node = Found(cache, req[c].path)
    <3> DEFINE n == Found(cache, req[c].path)
    <3>1. WellFormed(cache) /\ req[c].path \in Path /\ cache' = lru_get(cache, req[c].path)
      BY <2>3, LookingFacts DEF LookupCache
    <3>2. n \in Live(cache) /\ cache.path[n] = req[c].path
      BY <2>3, <3>1, FoundFacts
    <3>3. /\ Live(cache') = Live(cache) /\ cache'.path = cache.path
          /\ Position(cache', n) = 1
      BY <2>3, <3>1, GetFacts, GetPosition
    <3>4. age'[c] \in Nat
      BY <2>3, SizeAssumption DEF Overtaking, HistoryOK
    <3> HIDE DEF n
    <3>5. local'[c].node = n
      BY <2>3 DEF n
    <3>6. Position(cache', n) <= age'[c] + 1
      BY <3>3, <3>4
    <3> QED
      BY <2>3, <3>2, <3>3, <3>5, <3>6 DEF Held, HoldsNode
  <2>4. CASE LookupTrie(c) /\ pc'[c] = "lookup_put" /\ local'[c].node = Null
    BY <2>4 DEF Held, HoldsNode
  <2>5. CASE /\ LookupPut(c) /\ pc[c] = "lookup_put" /\ pc'[c] = "lookup_answer"
             /\ local'[c] = local[c]
    BY <2>5 DEF Held, HoldsNode
  <2> QED
    BY <2>1, <2>2, <2>3, <2>4, <2>5, OwnMoves
<1> QED
  BY <1>1, <1>2

-----------------------------------------------------------------------------
(* What the trie says of a path.                                           *)

\* A thread that is deleting a path from the cache stays there, but by doing so.
LEMMA DeletersStay ==
    ASSUME Inv, NEW c \in Conn, Event(c) \/ (Quietly(c) /\ UNCHANGED history),
           pc[c] = "delete_cache", ~DeleteCache(c)
    PROVE  UNCHANGED <<pc, req, local>>
BY StepKinds DEF Plain, Places, Marked, Holding, RegisterStart, RegisterPath, RegisterEnd,
                 DeleteTrie, LookupCache, LookupTrie, LookupPut, LookupAnswer

\* A path that changes its server becomes stale, one that loses it is being deleted, and
\* both stay so until a DELETE has cleared the cache.
LEMMA MappingsStay ==
    ASSUME Inv, NEW c \in Conn, Event(c) \/ (Quietly(c) /\ UNCHANGED history),
           NEW p \in Path, DeleteCache(c) => req[c].path # p
    PROVE  /\ p \in stale => p \in stale'
           /\ BeingDeleted(p) => BeingDeleted(p)'
           /\ trie[p] # Null => trie'[p] = trie[p] \/ p \in stale' \/ BeingDeleted(p)'
<1>1. /\ trie \in [Path -> Slot \cup {Null}] /\ ThreadsOK
      /\ \A d \in Conn \ {c} : pc'[d] = pc[d] /\ req'[d] = req[d]
  BY StepKinds DEF Inv, TypeOK, SharedOK
<1>2. BeingDeleted(p) => BeingDeleted(p)'
  <2> SUFFICES ASSUME NEW d \in Conn, pc[d] = "delete_cache", req[d].path = p
               PROVE  pc'[d] = "delete_cache" /\ req'[d].path = p
    BY DEF BeingDeleted
  <2>1. CASE d = c
    BY <2>1, DeletersStay
  <2>2. CASE d # c
    BY <1>1, <2>2
  <2> QED
    BY <2>1, <2>2
<1>3. p \in stale => p \in stale'
  <2>1. CASE DeleteCache(c) /\ Forgetting(req[c].path)
    BY <2>1 DEF Forgetting
  <2>2. CASE Overtaking(c) \/ Answered(c) \/ Plain(c) \/ UNCHANGED history
             \/ Clearing(req[c].path, local[c].ss)
    BY <2>2 DEF Overtaking, Answered, Plain, history, Clearing
  <2>3. ASSUME NEW q, Placing(q) PROVE stale \subseteq stale'
    BY <2>3 DEF Placing
  <2> QED
    BY <2>1, <2>2, <2>3, StepKinds DEF Places
<1>4. trie[p] # Null => trie'[p] = trie[p] \/ p \in stale' \/ BeingDeleted(p)'
  <2>1. ASSUME NEW q, NEW i, trie_insert(q, i), Placing(q)
        PROVE  trie[p] # Null => trie'[p] = trie[p] \/ p \in stale'
    BY <1>1, <2>1 DEF trie_insert, Placing
  <2>2. CASE DeleteTrie(c)
    <3>1. /\ trie' = [trie EXCEPT ![req[c].path] = Null]
          /\ pc'[c] = "delete_cache" /\ req' = req
      BY <1>1, <2>2, GotoMoves DEF DeleteTrie
    <3> QED
      BY <1>1, <3>1 DEF BeingDeleted
  <2>3. CASE UNCHANGED trie
    BY <2>3
  <2>4. Plain(c) \/ RegisterStart(c) \/ RegisterEnd(c) \/ DeleteCache(c) \/ LookupCache(c)
        \/ LookupTrie(c) \/ LookupPut(c) \/ LookupAnswer(c) => UNCHANGED trie
    BY DEF Plain, RegisterStart, RegisterEnd, DeleteCache, LookupCache, LookupTrie,
           LookupPut, LookupAnswer
  <2>5. CASE \E q \in Path, i \in Slot : Places(c, q, i)
    BY <2>1, <2>5 DEF Places, Place
  <2>6. CASE RegisterPath(c) /\ Placing(Head(local[c].rest))
    BY <2>1, <2>6 DEF RegisterPath
  <2> QED
    BY <2>2, <2>3, <2>4, <2>5, <2>6, StepKinds
<1> QED
  BY <1>2, <1>3, <1>4

\* An entry with a server keeps it.
LEMMA ServersStay ==
    ASSUME Inv, NEW c \in Conn, Event(c) \/ (Quietly(c) /\ UNCHANGED history)
    PROVE  /\ Inv'
           /\ \A i \in Slot : registered_ss[i].server # Null =>
                  registered_ss'[i].server = registered_ss[i].server
BY EventsAreSteps, ThreadStep

\* A server the trie gave for a path is still right, or the path is stale or being deleted.
LEMMA RightStays ==
    ASSUME Inv, NEW c \in Conn, Event(c) \/ (Quietly(c) /\ UNCHANGED history),
           NEW p \in Path, DeleteCache(c) => req[c].path # p, NEW s, Right(p, s)
    PROVE  Right(p, s)'
<1>1. ASSUME trie[p] # Null
      PROVE  registered_ss'[trie[p]].server = registered_ss[trie[p]].server
  BY <1>1, ServersStay, TrieFacts, NullAssumption
<1> QED
  BY <1>1, MappingsStay DEF Right

\* The nodes of the cache stay right.
LEMMA NodesRightStep ==
    ASSUME Inv, IndexedIn(cache), NodesRight, NEW c \in Conn, Held(c), Looked(c),
           Event(c) \/ (Quietly(c) /\ UNCHANGED history)
    PROVE  NodesRight'
<1> SUFFICES ASSUME NEW n \in Live(cache'), NEW p, p = cache'.path[n], Alone(p),
                    NEW s, s = cache'.info[n]
             PROVE  Right(p, s)'
  BY DEF NodesRight, Right, BeingDeleted, Alone
<1>1. WellFormed(cache) /\ WellFormed(cache')
  BY ServersStay DEF Inv, TypeOK, SharedOK
<1>2. p \in Path
  BY <1>1, LiveFacts
<1>3. CASE /\ n \in Live(cache)
           /\ cache'.path[n] = cache.path[n] /\ cache'.info[n] = cache.info[n]
           /\ DeleteCache(c) /\ Alone(req[c].path) => cache.path[n] # req[c].path
  <2>1. Right(p, s)
    BY <1>3 DEF NodesRight
  <2>2. DeleteCache(c) => req[c].path # p
    BY <1>3
  <2> QED
    BY <1>2, <2>1, <2>2, RightStays
<1>4. CASE /\ LookupPut(c)
           /\ cache'.path[n] = req[c].path
           /\ cache'.info[n] = registered_ss[local[c].ss].server
  <2>1. pc[c] = "lookup_put" /\ local[c].node = Null /\ p = req[c].path
    BY <1>4 DEF LookupPut, Held
  <2>2. MapsTo(p, local[c].ss)
    BY <2>1 DEF Looked, Looking
  <2>3. local[c].ss \in Slot
    BY <2>1, LookingFacts DEF Looking
  <2>4. Right(p, s)
    BY <1>4, <2>2, <2>3, SlotAssumption DEF MapsTo, Right
  <2>5. ~DeleteCache(c)
    BY <2>1 DEF DeleteCache
  <2> QED
    BY <1>2, <2>4, <2>5, RightStays
<1>5. pc[c] = "lookup_put" => local[c].node = Null
  BY DEF Held
<1> QED
  BY <1>3, <1>4, <1>5, NodesStep

\* What a thread has from the trie stays what the trie says.
LEMMA LookedStep ==
    ASSUME Inv, HistoryOK, NEW c \in Conn, Event(c) \/ (Quietly(c) /\ UNCHANGED history),
           \A d \in Conn : Held(d) /\ Looked(d)
    PROVE  \A d \in Conn : Looked(d)'
<1>1. ASSUME NEW d \in Conn, pc[d] \in Looking, local[d].node = Null,
             pc[d] = "lookup_answer" => age[d] < LRU_CACHE_SIZE,
             DeleteCache(c) => req[c].path # req[d].path,
             req'[d] = req[d], local'[d] = local[d]
      PROVE  Looked(d)'
  <2> DEFINE i == local[d].ss
  <2>1. req[d].path \in Path /\ i \in Slot
    BY <1>1, LookingFacts
  <2>2. MapsTo(req[d].path, i)
    BY <1>1 DEF Looked
  <2>3. ASSUME NEW p \in Path, p = req[d].path
        PROVE  p \in stale' \/ BeingDeleted(p)' \/ trie'[p] = i
    BY <1>1, <2>1, <2>2, <2>3, MappingsStay, SlotAssumption DEF MapsTo
  <2> QED
    BY <1>1, <2>1, <2>3 DEF Looked, MapsTo, BeingDeleted
<1>2. ASSUME NEW d \in Conn \ {c} PROVE Looked(d)'
  <2>1. pc'[d] = pc[d] /\ req'[d] = req[d] /\ local'[d] = local[d]
    BY StepKinds
  <2> SUFFICES ASSUME pc[d] \in Looking, local[d].node = Null,
                      pc[d] = "lookup_answer" => age'[d] < LRU_CACHE_SIZE
               PROVE  Looked(d)'
    BY <2>1 DEF Looked
  <2>2. CASE DeleteCache(c) /\ Forgetting(req[c].path) /\ req[c].path = req[d].path
    <3>1. pc[d] # "lookup_answer"
      BY <1>2, <2>2, SizeAssumption DEF Forgetting, Answering
    <3>2. pc[d] = "lookup_put"
      BY <3>1 DEF Looking
    <3>3. FillUnderWay(req[c].path)
      BY <2>2, <3>2 DEF FillUnderWay
    <3>4. req'[d].path \in stale'
      BY <2>1, <2>2, <3>3 DEF Forgetting
    <3> QED
      BY <3>4 DEF Looked, MapsTo
  <2>3. CASE ~(DeleteCache(c) /\ req[c].path = req[d].path)
    <3>1. pc[d] = "lookup_answer" => age[d] < LRU_CACHE_SIZE
      <4>1. age[d] \in 0 .. LRU_CACHE_SIZE /\ LRU_CACHE_SIZE \in Nat
        BY SizeAssumption DEF HistoryOK
      <4>2. CASE DeleteCache(c) /\ Forgetting(req[c].path)
        BY <2>3, <4>2 DEF Forgetting
      <4>3. CASE Overtaking(c)
        BY <4>1, <4>3 DEF Overtaking, HoldsNode
      <4>4. CASE Answered(c)
        BY <1>2, <4>4 DEF Answered, HistoryOK
      <4>5. CASE UNCHANGED age
        BY <4>5
      <4>6. \A p : Placing(p) => UNCHANGED age
        BY DEF Placing
      <4> QED
        BY <4>2, <4>3, <4>4, <4>5, <4>6, StepKinds DEF Plain, Places, history, Clearing
    <3> QED
      BY <1>1, <2>1, <2>3, <3>1
  <2>4. DeleteCache(c) => Forgetting(req[c].path)
    <3> SUFFICES ASSUME DeleteCache(c) PROVE Forgetting(req[c].path)
      OBVIOUS
    <3>1. pc[c] = "delete_cache" /\ pc'[c] = "reply"
      BY AckMoves DEF DeleteCache, Inv, TypeOK
    <3> QED
      BY <3>1, StepKinds DEF Plain, Places, Marked, Holding, RegisterStart, RegisterPath,
                             RegisterEnd, DeleteTrie, LookupCache, LookupTrie, LookupPut,
                             LookupAnswer
  <2> QED
    BY <2>2, <2>3, <2>4
<1>3. Looked(c)'
  <2>1. CASE pc'[c] \notin Looking
    BY <2>1 DEF Looked
  <2>2. CASE Plain(c) /\ UNCHANGED <<pc, req, local>>
    <3>1. UNCHANGED <<age, stale, trie>>
      BY <2>2 DEF Plain, history
    <3> QED
      BY <2>2, <3>1 DEF Looked, MapsTo, BeingDeleted
  <2>3. CASE LookupCache(c) /\ Found(cache, req[c].path) # Null
             /\ local'[c].node = Found(cache, req[c].path)
    BY <2>3 DEF Looked
  <2>4. CASE /\ LookupTrie(c) /\ req' = req /\ local'[c].ss = trie[req[c].path]
    BY <2>4 DEF Looked, MapsTo, LookupTrie
  <2>5. CASE /\ LookupPut(c) /\ pc[c] = "lookup_put"
             /\ req' = req /\ local'[c] = local[c]
    <3>1. local[c].node = Null /\ ~DeleteCache(c)
      BY <2>5 DEF Held, DeleteCache
    <3> QED
      BY <1>1, <2>5, <3>1 DEF Looking
  <2> QED
    BY <2>1, <2>2, <2>3, <2>4, <2>5, OwnMoves
<1> QED
  BY <1>2, <1>3

-----------------------------------------------------------------------------
(* Where paths were placed.                                                *)

\* A mapping that is new was recorded.
LEMMA Recorded ==
    ASSUME Inv, NEW c \in Conn, Event(c) \/ (Quietly(c) /\ UNCHANGED history)
    PROVE  /\ placed \subseteq placed'
           /\ \A p \in Path :
                  \/ trie'[p] \in {Null, trie[p]}
                  \/ \E i \in Slot : /\ trie'[p] = i /\ registered_ss[i].server # Null
                                     /\ <<p, registered_ss[i].server>> \in placed'
<1>1. trie \in [Path -> Slot \cup {Null}]
  BY DEF Inv, TypeOK, SharedOK
<1>2. ASSUME NEW q \in Path, NEW i \in Slot, registered_ss[i].server # Null, trie_insert(q, i)
      PROVE  /\ placed \subseteq placed'
             /\ \A p \in Path :
                    \/ trie'[p] \in {Null, trie[p]}
                    \/ \E k \in Slot : /\ trie'[p] = k /\ registered_ss[k].server # Null
                                       /\ <<p, registered_ss[k].server>> \in placed'
  BY <1>1, <1>2 DEF trie_insert
<1>3. CASE \E p \in Path, i \in Slot : Places(c, p, i)
  BY <1>2, <1>3 DEF Places, Place
<1>4. CASE RegisterPath(c)
  <2>1. pc[c] = "register_paths" /\ local[c].rest \in Seq(Path) /\ local[c].rest # << >>
    BY <1>4, LocalFacts DEF RegisterPath, Pointers
  <2>2. /\ Head(local[c].rest) \in Path /\ num_registered_ss \in Slot
        /\ registered_ss[num_registered_ss].server # Null
    BY <2>1 DEF Inv, Filled
  <2>3. trie_insert(Head(local[c].rest), num_registered_ss)
    BY <1>4 DEF RegisterPath
  <2> QED
    BY <1>2, <2>2, <2>3
<1>5. CASE DeleteTrie(c)
  BY <1>1, <1>5 DEF DeleteTrie
<1>6. CASE UNCHANGED <<trie, placed>>
  BY <1>6
<1>7. Plain(c) \/ RegisterStart(c) \/ RegisterEnd(c) \/ DeleteCache(c) \/ LookupCache(c)
      \/ LookupTrie(c) \/ LookupPut(c) \/ LookupAnswer(c) => UNCHANGED <<trie, placed>>
  BY DEF Plain, RegisterStart, RegisterEnd, DeleteCache, LookupCache, LookupTrie,
         LookupPut, LookupAnswer
<1> QED
  BY <1>3, <1>4, <1>5, <1>6, <1>7, StepKinds

\* The trie, the cache and the threads name servers where the path was placed.
LEMMA PlacedStep ==
    ASSUME Inv, IndexedIn(cache), NEW c \in Conn,
           Event(c) \/ (Quietly(c) /\ UNCHANGED history),
           TriePlaced, NodesPlaced, Held(c), \A d \in Conn : ThreadPlaced(d)
    PROVE  TriePlaced' /\ NodesPlaced' /\ \A d \in Conn : ThreadPlaced(d)'
<1>1. placed \subseteq placed'
  BY Recorded
<1>2. TriePlaced'
  <2> SUFFICES ASSUME NEW p \in Path, trie'[p] # Null
               PROVE  <<p, registered_ss'[trie'[p]].server>> \in placed'
    BY DEF TriePlaced
  <2>1. CASE trie'[p] = trie[p]
    BY <1>1, <2>1, TrieFacts, ServersStay, NullAssumption DEF TriePlaced
  <2>2. CASE \E i \in Slot : /\ trie'[p] = i /\ registered_ss[i].server # Null
                             /\ <<p, registered_ss[i].server>> \in placed'
    BY <2>2, ServersStay
  <2> QED
    BY <2>1, <2>2, Recorded
<1>3. ASSUME NEW d \in Conn, pc[d] \in Looking, local[d].node = Null,
             req'[d] = req[d], local'[d] = local[d]
      PROVE  <<req'[d].path, registered_ss'[local'[d].ss].server>> \in placed'
  <2>1. local[d].ss \in Slot /\ registered_ss[local[d].ss].server \in Server
    BY <1>3, LookingFacts
  <2>2. registered_ss'[local[d].ss].server = registered_ss[local[d].ss].server
    BY <2>1, ServersStay, NullAssumption
  <2> QED
    BY <1>1, <1>3, <2>2 DEF ThreadPlaced
<1>4. ASSUME NEW d \in Conn \ {c} PROVE ThreadPlaced(d)'
  BY <1>3, <1>4, StepKinds DEF ThreadPlaced
<1>5. ThreadPlaced(c)'
  <2>1. CASE pc'[c] \notin Looking
    BY <2>1 DEF ThreadPlaced
  <2>2. CASE Plain(c) /\ UNCHANGED <<pc, req, local>>
    BY <1>3, <2>2 DEF ThreadPlaced
  <2>3. CASE LookupCache(c) /\ Found(cache, req[c].path) # Null
             /\ local'[c].node = Found(cache, req[c].path)
    BY <2>3 DEF ThreadPlaced
  <2>4. CASE /\ LookupTrie(c) /\ trie[req[c].path] # Null
             /\ req' = req /\ local'[c].ss = trie[req[c].path]
    <3>1. req[c].path \in Path /\ UNCHANGED <<registered_ss, placed>>
      BY <2>4, LookingFacts DEF LookupTrie, servers
    <3> QED
      BY <2>4, <3>1 DEF ThreadPlaced, TriePlaced
  <2>5. CASE /\ LookupPut(c) /\ pc[c] = "lookup_put"
             /\ req' = req /\ local'[c] = local[c]
    BY <1>3, <2>5 DEF Held, Looking, ThreadPlaced
  <2> QED
    BY <2>1, <2>2, <2>3, <2>4, <2>5, OwnMoves
<1>6. NodesPlaced'
  <2> SUFFICES ASSUME NEW n \in Live(cache')
               PROVE  <<cache'.path[n], cache'.info[n]>> \in placed'
    BY DEF NodesPlaced
  <2>1. CASE /\ n \in Live(cache)
             /\ cache'.path[n] = cache.path[n] /\ cache'.info[n] = cache.info[n]
    BY <1>1, <2>1 DEF NodesPlaced
  <2>2. CASE /\ LookupPut(c)
             /\ cache'.path[n] = req[c].path
             /\ cache'.info[n] = registered_ss[local[c].ss].server
    <3>1. pc[c] = "lookup_put" /\ local[c].node = Null
      BY <2>2 DEF LookupPut, Held
    <3> QED
      BY <1>1, <2>2, <3>1 DEF ThreadPlaced, Looking
  <2>3. pc[c] = "lookup_put" => local[c].node = Null
    BY DEF Held
  <2> QED
    BY <2>1, <2>2, <2>3, NodesStep
<1> QED
  BY <1>2, <1>4, <1>5, <1>6

-----------------------------------------------------------------------------
(* The theorems about the cache and the answers.                           *)

\* Every step keeps the invariant.
LEMMA HInvStep == HInv /\ [HNext]_hvars => HInv'
<1> SUFFICES ASSUME HInv, [HNext]_hvars PROVE HInv'
  OBVIOUS
<1>1. (Inv /\ HistoryOK)'
  BY HistoryWatches, HistoryStep, InvStep DEF HInv
<1>2. ASSUME NEW c \in Conn, Event(c) \/ (Quietly(c) /\ UNCHANGED history)
      PROVE  HInv'
  <2>1. Inv /\ HistoryOK /\ IndexedIn(cache) /\ NodesRight /\ TriePlaced /\ NodesPlaced
    BY DEF HInv
  <2>2. \A d \in Conn : Held(d) /\ Looked(d) /\ ThreadPlaced(d)
    BY DEF HInv
  <2>3. pc[c] = "lookup_put" => local[c].node = Null
    BY <2>2 DEF Held
  <2>4. IndexedIn(cache)'
    BY <1>2, <2>1, <2>3, NodesStep
  <2>5. \A d \in Conn : Held(d)'
    BY <1>2, <2>1, <2>2, HeldStep
  <2>6. \A d \in Conn : Looked(d)'
    BY <1>2, <2>1, <2>2, LookedStep
  <2>7. NodesRight'
    BY <1>2, <2>1, <2>2, NodesRightStep
  <2>8. TriePlaced' /\ NodesPlaced' /\ \A d \in Conn : ThreadPlaced(d)'
    BY <1>2, <2>1, <2>2, PlacedStep
  <2> QED
    BY <1>1, <2>4, <2>5, <2>6, <2>7, <2>8 DEF HInv
<1>3. CASE HRestart
  <2>1. HInit'
    BY <1>3 DEF HRestart, Restart, HInit, Init
  <2>2. (HInit => HInv)'
    BY HInvInit, PTL
  <2> QED
    BY <2>1, <2>2
<1>4. CASE UNCHANGED hvars
  <2>1. UNCHANGED <<registered_ss, trie, cache, pc, req, local, placed, stale, age>>
    BY <1>4 DEF hvars, vars, servers, threads, history
  <2> QED
    BY <1>1, <2>1 DEF HInv, IndexedIn, Held, HoldsNode, Looked, MapsTo, ThreadPlaced,
                      NodesRight, Right, BeingDeleted, TriePlaced, NodesPlaced
<1> QED
  BY <1>2, <1>3, <1>4 DEF HNext

\* The invariant of the cache and the answers holds throughout.
LEMMA HInvariance == HSpec => []HInv
BY HInvInit, HInvStep, PTL DEF HSpec

\* What the cache answers for a path alone in its bucket is what the trie answers, through
\* any overlap of requests, evictions and restarts, but for a DELETE under way and a stale
\* path (naming_server.c:253-257, :363-367).
THEOREM CacheAgrees == HSpec => []CacheCoherent
<1>1. HInv => CacheCoherent
  <2> SUFFICES ASSUME HInv, NEW p \in Path, Alone(p), p \notin stale, ~BeingDeleted(p),
                      Found(cache, p) # Null
               PROVE  /\ trie[p] # Null
                      /\ cache.info[Found(cache, p)] = registered_ss[trie[p]].server
    BY DEF CacheCoherent
  <2>1. Found(cache, p) \in Live(cache) /\ cache.path[Found(cache, p)] = p
    BY FoundFacts DEF HInv, Inv, TypeOK, SharedOK
  <2>2. Right(p, cache.info[Found(cache, p)])
    BY <2>1 DEF HInv, NodesRight
  <2> QED
    BY <2>2 DEF Right
<1> QED
  BY <1>1, HInvariance, PTL

\* The node lru_get returned outlives the lock unless LRU_CACHE_SIZE later uses of the cache
\* or a DELETE of its path come in between (naming_server.c:362, :373).
THEOREM HeldNodes == HSpec => []HeldNodeStays
<1>1. HInv => HeldNodeStays
  BY DEF HInv, HeldNodeStays, Held
<1> QED
  BY <1>1, HInvariance, PTL

\* The server a lookup answers with.
LEMMA Answers ==
    ASSUME HInv, NEW c \in Conn, LookupAnswer(c)
    PROVE  /\ pc[c] = "lookup_answer" /\ req[c].path \in Path
           /\ reply'[c].server = Pointed(c)
           /\ local[c].node = Null => local[c].ss \in Slot
<1>1. Inv /\ ThreadsOK /\ pc[c] = "lookup_answer"
  BY DEF HInv, Inv, TypeOK, LookupAnswer
<1>2. reply'[c].server = Pointed(c)
  BY <1>1, AnswerMoves DEF LookupAnswer
<1> QED
  BY <1>1, <1>2, LookingFacts DEF Looking

\* A client is only sent to a server where its path was placed, for any hash and through
\* deletions and evictions, while the node it is answered from stays
\* (naming_server.c:370-375).
THEOREM RedirectsWerePlaced == HSpec => RedirectWasPlaced
<1>1. HInv /\ [HNext]_hvars =>
          [\A c \in Conn :
              LookupAnswer(c) /\ (local[c].node # Null => age[c] < LRU_CACHE_SIZE) =>
                  <<req[c].path, reply'[c].server>> \in placed]_hvars
  <2> SUFFICES ASSUME HInv, NEW c \in Conn, LookupAnswer(c),
                      local[c].node # Null => age[c] < LRU_CACHE_SIZE
               PROVE  <<req[c].path, reply'[c].server>> \in placed
    OBVIOUS
  <2>1. CASE local[c].node = Null
    BY <2>1, Answers DEF HInv, ThreadPlaced, Looking, Pointed
  <2>2. CASE local[c].node # Null
    <3>1. local[c].node \in Live(cache) /\ cache.path[local[c].node] = req[c].path
      BY <2>2, Answers DEF HInv, Held, HoldsNode
    <3> QED
      BY <2>2, <3>1, Answers DEF HInv, NodesPlaced, Pointed
  <2> QED
    BY <2>1, <2>2
<1> QED
  BY <1>1, HInvariance, PTL DEF HSpec, RedirectWasPlaced

\* A client is sent to the server the trie gives at that moment, for a path alone in its
\* bucket or not in the cache, unless the path is stale or was deleted since it was looked
\* up (naming_server.c:359-375).
THEOREM RedirectsAreCurrent == HSpec => RedirectIsCurrent
<1>1. HInv /\ [HNext]_hvars =>
          [\A c \in Conn :
              LET p == req[c].path
              IN  /\ LookupAnswer(c)
                  /\ age[c] < LRU_CACHE_SIZE /\ p \notin stale /\ ~BeingDeleted(p)
                  /\ local[c].node # Null => Alone(p)
                  => /\ trie[p] # Null
                     /\ reply'[c].server = registered_ss[trie[p]].server]_hvars
  <2> DEFINE p(c) == req[c].path
  <2> SUFFICES ASSUME HInv, NEW c \in Conn, LookupAnswer(c), age[c] < LRU_CACHE_SIZE,
                      p(c) \notin stale, ~BeingDeleted(p(c)), local[c].node # Null => Alone(p(c))
               PROVE  trie[p(c)] # Null /\ reply'[c].server = registered_ss[trie[p(c)]].server
    OBVIOUS
  <2>1. CASE local[c].node = Null
    <3>1. MapsTo(p(c), local[c].ss)
      BY <2>1, Answers DEF HInv, Looked, Looking
    <3> QED
      BY <2>1, <3>1, Answers, SlotAssumption DEF MapsTo, Pointed
  <2>2. CASE local[c].node # Null
    <3>1. local[c].node \in Live(cache) /\ cache.path[local[c].node] = p(c)
      BY <2>2, Answers DEF HInv, Held, HoldsNode
    <3>2. Right(p(c), cache.info[local[c].node])
      BY <2>2, <3>1 DEF HInv, NodesRight
    <3> QED
      BY <2>2, <3>2, Answers DEF Right, Pointed
  <2> QED
    BY <2>1, <2>2
<1> QED
  BY <1>1, HInvariance, PTL DEF HSpec, RedirectIsCurrent

=============================================================================

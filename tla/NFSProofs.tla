------------------------------ MODULE NFSProofs -----------------------------
(***************************************************************************)
(* Theorems about the whole system, for any number of clients, servers and *)
(* paths: the trie agrees with the disks as long as one client mutates.    *)
(***************************************************************************)
EXTENDS NFS, TLAPS

Mutations == {"CREATE_FILE", "DELETE_FILE", "COPY_FILE"}
Done == {"create_done", "delete_done", "copy_done"}

Creating == {"CREATE_FILE", "create_call", "create_done"}
Deleting == {"DELETE_FILE", "delete_call", "delete_done"}
Copying == {"COPY_FILE", "copy_dest", "copy_call", "copy_push", "copy_done"}
Looking == {"READ_FILE", "WRITE_FILE", "lookup_trie", "lookup_put", "redirected"}

\* What a handler has at each position.
Fits(c) ==
    /\ handler[c].pc \notin {"idle", "broken"} => handler[c].req \in Asks[c]
    /\ handler[c].pc \in Creating => Op(c) = "CREATE_FILE"
    /\ handler[c].pc \in Deleting => Op(c) = "DELETE_FILE"
    /\ handler[c].pc \in Copying => Op(c) = "COPY_FILE"
    /\ handler[c].pc \in Looking => Op(c) \in {"READ_FILE", "WRITE_FILE"}
    /\ handler[c].pc \in {"lookup_put", "redirected", "create_call", "create_done",
                          "delete_call", "delete_done", "copy_dest", "copy_call",
                          "copy_push", "copy_done"} => SS(c) \in Server
    /\ handler[c].pc \in {"copy_call", "copy_push", "copy_done"} => Dest(c) \in Server
    /\ handler[c].changed => handler[c].pc \in Done

TypeInv == TypeOK /\ \A c \in Conn : Fits(c)

-----------------------------------------------------------------------------
\* The fields of a request.
LEMMA RequestFacts ==
    ASSUME NEW c \in Conn, NEW r \in Asks[c]
    PROVE  /\ r \in Request
           /\ r.path \in Path
           /\ r.op \in {"READ_FILE", "WRITE_FILE"} \cup Mutations
           /\ r.op = "COPY_FILE" => r.path2 \in Path
<1>1. r \in Request
  BY AsksAssumption
<1> QED
  BY <1>1 DEF Request, Mutations

\* What a handler's positions say of its request.
LEMMA FieldFacts ==
    ASSUME TypeInv, NEW c \in Conn, handler[c].pc \notin {"idle", "broken"}
    PROVE  /\ handler[c].req \in Asks[c]
           /\ PathOf(c) \in Path
           /\ handler[c].pc \in Copying => DestOf(c) \in Path
<1>1. handler[c].req \in Asks[c]
  BY DEF TypeInv, Fits
<1> QED
  BY <1>1, RequestFacts DEF TypeInv, Fits, PathOf, DestOf, Op, Copying

\* One handler moves.
LEMMA OneMoves ==
    ASSUME TypeInv, NEW c \in Conn, NEW h \in Handler, handler' = [handler EXCEPT ![c] = h],
           Fits(c)'
    PROVE  /\ handler' \in [Conn -> Handler]
           /\ \A d \in Conn : Fits(d)'
<1>1. handler' \in [Conn -> Handler]
  BY DEF TypeInv, TypeOK
<1>2. ASSUME NEW d \in Conn PROVE Fits(d)'
  <2>1. CASE d = c
    BY <2>1
  <2>2. CASE d # c
    <3>1. handler'[d] = handler[d] /\ Fits(d)
      BY <2>2 DEF TypeInv, TypeOK
    <3> QED
      BY <3>1 DEF Fits, Op, SS, Dest
  <2> QED
    BY <2>1, <2>2
<1> QED
  BY <1>1, <1>2

\* The handler of a request that is over.
LEMMA IdleFacts == /\ Idle \in Handler
                   /\ Idle.pc = "idle" /\ Idle.changed = FALSE
BY DEF Idle, Handler, Location

\* An answer leaves the handler idle.
LEMMA AnswerKeeps ==
    ASSUME TypeInv, NEW c \in Conn, NEW code \in Code, Answer(c, code)
    PROVE  /\ handler' \in [Conn -> Handler]
           /\ \A d \in Conn : Fits(d)'
           /\ sent' \in [to : Conn, code : Code] \cup {Null}
<1>1. handler' = [handler EXCEPT ![c] = Idle] /\ handler'[c] = Idle
  BY DEF Answer, TypeInv, TypeOK
<1>2. Fits(c)'
  BY <1>1, IdleFacts DEF Fits, Creating, Deleting, Copying, Looking
<1> QED
  BY <1>1, <1>2, IdleFacts, OneMoves DEF Answer

\* A handler that goes on keeps its request and takes a server.
LEMMA GoesOn ==
    ASSUME TypeInv, NEW c \in Conn, NEW h \in Handler, handler' = [handler EXCEPT ![c] = h],
           handler[c].pc \notin {"idle", "broken"}, h.pc \notin {"idle", "broken"},
           h.req = handler[c].req,
           \/ handler[c].pc \in Creating /\ h.pc \in Creating
           \/ handler[c].pc \in Deleting /\ h.pc \in Deleting
           \/ handler[c].pc \in Copying /\ h.pc \in Copying
           \/ handler[c].pc \in Looking /\ h.pc \in Looking,
           h.pc \in {"READ_FILE", "WRITE_FILE", "lookup_trie"} \/ h.ss \in Server,
           h.pc \in {"copy_call", "copy_push", "copy_done"} => h.dest \in Server,
           h.changed => h.pc \in Done
    PROVE  /\ handler' \in [Conn -> Handler]
           /\ \A d \in Conn : Fits(d)'
<1>1. handler'[c] = h /\ Fits(c)
  BY DEF TypeInv, TypeOK
<1>2. Fits(c)'
  BY <1>1 DEF Fits, Op, SS, Dest, Creating, Deleting, Copying, Looking
<1> QED
  BY <1>2, OneMoves

-----------------------------------------------------------------------------
\* A request is made.
LEMMA AskTypes ==
    ASSUME TypeInv, NEW c \in Conn, Ask(c)
    PROVE  TypeInv'
<1>1. PICK r \in Asks[c] :
         handler' = [handler EXCEPT ![c] = [Idle EXCEPT !.pc = r.op, !.req = r]]
  BY DEF Ask
<1> DEFINE h == [Idle EXCEPT !.pc = r.op, !.req = r]
<1>2. /\ h \in Handler
      /\ h.pc = r.op /\ h.req = r /\ h.changed = FALSE
  BY <1>1, RequestFacts DEF Idle, Handler, Location, Mutations
<1>3. handler' = [handler EXCEPT ![c] = h] /\ handler'[c] = h
  BY <1>1 DEF TypeInv, TypeOK
<1>4. Fits(c)'
  BY <1>1, <1>2, <1>3, RequestFacts
     DEF Fits, Op, Creating, Deleting, Copying, Looking, Mutations
<1>5. handler' \in [Conn -> Handler] /\ \A d \in Conn : Fits(d)'
  BY <1>2, <1>3, <1>4, OneMoves
<1> QED
  BY <1>5 DEF TypeInv, TypeOK, Ask, background

\* A handler's request is answered and nothing else changes.
LEMMA AnswerOnlyTypes ==
    ASSUME TypeInv, NEW c \in Conn, NEW code \in Code, AnswerOnly(c, code)
    PROVE  TypeInv'
<1>1. Answer(c, code) /\ UNCHANGED <<background, status, files, doubt>>
  BY DEF AnswerOnly
<1> QED
  BY <1>1, AnswerKeeps DEF TypeInv, TypeOK, background

\* The actions of a client that has been redirected.
LEMMA ClientTypes ==
    ASSUME TypeInv, NEW c \in Conn, ClientRead(c) \/ ClientWrite(c)
    PROVE  TypeInv'
<1>1. PathOf(c) \in Path /\ SS(c) \in Server
  BY FieldFacts DEF ClientRead, ClientWrite, At, TypeInv, Fits
<1>2. CASE \E code \in Code : AnswerOnly(c, code)
  BY <1>2, AnswerOnlyTypes
<1>3. ASSUME NEW code \in Code, Answer(c, code), UNCHANGED <<background, status>>,
             files' = [files EXCEPT ![SS(c)] = @ \cup {PathOf(c)}],
             doubt' = doubt \/ doubt' = doubt \cup {<<SS(c), PathOf(c)>>}
      PROVE  TypeInv'
  <2>1. files' \in [Server -> SUBSET Path] /\ doubt' \subseteq Server \X Path
    BY <1>1, <1>3 DEF TypeInv, TypeOK
  <2> QED
    BY <1>3, <2>1, AnswerKeeps DEF TypeInv, TypeOK, background
<1> QED
  BY <1>2, <1>3 DEF ClientRead, ClientWrite, Refused, Code

\* An entry of the cache is freed.
LEMMA FreedTypes ==
    ASSUME TypeInv, NEW p \in Path, NEW s \in Server
    PROVE  Freed(p, s) \subseteq [Path -> SUBSET Server]
<1>1. cache \in [Path -> SUBSET Server]
  BY DEF TypeInv, TypeOK
<1> QED
  BY <1>1 DEF Freed

\* The actions of a lookup.
LEMMA LookupTypes ==
    ASSUME TypeInv, NEW c \in Conn, LookupCache(c) \/ LookupTrie(c) \/ LookupPut(c)
    PROVE  TypeInv'
<1>1. /\ PathOf(c) \in Path /\ handler[c] \in Handler /\ handler[c].pc \in Looking
      /\ trie[PathOf(c)] \in Server \cup {Null} /\ cache[PathOf(c)] \subseteq Server
      /\ handler[c].pc = "lookup_put" => SS(c) \in Server
      /\ ~handler[c].changed
  BY FieldFacts DEF LookupCache, LookupTrie, LookupPut, At, Looking, TypeInv, TypeOK, Fits, Done
<1>2. CASE AnswerOnly(c, "FILE_NOT_FOUND")
  BY <1>2, AnswerOnlyTypes DEF Code
<1>3. ASSUME NEW h \in Handler, handler' = [handler EXCEPT ![c] = h], sent' = Null,
             h.req = handler[c].req, ~h.changed, h.pc \in Looking,
             h.pc = "lookup_trie" \/ h.ss \in Server,
             UNCHANGED <<trie, registered, late, status, files, doubt>>,
             cache' \in [Path -> SUBSET Server]
      PROVE  TypeInv'
  <2>1. handler' \in [Conn -> Handler] /\ \A d \in Conn : Fits(d)'
    BY <1>1, <1>3, GoesOn DEF Looking, Done
  <2> QED
    BY <1>3, <2>1 DEF TypeInv, TypeOK
<1>4. ASSUME NEW s \in cache[PathOf(c)], LookupCache(c), sent' = Null,
             handler' = [handler EXCEPT ![c].pc = "redirected", ![c].ss = s]
      PROVE  TypeInv'
  <2> DEFINE h == [handler[c] EXCEPT !.pc = "redirected", !.ss = s]
  <2>1. h \in Handler
    BY <1>1, <1>4 DEF Handler, Location
  <2>2. h.pc = "redirected" /\ h.ss \in Server /\ h.req = handler[c].req /\ ~h.changed
    BY <1>1, <1>4 DEF Handler
  <2>3. handler' = [handler EXCEPT ![c] = h]
    BY <1>4
  <2> QED
    BY <1>3, <1>4, <2>1, <2>2, <2>3 DEF LookupCache, background, Looking, TypeInv, TypeOK
<1>5. CASE LookupCache(c) /\ Goto(c, "lookup_trie")
  <2> DEFINE h == [handler[c] EXCEPT !.pc = "lookup_trie"]
  <2>1. h \in Handler
    BY <1>1 DEF Handler, Location
  <2>2. h.pc = "lookup_trie" /\ h.req = handler[c].req /\ ~h.changed
    BY <1>1 DEF Handler
  <2>3. handler' = [handler EXCEPT ![c] = h]
    BY <1>5 DEF Goto
  <2> QED
    BY <1>3, <1>5, <2>1, <2>2, <2>3
       DEF LookupCache, Goto, background, Looking, TypeInv, TypeOK
<1>6. CASE LookupTrie(c) /\ trie[PathOf(c)] # Null
  <2> DEFINE h == [handler[c] EXCEPT !.pc = "lookup_put", !.ss = trie[PathOf(c)]]
  <2>1. h \in Handler
    BY <1>1, <1>6 DEF Handler, Location
  <2>2. h.pc = "lookup_put" /\ h.ss \in Server /\ h.req = handler[c].req /\ ~h.changed
    BY <1>1, <1>6 DEF Handler
  <2>3. handler' = [handler EXCEPT ![c] = h]
    BY <1>6 DEF LookupTrie
  <2> QED
    BY <1>3, <1>6, <2>1, <2>2, <2>3 DEF LookupTrie, background, Looking, TypeInv, TypeOK
<1>7. CASE LookupPut(c)
  <2> DEFINE h == [handler[c] EXCEPT !.pc = "redirected"]
  <2>1. h \in Handler
    BY <1>1 DEF Handler, Location
  <2>2. h.pc = "redirected" /\ h.ss \in Server /\ h.req = handler[c].req /\ ~h.changed
    BY <1>1, <1>7 DEF Handler, LookupPut, At, SS
  <2>3. handler' = [handler EXCEPT ![c] = h] /\ SS(c) \in Server
    BY <1>1, <1>7 DEF LookupPut, Goto, At
  <2>4. PICK p \in Path, s \in Server : \E left \in Freed(p, s) :
           cache' = left \/ cache' = [left EXCEPT ![PathOf(c)] = @ \cup {SS(c)}]
    BY <1>7 DEF LookupPut
  <2>5. Freed(p, s) \subseteq [Path -> SUBSET Server]
    BY <2>4, FreedTypes
  <2>6. cache' \in [Path -> SUBSET Server]
    BY <1>1, <2>3, <2>4, <2>5
  <2> QED
    BY <1>3, <1>7, <2>1, <2>2, <2>3, <2>6 DEF LookupPut, Goto, Looking
<1> QED
  BY <1>2, <1>4, <1>5, <1>6, <1>7 DEF LookupCache, LookupTrie

\* A call that fails, whose answer is lost or whose connection breaks.
LEMMA FailureTypes ==
    ASSUME TypeInv, NEW c \in Conn, CallFails(c) \/ AnswerLost(c) \/ CallBroken(c)
    PROVE  TypeInv'
<1>1. CASE \E code \in Code : AnswerOnly(c, code)
  BY <1>1, AnswerOnlyTypes
<1>2. CASE AnswerLost(c)
  <2>1. Untold(c) \subseteq Server \X Path
    BY FieldFacts DEF Untold, At, Copying, TypeInv, Fits
  <2> QED
    BY <1>2, <2>1, AnswerKeeps DEF AnswerLost, TypeInv, TypeOK, background, Code
<1> QED
  BY <1>1, <1>2 DEF CallFails, CallBroken, Code

\* The trie is told where a path is.
LEMMA MapTypes ==
    ASSUME TypeInv, NEW c \in Conn, NEW p \in Path, NEW s \in Server, Map(c, p, s),
           UNCHANGED cache
    PROVE  TypeInv'
<1>1. TakenFrom(p, s) \subseteq Server \X Path
  BY DEF TakenFrom, TypeInv, TypeOK
<1>2. trie' \in [Path -> Server \cup {Null}] /\ doubt' \subseteq Server \X Path
  BY <1>1 DEF Map, TypeInv, TypeOK
<1> QED
  BY <1>2, AnswerKeeps DEF Map, TypeInv, TypeOK, Code

\* A handler of CREATE, DELETE or COPY goes on, and only files and doubt may change.
LEMMA StepTypes ==
    ASSUME TypeInv, NEW c \in Conn, NEW h \in Handler, handler' = [handler EXCEPT ![c] = h],
           sent' = Null, h.req = handler[c].req,
           \/ handler[c].pc \in Creating /\ h.pc \in Creating
           \/ handler[c].pc \in Deleting /\ h.pc \in Deleting
           \/ handler[c].pc \in Copying /\ h.pc \in Copying,
           h.ss \in Server,
           h.pc \in {"copy_call", "copy_push", "copy_done"} => h.dest \in Server,
           h.changed => h.pc \in Done,
           UNCHANGED <<background, status>>,
           files' \in [Server -> SUBSET Path], doubt' \subseteq Server \X Path
    PROVE  TypeInv'
<1>1. handler' \in [Conn -> Handler] /\ \A d \in Conn : Fits(d)'
  BY GoesOn DEF Creating, Deleting, Copying
<1> QED
  BY <1>1 DEF TypeInv, TypeOK, background

\* The actions of a creation.
LEMMA CreateTypes ==
    ASSUME TypeInv, NEW c \in Conn, CreateCheck(c) \/ CreateServe(c) \/ CreateUpdate(c)
    PROVE  TypeInv'
<1>1. /\ PathOf(c) \in Path /\ handler[c] \in Handler /\ handler[c].pc \in Creating
      /\ handler[c].pc # "CREATE_FILE" => SS(c) \in Server
      /\ handler[c].changed => handler[c].pc \in Done
  BY FieldFacts DEF CreateCheck, CreateServe, CreateUpdate, At, Creating, TypeInv, TypeOK, Fits
<1>2. CASE \E code \in Code : AnswerOnly(c, code)
  BY <1>2, AnswerOnlyTypes
<1>3. ASSUME NEW s \in registered, At(c, "CREATE_FILE"), sent' = Null,
             handler' = [handler EXCEPT ![c].pc = "create_call", ![c].ss = s],
             UNCHANGED <<background, status, files, doubt>>
      PROVE  TypeInv'
  <2> DEFINE h == [handler[c] EXCEPT !.pc = "create_call", !.ss = s]
  <2>1. h \in Handler
    BY <1>1 DEF Handler, Location, TypeInv, TypeOK
  <2>2. h.pc = "create_call" /\ h.ss \in Server /\ h.req = handler[c].req /\ ~h.changed
    BY <1>1, <1>3 DEF Handler, TypeInv, TypeOK, At, Done
  <2>3. handler' = [handler EXCEPT ![c] = h]
    BY <1>3
  <2>4. files' \in [Server -> SUBSET Path] /\ doubt' \subseteq Server \X Path
    BY <1>3 DEF TypeInv, TypeOK
  <2> QED
    BY <1>1, <1>3, <2>1, <2>2, <2>3, <2>4, StepTypes DEF Creating
<1>4. CASE /\ At(c, "create_call") /\ Served(c, "create_done")
           /\ files' = [files EXCEPT ![SS(c)] = @ \cup {PathOf(c)}]
           /\ doubt' = doubt \ {<<SS(c), PathOf(c)>>}
  <2> DEFINE h == [handler[c] EXCEPT !.pc = "create_done", !.changed = TRUE]
  <2>1. h \in Handler
    BY <1>1 DEF Handler, Location
  <2>2. h.pc = "create_done" /\ h.ss \in Server /\ h.req = handler[c].req
    BY <1>1, <1>4 DEF Handler, SS, At
  <2>3. handler' = [handler EXCEPT ![c] = h]
    BY <1>4 DEF Served
  <2>4. files' \in [Server -> SUBSET Path] /\ doubt' \subseteq Server \X Path
    BY <1>1, <1>4 DEF At, TypeInv, TypeOK
  <2> QED
    BY <1>1, <1>4, <2>1, <2>2, <2>3, <2>4, StepTypes DEF Served, Creating, Done
<1>5. CASE CreateUpdate(c)
  BY <1>1, <1>5, MapTypes DEF CreateUpdate, At
<1> QED
  BY <1>2, <1>3, <1>4, <1>5 DEF CreateCheck, CreateServe, Code

\* The actions of a deletion.
LEMMA DeleteTypes ==
    ASSUME TypeInv, NEW c \in Conn, DeleteFind(c) \/ DeleteServe(c) \/ DeleteUpdate(c)
    PROVE  TypeInv'
<1>1. /\ PathOf(c) \in Path /\ handler[c] \in Handler /\ handler[c].pc \in Deleting
      /\ handler[c].pc # "DELETE_FILE" => SS(c) \in Server
      /\ handler[c].changed => handler[c].pc \in Done
  BY FieldFacts DEF DeleteFind, DeleteServe, DeleteUpdate, At, Deleting, TypeInv, TypeOK, Fits
<1>2. CASE \E code \in Code : AnswerOnly(c, code)
  BY <1>2, AnswerOnlyTypes
<1>3. CASE /\ At(c, "DELETE_FILE") /\ trie[PathOf(c)] # Null /\ sent' = Null
           /\ handler' = [handler EXCEPT ![c].pc = "delete_call", ![c].ss = trie[PathOf(c)]]
           /\ UNCHANGED <<background, status, files, doubt>>
  <2> DEFINE h == [handler[c] EXCEPT !.pc = "delete_call", !.ss = trie[PathOf(c)]]
  <2>0. trie[PathOf(c)] \in Server
    BY <1>1, <1>3 DEF TypeInv, TypeOK
  <2>1. h \in Handler
    BY <1>1, <2>0 DEF Handler, Location
  <2>2. h.pc = "delete_call" /\ h.ss \in Server /\ h.req = handler[c].req /\ ~h.changed
    BY <1>1, <1>3, <2>0 DEF Handler, At, Done
  <2>3. handler' = [handler EXCEPT ![c] = h]
    BY <1>3
  <2>4. files' \in [Server -> SUBSET Path] /\ doubt' \subseteq Server \X Path
    BY <1>3 DEF TypeInv, TypeOK
  <2> QED
    BY <1>1, <1>3, <2>1, <2>2, <2>3, <2>4, StepTypes DEF Deleting
<1>4. CASE /\ At(c, "delete_call") /\ Served(c, "delete_done")
           /\ files' = [files EXCEPT ![SS(c)] = @ \ {PathOf(c)}]
           /\ doubt' = doubt \ {<<SS(c), PathOf(c)>>}
  <2> DEFINE h == [handler[c] EXCEPT !.pc = "delete_done", !.changed = TRUE]
  <2>1. h \in Handler
    BY <1>1 DEF Handler, Location
  <2>2. h.pc = "delete_done" /\ h.ss \in Server /\ h.req = handler[c].req
    BY <1>1, <1>4 DEF Handler, SS, At
  <2>3. handler' = [handler EXCEPT ![c] = h]
    BY <1>4 DEF Served
  <2>4. files' \in [Server -> SUBSET Path] /\ doubt' \subseteq Server \X Path
    BY <1>1, <1>4 DEF At, TypeInv, TypeOK
  <2> QED
    BY <1>1, <1>4, <2>1, <2>2, <2>3, <2>4, StepTypes DEF Served, Deleting, Done
<1>5. CASE DeleteUpdate(c)
  <2>1. TakenFrom(PathOf(c), SS(c)) \subseteq Server \X Path
    BY <1>1 DEF TakenFrom, TypeInv, TypeOK
  <2>2. trie' \in [Path -> Server \cup {Null}] /\ doubt' \subseteq Server \X Path
    BY <1>1, <1>5, <2>1 DEF DeleteUpdate, TypeInv, TypeOK
  <2>3. cache' \in [Path -> SUBSET Server]
    BY <1>1, <1>5, FreedTypes DEF DeleteUpdate
  <2> QED
    BY <1>5, <2>2, <2>3, AnswerKeeps DEF DeleteUpdate, TypeInv, TypeOK, Code
<1> QED
  BY <1>2, <1>3, <1>4, <1>5 DEF DeleteFind, DeleteServe, Refused, Code

\* The actions of a copy.
LEMMA CopyTypes ==
    ASSUME TypeInv, NEW c \in Conn,
           CopyFind(c) \/ CopyDest(c) \/ CopyServe(c) \/ CopyPush(c) \/ CopyUpdate(c)
    PROVE  TypeInv'
<1>1. /\ PathOf(c) \in Path /\ DestOf(c) \in Path
      /\ handler[c] \in Handler /\ handler[c].pc \in Copying
      /\ handler[c].pc # "COPY_FILE" => SS(c) \in Server
      /\ handler[c].pc \in {"copy_call", "copy_push", "copy_done"} => Dest(c) \in Server
      /\ handler[c].changed => handler[c].pc \in Done
  BY FieldFacts DEF CopyFind, CopyDest, CopyServe, CopyPush, CopyUpdate, At, Copying,
                    TypeInv, TypeOK, Fits
<1>2. CASE \E code \in Code : AnswerOnly(c, code)
  BY <1>2, AnswerOnlyTypes
<1>3. CASE /\ At(c, "COPY_FILE") /\ trie[PathOf(c)] # Null /\ sent' = Null
           /\ handler' = [handler EXCEPT ![c].pc = "copy_dest", ![c].ss = trie[PathOf(c)]]
           /\ UNCHANGED <<background, status, files, doubt>>
  <2> DEFINE h == [handler[c] EXCEPT !.pc = "copy_dest", !.ss = trie[PathOf(c)]]
  <2>0. trie[PathOf(c)] \in Server
    BY <1>1, <1>3 DEF TypeInv, TypeOK
  <2>1. h \in Handler
    BY <1>1, <2>0 DEF Handler, Location
  <2>2. h.pc = "copy_dest" /\ h.ss \in Server /\ h.req = handler[c].req /\ ~h.changed
    BY <1>1, <1>3, <2>0 DEF Handler, At, Done
  <2>3. handler' = [handler EXCEPT ![c] = h]
    BY <1>3
  <2>4. files' \in [Server -> SUBSET Path] /\ doubt' \subseteq Server \X Path
    BY <1>3 DEF TypeInv, TypeOK
  <2> QED
    BY <1>1, <1>3, <2>1, <2>2, <2>3, <2>4, StepTypes DEF Copying
<1>4. ASSUME NEW s \in Server, NEW new \in BOOLEAN, At(c, "copy_dest"), sent' = Null,
             handler' = [handler EXCEPT ![c].pc = "copy_call", ![c].dest = s, ![c].new = new],
             UNCHANGED <<background, status, files, doubt>>
      PROVE  TypeInv'
  <2> DEFINE h == [handler[c] EXCEPT !.pc = "copy_call", !.dest = s, !.new = new]
  <2>1. h \in Handler
    BY <1>1 DEF Handler, Location
  <2>2. /\ h.pc = "copy_call" /\ h.ss \in Server /\ h.dest \in Server
        /\ h.req = handler[c].req /\ ~h.changed
    BY <1>1, <1>4 DEF Handler, At, Done, SS
  <2>3. handler' = [handler EXCEPT ![c] = h]
    BY <1>4
  <2>4. files' \in [Server -> SUBSET Path] /\ doubt' \subseteq Server \X Path
    BY <1>4 DEF TypeInv, TypeOK
  <2> QED
    BY <1>1, <1>4, <2>1, <2>2, <2>3, <2>4, StepTypes DEF Copying
<1>5. CASE CopyDest(c)
  <2>1. CASE \E s \in registered :
                handler' = [handler EXCEPT ![c].pc = "copy_call", ![c].dest = s,
                                           ![c].new = TRUE]
    BY <1>4, <1>5, <2>1 DEF CopyDest, TypeInv, TypeOK
  <2>2. CASE /\ trie[DestOf(c)] # Null
             /\ handler' = [handler EXCEPT ![c].pc = "copy_call",
                                           ![c].dest = trie[DestOf(c)]]
    <3>1. trie[DestOf(c)] \in Server /\ handler[c].new \in BOOLEAN
      BY <1>1, <2>2 DEF TypeInv, TypeOK, Handler
    <3>2. handler' = [handler EXCEPT ![c].pc = "copy_call", ![c].dest = trie[DestOf(c)],
                                     ![c].new = handler[c].new]
      <4>1. [handler[c] EXCEPT !.pc = "copy_call", !.dest = trie[DestOf(c)]]
             = [handler[c] EXCEPT !.pc = "copy_call", !.dest = trie[DestOf(c)],
                                  !.new = handler[c].new]
        BY <1>1 DEF Handler
      <4> QED
        BY <2>2, <4>1
    <3> QED
      BY <1>4, <1>5, <3>1, <3>2 DEF CopyDest
  <2> QED
    BY <1>5, <2>1, <2>2 DEF CopyDest
<1>6. CASE /\ At(c, "copy_call") /\ Goto(c, "copy_push")
           /\ UNCHANGED <<background, status, files, doubt>>
  <2> DEFINE h == [handler[c] EXCEPT !.pc = "copy_push"]
  <2>1. h \in Handler
    BY <1>1 DEF Handler, Location
  <2>2. /\ h.pc = "copy_push" /\ h.ss \in Server /\ h.dest \in Server
        /\ h.req = handler[c].req /\ ~h.changed
    BY <1>1, <1>6 DEF Handler, At, Done, SS, Dest
  <2>3. handler' = [handler EXCEPT ![c] = h]
    BY <1>6 DEF Goto
  <2>4. files' \in [Server -> SUBSET Path] /\ doubt' \subseteq Server \X Path
    BY <1>6 DEF TypeInv, TypeOK
  <2> QED
    BY <1>1, <1>6, <2>1, <2>2, <2>3, <2>4, StepTypes DEF Copying, Goto
<1>7. CASE /\ At(c, "copy_push")
           /\ files' = [files EXCEPT ![Dest(c)] = @ \cup {DestOf(c)}]
           /\ \/ doubt' = doubt \ {<<Dest(c), DestOf(c)>>}
              \/ doubt' = doubt \cup {<<Dest(c), DestOf(c)>>}
           /\ \/ Served(c, "copy_done")
              \/ Answer(c, "ASYNC_WRITE_FAILED") /\ UNCHANGED <<background, status>>
  <2>1. files' \in [Server -> SUBSET Path] /\ doubt' \subseteq Server \X Path
    BY <1>1, <1>7 DEF At, TypeInv, TypeOK
  <2>2. CASE Answer(c, "ASYNC_WRITE_FAILED") /\ UNCHANGED <<background, status>>
    BY <2>1, <2>2, AnswerKeeps DEF TypeInv, TypeOK, background, Code
  <2>3. CASE Served(c, "copy_done")
    <3> DEFINE h == [handler[c] EXCEPT !.pc = "copy_done", !.changed = TRUE]
    <3>1. h \in Handler
      BY <1>1 DEF Handler, Location
    <3>2. /\ h.pc = "copy_done" /\ h.ss \in Server /\ h.dest \in Server
          /\ h.req = handler[c].req
      BY <1>1, <1>7 DEF Handler, SS, Dest, At
    <3>3. handler' = [handler EXCEPT ![c] = h]
      BY <2>3 DEF Served
    <3> QED
      BY <1>1, <2>1, <2>3, <3>1, <3>2, <3>3, StepTypes DEF Served, Copying, Done
  <2> QED
    BY <1>7, <2>2, <2>3
<1>8. CASE CopyUpdate(c)
  BY <1>1, <1>2, <1>8, MapTypes DEF CopyUpdate, At, Code
<1>9. CASE CopyFind(c)
  BY <1>2, <1>3, <1>9 DEF CopyFind, Code
<1>10. CASE CopyServe(c)
  BY <1>2, <1>6, <1>10 DEF CopyServe, Refused, Code
<1>11. CASE CopyPush(c)
  <2>1. CASE \E code \in Code : AnswerOnly(c, code)
    BY <1>2, <2>1
  <2>2. ASSUME ~\E code \in Code : AnswerOnly(c, code)
        PROVE  /\ At(c, "copy_push")
               /\ files' = [files EXCEPT ![Dest(c)] = @ \cup {DestOf(c)}]
               /\ \/ doubt' = doubt \ {<<Dest(c), DestOf(c)>>}
                  \/ doubt' = doubt \cup {<<Dest(c), DestOf(c)>>}
               /\ \/ Served(c, "copy_done")
                  \/ Answer(c, "ASYNC_WRITE_FAILED") /\ UNCHANGED <<background, status>>
    BY <1>11, <2>2, Zenon DEF CopyPush, Code
  <2> QED
    BY <1>7, <2>1, <2>2
<1> QED
  BY <1>5, <1>8, <1>9, <1>10, <1>11

\* The actions of a storage server.
LEMMA ServerTypes ==
    ASSUME TypeInv, NEW s \in Server, Register(s) \/ Listen(s) \/ Crash(s)
    PROVE  TypeInv'
<1>1. CASE Register(s)
  <2>1. Exports[s] \subseteq Path
    BY ExportsAssumption
  <2>2. \A p \in Path : TakenFrom(p, s) \subseteq Server \X Path
    BY DEF TakenFrom, TypeInv, TypeOK
  <2>3. doubt' \subseteq Server \X Path
    BY <1>1, <2>1, <2>2 DEF Register, TypeInv, TypeOK
  <2>4. /\ trie' \in [Path -> Server \cup {Null}] /\ registered' \subseteq Server
        /\ status' \in [Server -> {"down", "registered", "up"}]
    BY <1>1 DEF Register, TypeInv, TypeOK
  <2>5. \A c \in Conn : Fits(c)'
    BY <1>1 DEF Register, Fits, TypeInv, Op, SS, Dest
  <2> QED
    BY <1>1, <2>3, <2>4, <2>5 DEF Register, TypeInv, TypeOK
<1>2. CASE Listen(s)
  <2>1. \A c \in Conn : Fits(c)'
    BY <1>2 DEF Listen, Fits, TypeInv, Op, SS, Dest
  <2> QED
    BY <1>2, <2>1 DEF Listen, TypeInv, TypeOK, background
<1>3. CASE Crash(s)
  <2> DEFINE broken == [Idle EXCEPT !.pc = "broken"]
  <2>1. /\ broken \in Handler /\ broken.pc = "broken" /\ broken.changed = FALSE
    BY DEF Idle, Handler, Location
  <2>2. ASSUME NEW c \in Conn
        PROVE  handler'[c] \in Handler /\ Fits(c)'
    <3>1. CASE handler'[c] = broken
      BY <2>1, <3>1 DEF Fits, Creating, Deleting, Copying, Looking
    <3>2. CASE handler'[c] = handler[c]
      BY <3>2 DEF Fits, TypeInv, TypeOK, Op, SS, Dest
    <3> QED
      BY <1>3, <3>1, <3>2 DEF Crash
  <2>3. handler' \in [Conn -> Handler]
    BY <1>3, <2>2 DEF Crash
  <2>4. ASSUME NEW c \in Conn
        PROVE  WaitsFor(c, s) => Untold(c) \subseteq Server \X Path
    BY FieldFacts DEF Untold, WaitsFor, At, Copying, TypeInv, Fits
  <2>5. doubt' \subseteq Server \X Path
    BY <1>3, <2>4 DEF Crash, TypeInv, TypeOK
  <2>6. status' \in [Server -> {"down", "registered", "up"}]
    BY <1>3 DEF Crash, TypeInv, TypeOK
  <2>7. Pushed(s) \subseteq Server \X Path
    BY FieldFacts DEF Pushed, At, Copying, TypeInv, Fits
  <2>8. late' \subseteq Server \X Path
    BY <1>3, <2>7 DEF Crash, TypeInv, TypeOK
  <2> QED
    BY <1>3, <2>2, <2>3, <2>5, <2>6, <2>8 DEF Crash, TypeInv, TypeOK
<1> QED
  BY <1>1, <1>2, <1>3

\* The write of a copy whose source has stopped.
LEMMA LateTypes ==
    ASSUME TypeInv, NEW s \in Server, NEW p \in Path, LateWrite(s, p)
    PROVE  TypeInv'
<1>1. \A c \in Conn : Fits(c)'
  BY DEF LateWrite, Fits, TypeInv, Op, SS, Dest
<1>2. /\ files' \in [Server -> SUBSET Path]
      /\ late' \subseteq Server \X Path /\ doubt' \subseteq Server \X Path
  BY DEF LateWrite, TypeInv, TypeOK
<1> QED
  BY <1>1, <1>2 DEF LateWrite, TypeInv, TypeOK

\* At the start every handler is idle.
LEMMA TypeInit == Init => TypeInv
<1> SUFFICES ASSUME Init PROVE TypeInv
  OBVIOUS
<1>1. \A c \in Conn : Fits(c)
  BY IdleFacts DEF Init, Fits, Creating, Deleting, Copying, Looking
<1>2. files \in [Server -> SUBSET Path]
  BY DiskAssumption DEF Init
<1> QED
  BY <1>1, <1>2, IdleFacts DEF Init, TypeInv, TypeOK

\* Every step keeps it.
LEMMA TypeStep == TypeInv /\ [Next]_vars => TypeInv'
<1> SUFFICES ASSUME TypeInv, [Next]_vars PROVE TypeInv'
  OBVIOUS
<1>1. CASE UNCHANGED vars
  BY <1>1 DEF vars, background, TypeInv, TypeOK, Fits, Op, SS, Dest
<1>2. CASE \E s \in Server : Register(s) \/ Listen(s) \/ Crash(s)
  BY <1>2, ServerTypes
<1>3. ASSUME NEW c \in Conn, Ask(c) \/ Serve(c)
      PROVE  TypeInv'
  BY <1>3, AskTypes, ClientTypes, LookupTypes, FailureTypes, CreateTypes, DeleteTypes,
     CopyTypes DEF Serve
<1>4. CASE \E s \in Server, p \in Path : LateWrite(s, p)
  BY <1>4, LateTypes
<1> QED
  BY <1>1, <1>2, <1>3, <1>4 DEF Next

\* Handlers and maps have their types, and a handler that has changed something is at the
\* step that tells the trie, whatever the clients do (naming_server.c:136-380).
THEOREM TypeCorrect == Spec => []TypeOK
<1>1. Spec => []TypeInv
  BY TypeInit, TypeStep, PTL DEF Spec
<1>2. TypeInv => TypeOK
  BY DEF TypeInv
<1> QED
  BY <1>1, <1>2, PTL

\* A request that is refused has changed nothing, however many clients mutate: what has
\* changed something goes on to its update (naming_server.c:179-206).
THEOREM RefusalsAreClean == Spec => CleanRefusals
<1> DEFINE Clean == \A c \in Conn, code \in Code \ Unclear :
        sent' = [to |-> c, code |-> code] =>
            ~handler[c].changed /\ files' = files /\ trie' = trie
<1>1. ASSUME TypeInv, Next, NEW c \in Conn, NEW code \in Code \ Unclear,
             sent' = [to |-> c, code |-> code]
      PROVE  ~handler[c].changed /\ files' = files /\ trie' = trie
  <2>1. sent' # Null
    BY <1>1, NullAssumption
  <2>2. PICK d \in Conn : Serve(d)
    BY <1>1, <2>1 DEF Next, Ask, Register, Listen, Crash, LateWrite
  <2>3. \A e \in Conn, k \in Code : Answer(e, k) => e = c /\ k = code
    BY <1>1 DEF Answer
  <2>4. PICK k \in Code : AnswerOnly(d, k)
    <3>1. CASE \E k \in Code : AnswerOnly(d, k)
      BY <3>1
    <3>2. CASE ~\E k \in Code : AnswerOnly(d, k)
      <4>1. \E k \in Unclear : k \in Code /\ Answer(d, k)
        BY <2>1, <2>2, <3>2
           DEF Serve, ClientRead, ClientWrite, LookupCache, LookupTrie, LookupPut,
               CallFails, AnswerLost, CallBroken, CreateCheck, CreateServe, CreateUpdate,
               DeleteFind, DeleteServe, DeleteUpdate, CopyFind, CopyDest, CopyServe, CopyPush,
               CopyUpdate, Refused, Goto, Served, Map, Code, Unclear
      <4> QED
        BY <2>3, <4>1
    <3> QED
      BY <3>1, <3>2
  <2>5. d = c /\ k = code /\ files' = files /\ trie' = trie
    BY <2>3, <2>4 DEF AnswerOnly, background
  <2>6. handler[c].pc \in Done => FALSE
    BY <1>1, <2>1, <2>2, <2>3, <2>5
       DEF Serve, ClientRead, ClientWrite, LookupCache, LookupTrie, LookupPut,
           CallFails, AnswerLost, CallBroken, CreateCheck, CreateServe, CreateUpdate,
           DeleteFind, DeleteServe, DeleteUpdate, CopyFind, CopyDest, CopyServe, CopyPush,
           CopyUpdate, AnswerOnly, Map, Code, Unclear, Done, At
  <2> QED
    BY <1>1, <2>5, <2>6 DEF TypeInv, Fits
<1>2. TypeInv /\ [Next]_vars => [Clean]_vars
  BY <1>1
<1>3. Spec => []TypeInv
  BY TypeInit, TypeStep, PTL DEF Spec
<1> QED
  BY <1>2, <1>3, PTL DEF Spec, CleanRefusals

-----------------------------------------------------------------------------
(* Agreement.  Two handlers that change the same path at once can leave    *)
(* trie and disks apart, so there may be one client that mutates.          *)

Mutators == {c \in Conn : \E r \in Asks[c] : r.op \in Mutations}

SingleMutator == \A c \in Mutators, d \in Mutators : c = d

\* What a handler knows of the files when it comes to its update.
Knows(c) ==
    /\ At(c, "create_done") => PathOf(c) \in files[SS(c)]
    /\ At(c, "delete_done") => /\ status[SS(c)] # "down"
                               /\ \/ PathOf(c) \notin files[SS(c)]
                                  \/ <<SS(c), PathOf(c)>> \in doubt
    /\ At(c, "copy_done") => /\ DestOf(c) \in files[Dest(c)]
                             /\ \/ handler[c].new
                                \/ trie[DestOf(c)] = Dest(c)
                                \/ <<Dest(c), DestOf(c)>> \in doubt

Certain == Agreement /\ \A c \in Conn : Knows(c)

\* While one client mutates, no other comes to an update.
LEMMA OthersWait ==
    ASSUME SingleMutator, TypeInv, NEW c \in Conn, NEW d \in Conn, c # d,
           handler[c].pc \in Creating \cup Deleting \cup Copying
    PROVE  handler[d].pc \notin Done /\ Untold(d) = {}
<1>1. ASSUME NEW e \in Conn, handler[e].pc \in Creating \cup Deleting \cup Copying
      PROVE  e \in Mutators
  <2>1. handler[e].req \in Asks[e] /\ Op(e) \in Mutations
    BY <1>1 DEF TypeInv, Fits, Creating, Deleting, Copying, Mutations
  <2> QED
    BY <2>1 DEF Mutators, Op
<1>2. handler[d].pc \notin Done
  BY <1>1 DEF SingleMutator, Done, Creating, Deleting, Copying
<1> QED
  BY <1>2 DEF Untold, At, Done

\* A handler that is not at its update has nothing to tell and knows nothing.
LEMMA NothingToTell ==
    ASSUME NEW c \in Conn, handler[c].pc \notin Done
    PROVE  Untold(c) = {} /\ Knows(c)
BY DEF Untold, Knows, At, Done

\* The same after a step.
LEMMA NothingToTellAfter ==
    ASSUME NEW c \in Conn, handler'[c].pc \notin Done
    PROVE  Untold(c)' = {} /\ Knows(c)'
BY DEF Untold, Knows, At, Done

\* A handler moves that neither was nor comes to its update, and nothing else changes.
LEMMA QuietStep ==
    ASSUME TypeInv, Certain, NEW c \in Conn, NEW h \in Handler,
           handler' = [handler EXCEPT ![c] = h],
           handler[c].pc \notin Done, h.pc \notin Done,
           UNCHANGED <<trie, status, files, doubt>>
    PROVE  Certain'
<1>1. handler'[c].pc \notin Done /\ \A d \in Conn \ {c} : handler'[d] = handler[d]
  BY DEF TypeInv, TypeOK
<1>2. \A d \in Conn : Untold(d)' = Untold(d)
  <2>1. Untold(c)' = {} /\ Untold(c) = {}
    BY <1>1, NothingToTell, NothingToTellAfter
  <2>2. \A d \in Conn \ {c} : Untold(d)' = Untold(d)
    BY <1>1 DEF Untold, At, SS, Dest, PathOf, DestOf
  <2> QED
    BY <2>1, <2>2
<1>3. \A d \in Conn : Knows(d)'
  <2>1. Knows(c)'
    BY <1>1, NothingToTellAfter
  <2>2. \A d \in Conn \ {c} : Knows(d)'
    BY <1>1 DEF Certain, Knows, At, SS, Dest, PathOf, DestOf
  <2> QED
    BY <2>1, <2>2
<1> QED
  BY <1>2, <1>3 DEF Certain, Agreement

\* An answer of a handler that was not at its update.
LEMMA QuietAnswer ==
    ASSUME TypeInv, Certain, NEW c \in Conn, NEW code \in Code, AnswerOnly(c, code),
           handler[c].pc \notin Done
    PROVE  Certain'
<1>1. handler' = [handler EXCEPT ![c] = Idle] /\ UNCHANGED <<trie, status, files, doubt>>
  BY DEF AnswerOnly, Answer, background
<1>2. Idle.pc \notin Done
  BY IdleFacts DEF Done
<1> QED
  BY <1>1, <1>2, IdleFacts, QuietStep

\* A handler that goes on to a position where nothing has changed yet.
LEMMA QuietMove ==
    ASSUME TypeInv, Certain, NEW c \in Conn, handler[c].pc \notin Done,
           \A d \in Conn \ {c} : handler'[d] = handler[d],
           handler' \in [Conn -> Handler], handler'[c].pc \notin Done,
           UNCHANGED <<trie, status, files, doubt>>
    PROVE  Certain'
<1> DEFINE h == handler'[c]
<1>1. handler' = [handler EXCEPT ![c] = h]
  BY DEF TypeInv, TypeOK
<1>2. h \in Handler /\ h.pc \notin Done
  OBVIOUS
<1> HIDE DEF h
<1> QED
  BY <1>1, <1>2, QuietStep

\* The steps that look and do not touch: requests, lookups, and the steps before a call.
LEMMA LookingIsQuiet ==
    ASSUME TypeInv, TypeInv', Certain, NEW c \in Conn,
           \/ Ask(c) \/ ClientRead(c)
           \/ LookupCache(c) \/ LookupTrie(c) \/ LookupPut(c)
           \/ CallFails(c) \/ CallBroken(c)
           \/ CreateCheck(c) \/ DeleteFind(c) \/ CopyFind(c) \/ CopyDest(c) \/ CopyServe(c)
    PROVE  Certain'
<1>1. handler[c].pc \notin Done
  BY DEF Ask, ClientRead, LookupCache, LookupTrie, LookupPut, CallFails, CallBroken,
         CreateCheck, DeleteFind, CopyFind, CopyDest, CopyServe, At, Done
<1>2. CASE \E code \in Code : AnswerOnly(c, code)
  BY <1>1, <1>2, QuietAnswer
<1>3. CASE Ask(c)
  <2>1. PICK r \in Asks[c] :
          handler' = [handler EXCEPT ![c] = [Idle EXCEPT !.pc = r.op, !.req = r]]
    BY <1>3 DEF Ask
  <2>2. /\ handler'[c].pc \notin Done /\ \A d \in Conn \ {c} : handler'[d] = handler[d]
    BY <2>1, RequestFacts DEF Idle, TypeInv, TypeOK, Done, Mutations
  <2> QED
    BY <1>1, <1>3, <2>2, QuietMove DEF Ask, TypeInv, TypeOK, background
<1>4. CASE ~Ask(c) /\ ~\E code \in Code : AnswerOnly(c, code)
  <2> DEFINE Moves(where) == /\ \A d \in Conn \ {c} : handler'[d] = handler[d]
                             /\ handler'[c].pc = where
                             /\ UNCHANGED <<trie, status, files, doubt>>
  <2>1. handler \in [Conn -> Handler] /\ handler[c] \in Handler
    BY DEF TypeInv, TypeOK
  <2>2. ~(ClientRead(c) \/ CallFails(c) \/ CallBroken(c))
    BY <1>4 DEF ClientRead, CallFails, CallBroken, Refused, Code
  <2>3. LookupCache(c) => Moves("redirected") \/ Moves("lookup_trie")
    BY <2>1 DEF LookupCache, Goto, background, Handler
  <2>4. LookupTrie(c) => Moves("lookup_put")
    BY <1>4, <2>1 DEF LookupTrie, background, Handler, Code
  <2>5. LookupPut(c) => Moves("redirected")
    BY <2>1 DEF LookupPut, Goto, background, Handler
  <2>6. CreateCheck(c) => Moves("create_call")
    BY <1>4, <2>1 DEF CreateCheck, background, Handler, Code
  <2>7. DeleteFind(c) => Moves("delete_call")
    BY <1>4, <2>1 DEF DeleteFind, background, Handler, Code
  <2>8. CopyFind(c) => Moves("copy_dest")
    BY <1>4, <2>1 DEF CopyFind, background, Handler, Code
  <2>9. CopyDest(c) => Moves("copy_call")
    BY <2>1, ZenonT(30) DEF CopyDest, background, Handler
  <2>10. CopyServe(c) => Moves("copy_push")
    BY <1>4, <2>1 DEF CopyServe, Refused, Goto, background, Handler, Code
  <2>11. \E where \in Location \ Done : Moves(where)
    BY <1>4, <2>2, <2>3, <2>4, <2>5, <2>6, <2>7, <2>8, <2>9, <2>10 DEF Location, Done
  <2> QED
    BY <1>1, <2>11, QuietMove DEF TypeInv, TypeOK, Done
<1> QED
  BY <1>2, <1>3, <1>4

\* A step that leaves all handlers but one alone.
LEMMA OthersStay ==
    ASSUME SingleMutator, TypeInv, NEW c \in Conn,
           handler[c].pc \in Creating \cup Deleting \cup Copying,
           \A d \in Conn \ {c} : handler'[d] = handler[d]
    PROVE  /\ \A d \in Conn \ {c} : Untold(d) = {} /\ Untold(d)' = {} /\ Knows(d)'
<1>1. ASSUME NEW d \in Conn \ {c}
      PROVE  Untold(d) = {} /\ Untold(d)' = {} /\ Knows(d)'
  <2>1. handler[d].pc \notin Done /\ handler'[d].pc \notin Done
    BY OthersWait
  <2> QED
    BY <2>1, NothingToTell, NothingToTellAfter
<1> QED
  BY <1>1

\* A storage server makes or removes the file, and its handler comes to its update.
LEMMA ServingIsCertain ==
    ASSUME SingleMutator, TypeInv, TypeInv', Certain, NEW c \in Conn,
           handler[c].pc \in Creating \cup Deleting \cup Copying, handler[c].pc \notin Done,
           \A d \in Conn \ {c} : handler'[d] = handler[d],
           UNCHANGED <<trie, status>>, NEW s \in Server, NEW p \in Path,
           \A x \in Server \X Path \ {<<s, p>>} :
               (x \in doubt' <=> x \in doubt) /\ (x[2] \in files'[x[1]] <=> x[2] \in files[x[1]]),
           Untold(c)' = {<<s, p>>} \/ <<s, p>> \in doubt',
           Knows(c)'
    PROVE  Certain'
<1>1. \A d \in Conn \ {c} : Untold(d) = {} /\ Untold(d)' = {} /\ Knows(d)'
  BY OthersStay
<1>2. Untold(c) = {}
  BY NothingToTell
<1>3. ASSUME NEW t \in Server, NEW q \in Path
      PROVE  \/ q \in files'[t] <=> trie'[q] = t
             \/ <<t, q>> \in doubt'
             \/ \E d \in Conn : <<t, q>> \in Untold(d)'
  <2>1. CASE <<t, q>> = <<s, p>>
    BY <2>1
  <2>2. CASE <<t, q>> # <<s, p>>
    <3>1. \/ q \in files[t] <=> trie[q] = t
          \/ <<t, q>> \in doubt
      BY <1>1, <1>2 DEF Certain, Agreement
    <3>2. (<<t, q>> \in doubt' <=> <<t, q>> \in doubt) /\ (q \in files'[t] <=> q \in files[t])
      BY <2>2
    <3> QED
      BY <3>1, <3>2
  <2> QED
    BY <2>1, <2>2
<1>4. Agreement'
  BY <1>3 DEF Agreement
<1> QED
  BY <1>1, <1>4 DEF Certain

\* The trie is told where a path is, or that it is gone; what the path was taken from is
\* in doubt.
LEMMA TellingIsCertain ==
    ASSUME SingleMutator, TypeInv, TypeInv', Certain, NEW c \in Conn,
           handler[c].pc \in Done, NEW s \in Server, NEW p \in Path,
           Untold(c) = {<<s, p>>},
           handler' = [handler EXCEPT ![c] = Idle],
           UNCHANGED <<status, files>>,
           NEW t \in {s, Null}, trie' = [trie EXCEPT ![p] = t],
           doubt' = doubt \cup TakenFrom(p, s),
           (p \in files[s] <=> t = s) \/ <<s, p>> \in doubt
    PROVE  Certain'
<1>1. /\ handler'[c] = Idle /\ \A d \in Conn \ {c} : handler'[d] = handler[d]
      /\ handler[c].pc \in Creating \cup Deleting \cup Copying
  BY DEF TypeInv, TypeOK, Done, Creating, Deleting, Copying
<1>2. \A d \in Conn \ {c} : Untold(d) = {} /\ Untold(d)' = {} /\ Knows(d)'
  BY <1>1, OthersStay
<1>3. Untold(c)' = {} /\ Knows(c)'
  BY <1>1, IdleFacts, NothingToTellAfter DEF Done
<1>4. ASSUME NEW u \in Server, NEW q \in Path
      PROVE  \/ q \in files'[u] <=> trie'[q] = u
             \/ <<u, q>> \in doubt'
  <2>1. CASE <<u, q>> = <<s, p>>
    BY <2>1, NullAssumption DEF TypeInv, TypeOK
  <2>2. CASE u # s /\ q = p
    <3>1. \/ p \in files[u] <=> trie[p] = u
          \/ <<u, p>> \in doubt
      BY <1>2, <2>2 DEF Certain, Agreement
    <3>2. trie[p] = u => <<u, p>> \in TakenFrom(p, s)
      BY <2>2, NullAssumption DEF TakenFrom
    <3>3. trie'[p] # u
      BY <2>2, NullAssumption DEF TypeInv, TypeOK
    <3> QED
      BY <2>2, <3>1, <3>2, <3>3
  <2>3. CASE q # p
    <3>1. \/ q \in files[u] <=> trie[q] = u
          \/ <<u, q>> \in doubt
      BY <1>2, <2>3 DEF Certain, Agreement
    <3> QED
      BY <2>3, <3>1 DEF TypeInv, TypeOK
  <2> QED
    BY <2>1, <2>2, <2>3
<1>5. Agreement'
  BY <1>4 DEF Agreement
<1> QED
  BY <1>2, <1>3, <1>5 DEF Certain

\* A write that no update follows may make the file: that is in doubt then.
LEMMA UntoldWrite ==
    ASSUME TypeInv, TypeInv', Certain, NEW s \in Server, NEW p \in Path,
           files' = [files EXCEPT ![s] = @ \cup {p}],
           doubt' = IF p \in files[s] THEN doubt ELSE doubt \cup {<<s, p>>},
           UNCHANGED <<trie, status>>,
           \A d \in Conn : \/ handler'[d] = handler[d]
                           \/ handler[d].pc \notin Done /\ handler'[d].pc \notin Done
    PROVE  Certain'
<1>1. ASSUME NEW d \in Conn PROVE Untold(d)' = Untold(d) /\ Knows(d)'
  <2>1. CASE handler'[d].pc \notin Done
    <3>1. handler[d].pc \notin Done
      BY <2>1
    <3> QED
      BY <2>1, <3>1, NothingToTell, NothingToTellAfter
  <2>2. CASE handler'[d].pc \in Done
    <3>1. handler'[d] = handler[d] /\ handler[d].pc \in Done
      BY <2>2
    <3>2. /\ SS(d) \in Server /\ At(d, "copy_done") => Dest(d) \in Server
          /\ Knows(d) /\ PathOf(d) \in Path
      BY <3>1, FieldFacts DEF TypeInv, Fits, Done, At, Certain
    <3>3. \A t \in Server : files[t] \subseteq files'[t]
      BY DEF TypeInv, TypeOK
    <3>4. \A t \in Server, q \in Path : q \in files'[t] \ files[t] => <<t, q>> \in doubt'
      BY DEF TypeInv, TypeOK
    <3>5. doubt \subseteq doubt'
      OBVIOUS
    <3>6. Knows(d)'
      BY <3>1, <3>2, <3>3, <3>4, <3>5 DEF Knows, At, SS, Dest, PathOf, DestOf
    <3>7. Untold(d)' = Untold(d)
      BY <3>1 DEF Untold, At, SS, Dest, PathOf, DestOf
    <3> QED
      BY <3>6, <3>7
  <2> QED
    BY <2>1, <2>2
<1>2. ASSUME NEW t \in Server, NEW q \in Path
      PROVE  \/ q \in files'[t] <=> trie'[q] = t
             \/ <<t, q>> \in doubt'
             \/ \E d \in Conn : <<t, q>> \in Untold(d)'
  <2>1. \/ q \in files[t] <=> trie[q] = t
        \/ <<t, q>> \in doubt
        \/ \E d \in Conn : <<t, q>> \in Untold(d)'
    BY <1>1 DEF Certain, Agreement
  <2>2. (q \in files'[t] <=> q \in files[t]) \/ <<t, q>> \in doubt'
    BY DEF TypeInv, TypeOK
  <2> QED
    BY <2>1, <2>2
<1>3. Agreement'
  BY <1>2 DEF Agreement
<1> QED
  BY <1>1, <1>3 DEF Certain

\* A redirected write.
LEMMA WriteIsCertain ==
    ASSUME TypeInv, TypeInv', Certain, NEW c \in Conn, ClientWrite(c)
    PROVE  Certain'
<1>1. /\ handler[c].pc \notin Done /\ PathOf(c) \in Path /\ SS(c) \in Server
  BY FieldFacts DEF ClientWrite, At, Done, TypeInv, Fits
<1>2. CASE \E code \in Code : AnswerOnly(c, code)
  BY <1>1, <1>2, QuietAnswer
<1>3. ASSUME NEW s \in Server, NEW p \in Path, s = SS(c), p = PathOf(c),
             files' = [files EXCEPT ![s] = @ \cup {p}],
             doubt' = IF p \in files[s] THEN doubt ELSE doubt \cup {<<s, p>>},
             handler' = [handler EXCEPT ![c] = Idle],
             UNCHANGED <<trie, status>>
      PROVE  Certain'
  <2>1. handler'[c].pc \notin Done /\ \A d \in Conn \ {c} : handler'[d] = handler[d]
    BY <1>3, IdleFacts DEF TypeInv, TypeOK, Done
  <2> QED
    BY <1>1, <1>3, <2>1, UntoldWrite
<1> QED
  BY <1>1, <1>2, <1>3 DEF ClientWrite, Answer, background, Code

\* The write of a copy whose source has stopped.
LEMMA LateIsCertain ==
    ASSUME TypeInv, TypeInv', Certain, NEW s \in Server, NEW p \in Path, LateWrite(s, p)
    PROVE  Certain'
BY UntoldWrite DEF LateWrite

\* What a handler had to tell when its answer was lost is in doubt.
LEMMA LossIsCertain ==
    ASSUME TypeInv, TypeInv', Certain, NEW c \in Conn, AnswerLost(c)
    PROVE  Certain'
<1>1. handler'[c] = Idle /\ \A d \in Conn \ {c} : handler'[d] = handler[d]
  BY DEF AnswerLost, Answer, TypeInv, TypeOK
<1>2. Knows(c)'
  BY <1>1, IdleFacts, NothingToTellAfter DEF Done
<1>3. \A d \in Conn \ {c} : Untold(d)' = Untold(d) /\ Knows(d)'
  BY <1>1 DEF AnswerLost, background, Certain, Knows, Untold, At, SS, Dest, PathOf, DestOf
<1>4. Agreement'
  <2>1. ASSUME NEW t \in Server, NEW q \in Path
        PROVE  \/ q \in files[t] <=> trie[q] = t
               \/ <<t, q>> \in doubt'
               \/ \E d \in Conn \ {c} : <<t, q>> \in Untold(d)'
    BY <1>3 DEF Certain, Agreement, AnswerLost
  <2> QED
    BY <2>1 DEF Agreement, AnswerLost, background
<1> QED
  BY <1>2, <1>3, <1>4 DEF Certain

\* A creation.
LEMMA CreateIsCertain ==
    ASSUME SingleMutator, TypeInv, TypeInv', Certain, NEW c \in Conn,
           CreateServe(c) \/ CreateUpdate(c)
    PROVE  Certain'
<1>1. /\ PathOf(c) \in Path /\ SS(c) \in Server /\ handler[c].pc \in Creating
      /\ handler \in [Conn -> Handler]
  BY FieldFacts DEF CreateServe, CreateUpdate, At, Creating, TypeInv, TypeOK, Fits
<1>2. CASE CreateServe(c) /\ \E code \in Code : AnswerOnly(c, code)
  BY <1>2, QuietAnswer DEF CreateServe, At, Done
<1>3. CASE CreateServe(c) /\ ~\E code \in Code : AnswerOnly(c, code)
  <2>1. /\ handler[c].pc = "create_call" /\ Served(c, "create_done")
        /\ files' = [files EXCEPT ![SS(c)] = @ \cup {PathOf(c)}]
        /\ doubt' = doubt \ {<<SS(c), PathOf(c)>>}
    BY <1>3 DEF CreateServe, At, Code
  <2>2. /\ handler'[c].pc = "create_done" /\ SS(c)' = SS(c) /\ PathOf(c)' = PathOf(c)
        /\ \A d \in Conn \ {c} : handler'[d] = handler[d]
    BY <1>1, <2>1 DEF Served, SS, PathOf, Handler
  <2>3. Untold(c)' = {<<SS(c), PathOf(c)>>}
    BY <2>2 DEF Untold, At
  <2>4. Knows(c)'
    BY <1>1, <2>1, <2>2 DEF Knows, At, TypeInv, TypeOK
  <2>5. \A x \in (Server \X Path) \ {<<SS(c), PathOf(c)>>} :
           (x \in doubt' <=> x \in doubt) /\ (x[2] \in files'[x[1]] <=> x[2] \in files[x[1]])
    BY <1>1, <2>1 DEF TypeInv, TypeOK
  <2> QED
    BY <1>1, <2>1, <2>2, <2>3, <2>4, <2>5, ServingIsCertain DEF Served, background, Done
<1>4. CASE CreateUpdate(c)
  <2>1. Untold(c) = {<<SS(c), PathOf(c)>>} /\ PathOf(c) \in files[SS(c)]
    BY <1>4 DEF CreateUpdate, At, Untold, Certain, Knows
  <2> QED
    BY <1>1, <1>4, <2>1, TellingIsCertain DEF CreateUpdate, At, Map, Answer, Done
<1> QED
  BY <1>2, <1>3, <1>4

\* A deletion.
LEMMA DeleteIsCertain ==
    ASSUME SingleMutator, TypeInv, TypeInv', Certain, NEW c \in Conn,
           DeleteServe(c) \/ DeleteUpdate(c)
    PROVE  Certain'
<1>1. /\ PathOf(c) \in Path /\ SS(c) \in Server /\ handler[c].pc \in Deleting
      /\ handler \in [Conn -> Handler]
  BY FieldFacts DEF DeleteServe, DeleteUpdate, At, Deleting, TypeInv, TypeOK, Fits
<1>2. CASE DeleteServe(c) /\ \E code \in Code : AnswerOnly(c, code)
  BY <1>2, QuietAnswer DEF DeleteServe, At, Done
<1>3. CASE DeleteServe(c) /\ ~\E code \in Code : AnswerOnly(c, code)
  <2>1. /\ handler[c].pc = "delete_call" /\ Served(c, "delete_done") /\ status[SS(c)] = "up"
        /\ files' = [files EXCEPT ![SS(c)] = @ \ {PathOf(c)}]
        /\ doubt' = doubt \ {<<SS(c), PathOf(c)>>}
    BY <1>3 DEF DeleteServe, Refused, At, Code
  <2>2. /\ handler'[c].pc = "delete_done" /\ SS(c)' = SS(c) /\ PathOf(c)' = PathOf(c)
        /\ \A d \in Conn \ {c} : handler'[d] = handler[d]
    BY <1>1, <2>1 DEF Served, SS, PathOf, Handler
  <2>3. Untold(c)' = {<<SS(c), PathOf(c)>>}
    BY <2>2 DEF Untold, At
  <2>4. Knows(c)'
    BY <1>1, <2>1, <2>2 DEF Knows, At, Served, TypeInv, TypeOK
  <2>5. \A x \in (Server \X Path) \ {<<SS(c), PathOf(c)>>} :
           (x \in doubt' <=> x \in doubt) /\ (x[2] \in files'[x[1]] <=> x[2] \in files[x[1]])
    BY <1>1, <2>1 DEF TypeInv, TypeOK
  <2> QED
    BY <1>1, <2>1, <2>2, <2>3, <2>4, <2>5, ServingIsCertain DEF Served, background, Done
<1>4. CASE DeleteUpdate(c)
  <2>1. /\ Untold(c) = {<<SS(c), PathOf(c)>>}
        /\ PathOf(c) \notin files[SS(c)] \/ <<SS(c), PathOf(c)>> \in doubt
    BY <1>4 DEF DeleteUpdate, At, Untold, Certain, Knows
  <2>2. SS(c) # Null
    BY <1>1, NullAssumption
  <2> QED
    BY <1>1, <1>4, <2>1, <2>2, TellingIsCertain DEF DeleteUpdate, At, Answer, Done
<1> QED
  BY <1>2, <1>3, <1>4

\* A copy.
LEMMA CopyIsCertain ==
    ASSUME SingleMutator, TypeInv, TypeInv', Certain, NEW c \in Conn,
           CopyPush(c) \/ CopyUpdate(c)
    PROVE  Certain'
<1>1. /\ DestOf(c) \in Path /\ Dest(c) \in Server /\ handler[c].pc \in Copying
      /\ handler \in [Conn -> Handler]
  BY FieldFacts DEF CopyPush, CopyUpdate, At, Copying, TypeInv, TypeOK, Fits
<1>2. CASE CopyPush(c) /\ \E code \in Code : AnswerOnly(c, code)
  BY <1>2, QuietAnswer DEF CopyPush, At, Done
<1>3. CASE CopyPush(c) /\ ~\E code \in Code : AnswerOnly(c, code)
  <2>1. /\ handler[c].pc = "copy_push"
        /\ files' = [files EXCEPT ![Dest(c)] = @ \cup {DestOf(c)}]
        /\ \/ /\ doubt' = IF handler[c].new \/ trie[DestOf(c)] = Dest(c)
                          THEN doubt \ {<<Dest(c), DestOf(c)>>}
                          ELSE doubt \cup {<<Dest(c), DestOf(c)>>}
              /\ Served(c, "copy_done")
           \/ /\ doubt' = doubt \cup {<<Dest(c), DestOf(c)>>}
              /\ Answer(c, "ASYNC_WRITE_FAILED")
              /\ UNCHANGED <<background, status>>
    BY <1>3, Zenon DEF CopyPush, At, Code
  <2>2. \A x \in (Server \X Path) \ {<<Dest(c), DestOf(c)>>} :
           (x \in doubt' <=> x \in doubt) /\ (x[2] \in files'[x[1]] <=> x[2] \in files[x[1]])
    BY <1>1, <2>1 DEF TypeInv, TypeOK
  <2>3. UNCHANGED <<trie, status>> /\ handler[c].pc \notin Done
    BY <2>1 DEF Served, background, Done
  <2>4. CASE Served(c, "copy_done")
    <3>1. /\ handler'[c].pc = "copy_done" /\ Dest(c)' = Dest(c) /\ DestOf(c)' = DestOf(c)
          /\ handler'[c].new = handler[c].new
          /\ \A d \in Conn \ {c} : handler'[d] = handler[d]
      BY <1>1, <2>4 DEF Served, Dest, DestOf, Handler
    <3>2. handler'[c] # Idle
      BY <3>1, IdleFacts
    <3>3. doubt' = IF handler[c].new \/ trie[DestOf(c)] = Dest(c)
                   THEN doubt \ {<<Dest(c), DestOf(c)>>}
                   ELSE doubt \cup {<<Dest(c), DestOf(c)>>}
      BY <1>1, <2>1, <3>2 DEF Answer
    <3>4. Untold(c)' = {<<Dest(c), DestOf(c)>>}
      BY <3>1 DEF Untold, At
    <3>5. Knows(c)'
      BY <1>1, <2>1, <2>3, <3>1, <3>3 DEF Knows, At, TypeInv, TypeOK
    <3> QED
      BY <1>1, <2>2, <2>3, <3>1, <3>4, <3>5, ServingIsCertain
  <2>5. CASE ~Served(c, "copy_done")
    <3>1. /\ handler'[c] = Idle /\ \A d \in Conn \ {c} : handler'[d] = handler[d]
          /\ <<Dest(c), DestOf(c)>> \in doubt'
      BY <1>1, <2>1, <2>5 DEF Answer
    <3>2. Knows(c)'
      BY <3>1, IdleFacts, NothingToTellAfter DEF Done
    <3> QED
      BY <1>1, <2>2, <2>3, <3>1, <3>2, ServingIsCertain
  <2> QED
    BY <2>4, <2>5
<1>4. CASE CopyUpdate(c)
  <2>1. /\ handler[c].pc = "copy_done" /\ Untold(c) = {<<Dest(c), DestOf(c)>>}
        /\ DestOf(c) \in files[Dest(c)]
        /\ \/ handler[c].new
           \/ trie[DestOf(c)] = Dest(c)
           \/ <<Dest(c), DestOf(c)>> \in doubt
    BY <1>4 DEF CopyUpdate, At, Untold, Certain, Knows
  <2>2. CASE Map(c, DestOf(c), Dest(c))
    BY <1>1, <2>1, <2>2, TellingIsCertain DEF Map, Answer, Done
  <2>3. CASE ~handler[c].new /\ AnswerOnly(c, "SUCCESS")
    <3>1. /\ handler'[c] = Idle /\ \A d \in Conn \ {c} : handler'[d] = handler[d]
          /\ UNCHANGED <<trie, status, files, doubt>>
      BY <1>1, <2>3 DEF AnswerOnly, Answer, background
    <3>2. \A d \in Conn \ {c} : Untold(d) = {} /\ Untold(d)' = {} /\ Knows(d)'
      BY <1>1, <3>1, OthersStay
    <3>3. Knows(c)'
      BY <3>1, IdleFacts, NothingToTellAfter DEF Done
    <3>4. ASSUME NEW t \in Server, NEW q \in Path
          PROVE  (q \in files[t] <=> trie[q] = t) \/ <<t, q>> \in doubt
      <4>1. CASE <<t, q>> = <<Dest(c), DestOf(c)>>
        BY <2>1, <2>3, <4>1
      <4>2. CASE <<t, q>> # <<Dest(c), DestOf(c)>>
        BY <2>1, <3>2, <4>2 DEF Certain, Agreement
      <4> QED
        BY <4>1, <4>2
    <3>5. Agreement'
      BY <3>1, <3>4 DEF Agreement
    <3> QED
      BY <3>2, <3>3, <3>5 DEF Certain
  <2> QED
    BY <1>4, <2>2, <2>3 DEF CopyUpdate
<1> QED
  BY <1>2, <1>3, <1>4

\* A storage server registers: the paths of its command line are mapped to it.
LEMMA RegisterIsCertain ==
    ASSUME TypeInv, TypeInv', Certain, NEW s \in Server, Register(s)
    PROVE  Certain'
<1>1. \A c \in Conn : /\ Untold(c)' = Untold(c)
                      /\ PathOf(c)' = PathOf(c) /\ DestOf(c)' = DestOf(c)
                      /\ SS(c)' = SS(c) /\ Dest(c)' = Dest(c)
  BY DEF Register, Untold, At, SS, Dest, PathOf, DestOf
<1>2. /\ trie' = [p \in Path |-> IF p \in Exports[s] THEN s ELSE trie[p]]
      /\ \A p \in Path : p \in Exports[s] /\ p \notin files[s] => <<s, p>> \in doubt'
      /\ \A t \in Server, p \in Path :
            t # s /\ p \in Exports[s] /\ trie[p] = t => <<t, p>> \in doubt'
      /\ \A t \in Server, p \in Path :
            <<t, p>> \in doubt => \/ <<t, p>> \in doubt'
                                  \/ t = s /\ p \in Exports[s] /\ p \in files[s]
  BY NullAssumption DEF Register, TakenFrom
<1>3. ASSUME NEW c \in Conn PROVE Knows(c)'
  <2>1. CASE handler[c].pc \notin Done
    BY <2>1, NothingToTellAfter DEF Register
  <2>2. CASE handler[c].pc \in Done
    <3>1. /\ PathOf(c) \in Path /\ SS(c) \in Server /\ Knows(c)
          /\ At(c, "copy_done") => DestOf(c) \in Path /\ Dest(c) \in Server
      BY <2>2, FieldFacts DEF Done, Copying, At, Certain, TypeInv, Fits
    <3>2. At(c, "delete_done") => SS(c) # s
      BY <3>1 DEF Knows, Register
    <3>3. status'[SS(c)] # "down" \/ status[SS(c)] = "down"
      BY <3>1 DEF Register, TypeInv, TypeOK
    <3>4. At(c, "copy_done") /\ ~handler[c].new =>
             trie'[DestOf(c)] = Dest(c) \/ <<Dest(c), DestOf(c)>> \in doubt'
      BY <1>2, <3>1 DEF Knows, TypeInv, TypeOK
    <3> QED
      BY <1>1, <1>2, <3>1, <3>2, <3>3, <3>4 DEF Knows, At, Register
  <2> QED
    BY <2>1, <2>2
<1>4. ASSUME NEW t \in Server, NEW p \in Path
      PROVE  \/ p \in files'[t] <=> trie'[p] = t
             \/ <<t, p>> \in doubt'
             \/ \E c \in Conn : <<t, p>> \in Untold(c)'
  <2>1. files' = files
    BY DEF Register
  <2>2. CASE \E c \in Conn : <<t, p>> \in Untold(c)
    BY <1>1, <2>2
  <2>3. CASE (p \in files[t] <=> trie[p] = t) \/ <<t, p>> \in doubt
    BY <1>2, <2>1, <2>3
  <2> QED
    BY <2>2, <2>3 DEF Certain, Agreement
<1> QED
  BY <1>3, <1>4 DEF Certain, Agreement

\* A storage server stops: what its callers had to tell is in doubt.
LEMMA CrashIsCertain ==
    ASSUME TypeInv, TypeInv', Certain, NEW s \in Server, Crash(s)
    PROVE  Certain'
<1>1. ASSUME NEW c \in Conn, WaitsFor(c, s)
      PROVE  Untold(c)' = {} /\ Knows(c)' /\ Untold(c) \subseteq doubt'
  <2>1. handler'[c].pc = "broken" /\ Untold(c) \subseteq doubt'
    BY <1>1 DEF Crash, Idle
  <2> QED
    BY <2>1, NothingToTellAfter DEF Done
<1>2. ASSUME NEW c \in Conn, ~WaitsFor(c, s)
      PROVE  Untold(c)' = Untold(c) /\ Knows(c)'
  <2>1. handler'[c] = handler[c] /\ UNCHANGED <<trie, files>> /\ doubt \subseteq doubt'
    BY <1>2 DEF Crash, background
  <2>2. At(c, "delete_done") => status'[SS(c)] = status[SS(c)]
    BY <1>2 DEF WaitsFor, At, Crash, TypeInv, TypeOK
  <2>3. Untold(c)' = Untold(c)
    BY <2>1 DEF Untold, At, SS, Dest, PathOf, DestOf
  <2>4. Knows(c)'
    BY <2>1, <2>2 DEF Certain, Knows, At, SS, Dest, PathOf, DestOf
  <2> QED
    BY <2>3, <2>4
<1>3. Agreement'
  <2>1. UNCHANGED <<trie, files>> /\ doubt \subseteq doubt'
    BY DEF Crash, background
  <2>2. \A c \in Conn : Untold(c) \subseteq doubt' \/ Untold(c)' = Untold(c)
    BY <1>1, <1>2
  <2> QED
    BY <2>1, <2>2 DEF Certain, Agreement
<1> QED
  BY <1>1, <1>2, <1>3 DEF Certain

\* A storage server begins to listen, or nothing happens.
LEMMA NothingMapped ==
    ASSUME TypeInv, Certain, (\E s \in Server : Listen(s)) \/ UNCHANGED vars
    PROVE  Certain'
<1>1. /\ UNCHANGED <<trie, files, doubt, handler>>
      /\ \A s \in Server : status[s] # "down" => status'[s] # "down"
  BY DEF Listen, vars, background, TypeInv, TypeOK
<1>2. ASSUME NEW c \in Conn PROVE Knows(c)' /\ Untold(c)' = Untold(c)
  <2>1. At(c, "delete_done") => SS(c) \in Server
    BY DEF At, TypeInv, Fits
  <2> QED
    BY <1>1, <2>1 DEF Certain, Knows, Untold, At, SS, Dest, PathOf, DestOf
<1> QED
  BY <1>1, <1>2 DEF Certain, Agreement

\* At the start the naming server knows of no file, and every file is in doubt.
LEMMA CertainInit == Init => Certain
<1> SUFFICES ASSUME Init PROVE Certain
  OBVIOUS
<1>1. \A s \in Server, p \in Path : p \in files[s] => <<s, p>> \in doubt
  BY DEF Init
<1>2. \A s \in Server, p \in Path : trie[p] # s
  BY NullAssumption DEF Init
<1>3. \A c \in Conn : Knows(c)
  BY NothingToTell, IdleFacts DEF Init, Done
<1> QED
  BY <1>1, <1>2, <1>3 DEF Certain, Agreement

\* Every step keeps it.
LEMMA CertainStep ==
    ASSUME SingleMutator, TypeInv, Certain, [Next]_vars
    PROVE  Certain'
<1>1. TypeInv'
  BY TypeStep
<1>2. CASE (\E s \in Server : Listen(s)) \/ UNCHANGED vars
  BY <1>2, NothingMapped
<1>3. CASE \E s \in Server : Register(s) \/ Crash(s)
  BY <1>1, <1>3, RegisterIsCertain, CrashIsCertain
<1>4. ASSUME NEW c \in Conn, Ask(c) \/ Serve(c)
      PROVE  Certain'
  BY <1>1, <1>4, LookingIsQuiet, WriteIsCertain, LossIsCertain, CreateIsCertain,
     DeleteIsCertain, CopyIsCertain DEF Serve
<1>5. CASE \E s \in Server, p \in Path : LateWrite(s, p)
  BY <1>1, <1>5, LateIsCertain
<1> QED
  BY <1>2, <1>3, <1>4, <1>5 DEF Next

\* With one client that mutates, every state is certain.
LEMMA AlwaysCertain == ASSUME SingleMutator PROVE Spec => [](TypeInv /\ Certain)
<1>1. TypeInv /\ Certain /\ [Next]_vars => TypeInv' /\ Certain'
  BY TypeStep, CertainStep
<1>2. Init => TypeInv /\ Certain
  BY TypeInit, CertainInit
<1> QED
  BY <1>1, <1>2, PTL DEF Spec

\* However many clients read and write, as long as one creates, deletes and copies, the
\* trie names the server that has the file, but where one of the named events came between
\* (naming_server.c:179-206, :243-267, :326-356).
THEOREM TrieAgrees == ASSUME SingleMutator PROVE Spec => []Agreement
<1>1. Certain => Agreement
  BY DEF Certain
<1> QED
  BY <1>1, AlwaysCertain, PTL

\* All but the last step of a request answer with a failure, or not at all.
LEMMA Unacknowledged ==
    ASSUME NEW c \in Conn, sent' # Null, sent'.code = "SUCCESS"
    PROVE  /\ ~LookupCache(c) /\ ~LookupTrie(c) /\ ~LookupPut(c)
           /\ ~CallFails(c) /\ ~AnswerLost(c) /\ ~CallBroken(c)
           /\ ~CreateCheck(c) /\ ~CreateServe(c)
           /\ ~DeleteFind(c) /\ ~DeleteServe(c)
           /\ ~CopyFind(c) /\ ~CopyDest(c) /\ ~CopyServe(c) /\ ~CopyPush(c)
<1>1. \A k : Answer(c, k) => k = "SUCCESS"
  BY DEF Answer
<1>2. ~LookupCache(c) /\ ~LookupTrie(c) /\ ~LookupPut(c)
  BY <1>1 DEF LookupCache, LookupTrie, LookupPut, AnswerOnly, Goto
<1>3. ~CallFails(c) /\ ~AnswerLost(c) /\ ~CallBroken(c)
  BY <1>1 DEF CallFails, AnswerLost, CallBroken, AnswerOnly
<1>4. ~CreateCheck(c) /\ ~CreateServe(c)
  BY <1>1 DEF CreateCheck, CreateServe, AnswerOnly, Served
<1>5. ~DeleteFind(c) /\ ~DeleteServe(c)
  BY <1>1 DEF DeleteFind, DeleteServe, AnswerOnly, Served, Refused
<1>6. ~CopyFind(c) /\ ~CopyDest(c) /\ ~CopyServe(c)
  BY <1>1 DEF CopyFind, CopyDest, CopyServe, AnswerOnly, Refused, Goto
<1>7. ~CopyPush(c)
  BY <1>1 DEF CopyPush, AnswerOnly, Served
<1> QED
  BY <1>2, <1>3, <1>4, <1>5, <1>6, <1>7

\* Under the same condition an acknowledged operation has been carried out
\* (naming_server.c:188-201, :253-262, :336-351).
THEOREM AcksAreTrue == ASSUME SingleMutator PROVE Spec => AckMeansDone
<1> DEFINE Acked(c) == sent' = [to |-> c, code |-> "SUCCESS"] =>
        CASE Op(c) = "CREATE_FILE" -> PathOf(c) \in files[SS(c)] /\ trie'[PathOf(c)] = SS(c)
          [] Op(c) = "COPY_FILE" -> /\ DestOf(c) \in files[Dest(c)]
                                    /\ \/ trie'[DestOf(c)] = Dest(c)
                                       \/ <<Dest(c), DestOf(c)>> \in doubt
          [] Op(c) = "DELETE_FILE" -> /\ trie'[PathOf(c)] = Null
                                      /\ \/ PathOf(c) \notin files[SS(c)]
                                         \/ <<SS(c), PathOf(c)>> \in doubt
          [] OTHER -> TRUE
<1>1. ASSUME TypeInv, Certain, Next, NEW c \in Conn,
             sent' = [to |-> c, code |-> "SUCCESS"]
      PROVE  Acked(c)
  <2>1. sent' # Null
    BY <1>1, NullAssumption DEF Code
  <2>2. PICK d \in Conn : Serve(d)
    BY <1>1, <2>1 DEF Next, Ask, Register, Listen, Crash, LateWrite
  <2>3. \/ ClientRead(d) \/ ClientWrite(d)
        \/ CreateUpdate(d) \/ DeleteUpdate(d) \/ CopyUpdate(d)
    BY <1>1, <2>1, <2>2, Unacknowledged DEF Serve
  <2>4. d = c
    <3>1. \A k \in Code : Answer(d, k) => d = c
      BY <1>1 DEF Answer
    <3>2. CASE ClientRead(d) \/ ClientWrite(d)
      BY <3>1, <3>2 DEF ClientRead, ClientWrite, AnswerOnly, Refused, Code
    <3>3. CASE CreateUpdate(d) \/ DeleteUpdate(d) \/ CopyUpdate(d)
      BY <3>1, <3>3 DEF CreateUpdate, DeleteUpdate, CopyUpdate, Map, AnswerOnly, Code
    <3> QED
      BY <2>3, <3>2, <3>3
  <2>5. CASE ClientRead(c) \/ ClientWrite(c)
    BY <2>5 DEF ClientRead, ClientWrite
  <2>6. CASE CreateUpdate(c)
    <3>1. /\ Op(c) = "CREATE_FILE" /\ PathOf(c) \in Path
          /\ PathOf(c) \in files[SS(c)] /\ trie'[PathOf(c)] = SS(c)
      BY <1>1, <2>6, FieldFacts
         DEF CreateUpdate, Map, At, Certain, Knows, TypeInv, TypeOK, Fits, Creating
    <3> QED
      BY <3>1
  <2>7. CASE DeleteUpdate(c)
    <3>1. /\ Op(c) = "DELETE_FILE" /\ PathOf(c) \in Path
          /\ trie'[PathOf(c)] = Null
          /\ \/ PathOf(c) \notin files[SS(c)]
             \/ <<SS(c), PathOf(c)>> \in doubt
      BY <1>1, <2>7, FieldFacts
         DEF DeleteUpdate, At, Certain, Knows, TypeInv, TypeOK, Fits, Deleting
    <3> QED
      BY <3>1
  <2>8. CASE CopyUpdate(c)
    <3>1. /\ Op(c) = "COPY_FILE" /\ DestOf(c) \in Path
          /\ DestOf(c) \in files[Dest(c)]
      BY <1>1, <2>8, FieldFacts
         DEF CopyUpdate, At, Certain, Knows, TypeInv, TypeOK, Fits, Copying
    <3>2. \/ trie'[DestOf(c)] = Dest(c)
          \/ <<Dest(c), DestOf(c)>> \in doubt
      BY <1>1, <2>8, <3>1
         DEF CopyUpdate, Map, AnswerOnly, background, At, Certain, Knows, TypeInv, TypeOK
    <3> QED
      BY <3>1, <3>2
  <2> QED
    BY <2>3, <2>4, <2>5, <2>6, <2>7, <2>8
<1>2. TypeInv /\ Certain /\ [Next]_vars => [\A c \in Conn : Acked(c)]_vars
  BY <1>1
<1> QED
  BY <1>2, AlwaysCertain, PTL DEF Spec, AckMeansDone
=============================================================================

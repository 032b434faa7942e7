-------------------------------- MODULE NFS ---------------------------------
(***************************************************************************)
(* The whole system: clients (client.c), the naming server                 *)
(* (naming_server.c) and storage servers (storage_server.c) that stop and  *)
(* start again.                                                            *)
(*                                                                         *)
(* A client, its connection and the handler that serves it are one thread  *)
(* of control, since each waits for the next.  Trie and cache are maps     *)
(* here (PathTrie and LRUCache have their insides) and an operation of a   *)
(* storage server on a file is one step (StorageServer has those).  What   *)
(* is cut apart is what other actors can come between: the look at the     *)
(* trie, the call, its answer, the update, the redirected client's own     *)
(* call, and the two halves of a copy.                                     *)
(*                                                                         *)
(* A storage server that stops breaks the connections to it, and a caller  *)
(* that waits is told so.  Files stay on its disk.                         *)
(***************************************************************************)
EXTENDS Naturals, FiniteSets

CONSTANTS
    Conn,               \* clients at work at the same time (bound)
    Server, Path,
    Asks,               \* the requests each client makes
    Exports,            \* the paths on each storage server's command line
    Disk,               \* the files each has from the start
    Null

\* READ_FILE stands for GET_FILE_INFO too: both are redirected and change nothing.
Request ==
    [op : {"READ_FILE", "WRITE_FILE", "CREATE_FILE", "DELETE_FILE"}, path : Path]
    \cup [op : {"COPY_FILE"}, path : Path, path2 : Path]

\* The codes of common.h that the modelled operations answer.
Code == {"SUCCESS", "FILE_NOT_FOUND", "FILE_EXISTS", "SS_UNAVAILABLE", "NETWORK_ERROR",
         "PERMISSION_DENIED", "ASYNC_WRITE_FAILED"}

ASSUME AsksAssumption == Asks \in [Conn -> SUBSET Request]
ASSUME ExportsAssumption == Exports \in [Server -> SUBSET Path]
ASSUME DiskAssumption == Disk \in [Server -> SUBSET Path]
ASSUME NullAssumption == Null \notin Server \cup [to : Conn, code : Code]

VARIABLES
    trie,               \* the server of each path, or Null
    cache,              \* the servers that its entries for each path name
    registered,         \* the servers the naming server may choose for a new path
    status,             \* how far each storage server has come
    files,              \* the paths that exist on each
    late,               \* the WRITEs of copies whose source has stopped
    handler,            \* each client and the handler of its request
    sent,               \* the answer given in the last step, Null if none was
    doubt               \* history: where files and trie may disagree, see Agreement

\* What most steps leave alone.
background == <<trie, cache, registered, late>>
vars == <<background, status, files, handler, sent, doubt>>

\* Position and request; target_ss or source_ss; dest_ss; whether dest_path_exists is
\* false; and, as history, whether the request has changed a file or the trie.
Idle == [pc |-> "idle", req |-> Null, ss |-> Null, dest |-> Null, new |-> FALSE,
         changed |-> FALSE]

Init ==
    /\ trie = [p \in Path |-> Null]
    /\ cache = [p \in Path |-> {}]
    /\ registered = {}
    /\ status = [s \in Server |-> "down"]
    /\ files = Disk
    /\ late = {}
    /\ handler = [c \in Conn |-> Idle]
    /\ sent = Null
    /\ doubt = {x \in Server \X Path : x[2] \in Disk[x[1]]}

At(c, where) == handler[c].pc = where
Op(c) == handler[c].req.op
PathOf(c) == handler[c].req.path
DestOf(c) == handler[c].req.path2
SS(c) == handler[c].ss
Dest(c) == handler[c].dest

Goto(c, where) ==
    /\ handler' = [handler EXCEPT ![c].pc = where]
    /\ sent' = Null

\* The answer is sent, and the request is over.
Answer(c, code) ==
    /\ sent' = [to |-> c, code |-> code]
    /\ handler' = [handler EXCEPT ![c] = Idle]

AnswerOnly(c, code) == Answer(c, code) /\ UNCHANGED <<background, status, files, doubt>>

-----------------------------------------------------------------------------
(* Clients: one request, and for READ and WRITE one more to the server     *)
(* the naming server names.                                                *)

Ask(c) ==
    /\ At(c, "idle")
    /\ \E r \in Asks[c] :
          handler' = [handler EXCEPT ![c] = [Idle EXCEPT !.pc = r.op, !.req = r]]
    /\ sent' = Null
    /\ UNCHANGED <<background, status, files, doubt>>

\* PERMISSION_DENIED stands for whatever makes a storage server refuse before it has done
\* anything: no memory for a lock, a failing stat or opendir, another kind of file.
Refused(c, code) == AnswerOnly(c, code) \/ AnswerOnly(c, "PERMISSION_DENIED")

\* The client goes where it was sent, however long that takes it.
ClientRead(c) ==
    /\ At(c, "redirected") /\ Op(c) = "READ_FILE"
    /\ \/ status[SS(c)] = "up" /\ PathOf(c) \in files[SS(c)] /\ AnswerOnly(c, "SUCCESS")
       \/ status[SS(c)] = "up" /\ Refused(c, "FILE_NOT_FOUND")
       \/ status[SS(c)] # "up" /\ AnswerOnly(c, "SS_UNAVAILABLE")

\* A write creates the file when it is not there, also when the data do not fit on the
\* disk and when the answer is lost.
ClientWrite(c) ==
    /\ At(c, "redirected") /\ Op(c) = "WRITE_FILE"
    /\ \/ /\ status[SS(c)] = "up"
          /\ files' = [files EXCEPT ![SS(c)] = @ \cup {PathOf(c)}]
          /\ doubt' = IF PathOf(c) \in files[SS(c)] THEN doubt
                      ELSE doubt \cup {<<SS(c), PathOf(c)>>}
          /\ \E code \in {"SUCCESS", "ASYNC_WRITE_FAILED", "NETWORK_ERROR"} : Answer(c, code)
          /\ UNCHANGED <<background, status>>
       \/ status[SS(c)] = "up" /\ AnswerOnly(c, "PERMISSION_DENIED")
       \/ status[SS(c)] # "up" /\ AnswerOnly(c, "SS_UNAVAILABLE")

-----------------------------------------------------------------------------
(* Lookups                                                                 *)

\* Where paths share a bucket an entry may be hidden, be put a second time and outlive a
\* removal (LRUCache): any entry of the path answers, or none does.
LookupCache(c) ==
    /\ handler[c].pc \in {"READ_FILE", "WRITE_FILE"}
    /\ \/ /\ \E s \in cache[PathOf(c)] :
                handler' = [handler EXCEPT ![c].pc = "redirected", ![c].ss = s]
          /\ sent' = Null
       \/ Goto(c, "lookup_trie")
    /\ UNCHANGED <<background, status, files, doubt>>

LookupTrie(c) ==
    /\ At(c, "lookup_trie")
    /\ \/ /\ trie[PathOf(c)] # Null
          /\ handler' = [handler EXCEPT ![c].pc = "lookup_put", ![c].ss = trie[PathOf(c)]]
          /\ sent' = Null
          /\ UNCHANGED <<background, status, files, doubt>>
       \/ trie[PathOf(c)] = Null /\ AnswerOnly(c, "FILE_NOT_FOUND")

\* The cache after an entry for path p and server s is freed; another may say the same.
Freed(p, s) == {cache, [cache EXCEPT ![p] = @ \ {s}]}

\* An entry may be evicted to make room, and malloc may fail for the new one.
LookupPut(c) ==
    /\ At(c, "lookup_put")
    /\ \E p \in Path, s \in Server : \E left \in Freed(p, s) :
          \/ cache' = left
          \/ cache' = [left EXCEPT ![PathOf(c)] = @ \cup {SS(c)}]
    /\ Goto(c, "redirected")
    /\ UNCHANGED <<trie, registered, late, status, files, doubt>>

-----------------------------------------------------------------------------
(* Calls of the naming server.  A server that does not listen, because it  *)
(* is down or has only just registered, refuses the connection; a call     *)
(* that fails in any other way before the server acts gives NETWORK_ERROR. *)

\* Variant: a call that takes long is given up, with a code of its own.
CallFails_timing_out(c) ==
    /\ handler[c].pc \in {"create_call", "delete_call", "copy_call"}
    /\ AnswerOnly(c, "TIMEOUT")

CallFails(c) ==
    /\ handler[c].pc \in {"create_call", "delete_call", "copy_call"}
    /\ \/ status[SS(c)] # "up" /\ AnswerOnly(c, "SS_UNAVAILABLE")
       \/ AnswerOnly(c, "NETWORK_ERROR")

\* The file a call has made or removed, of which the trie is not told yet.
Untold(c) ==
    CASE handler[c].pc \in {"create_done", "delete_done"} -> {<<SS(c), PathOf(c)>>}
      [] At(c, "copy_done") -> {<<Dest(c), DestOf(c)>>}
      [] OTHER -> {}

\* The storage server has acted and its answer does not arrive.
AnswerLost(c) ==
    /\ handler[c].pc \in {"create_done", "delete_done", "copy_done"}
    /\ doubt' = doubt \cup Untold(c)
    /\ Answer(c, "NETWORK_ERROR")
    /\ UNCHANGED <<background, status, files>>

\* receive_message reports the connection that a crash has broken.
CallBroken(c) ==
    /\ At(c, "broken")
    /\ AnswerOnly(c, "NETWORK_ERROR")

\* The server has done what it was asked to do.
Served(c, where) ==
    /\ handler' = [handler EXCEPT ![c].pc = where, ![c].changed = TRUE]
    /\ sent' = Null
    /\ UNCHANGED <<background, status>>

\* What mapping path p to server s takes from another server.
TakenFrom(p, s) == IF trie[p] \in {Null, s} THEN {} ELSE {<<trie[p], p>>}

\* The trie is told where path p is now.
Map(c, p, s) ==
    /\ trie' = [trie EXCEPT ![p] = s]
    /\ doubt' = doubt \cup TakenFrom(p, s)
    /\ Answer(c, "SUCCESS")
    /\ UNCHANGED <<registered, late, status, files>>

-----------------------------------------------------------------------------
(* CREATE_FILE *)

CreateCheck(c) ==
    /\ At(c, "CREATE_FILE")
    /\ \/ trie[PathOf(c)] # Null /\ AnswerOnly(c, "FILE_EXISTS")
       \/ trie[PathOf(c)] = Null /\ registered = {} /\ AnswerOnly(c, "SS_UNAVAILABLE")
       \/ /\ trie[PathOf(c)] = Null
          /\ \E s \in registered :
                handler' = [handler EXCEPT ![c].pc = "create_call", ![c].ss = s]
          /\ sent' = Null
          /\ UNCHANGED <<background, status, files, doubt>>

\* fopen with mode "w": a file that is there is emptied, and that is a success too.
CreateServe(c) ==
    /\ At(c, "create_call") /\ status[SS(c)] = "up"
    /\ \/ /\ files' = [files EXCEPT ![SS(c)] = @ \cup {PathOf(c)}]
          /\ doubt' = doubt \ {<<SS(c), PathOf(c)>>}
          /\ Served(c, "create_done")
       \/ AnswerOnly(c, "PERMISSION_DENIED")

CreateUpdate(c) ==
    /\ At(c, "create_done")
    /\ Map(c, PathOf(c), SS(c))
    /\ UNCHANGED cache

-----------------------------------------------------------------------------
(* DELETE_FILE *)

\* Variant: the path is unmapped before the storage server is asked.
DeleteFind_unmapping(c) ==
    /\ At(c, "DELETE_FILE") /\ trie[PathOf(c)] # Null
    /\ handler' = [handler EXCEPT ![c].pc = "delete_call", ![c].ss = trie[PathOf(c)],
                                  ![c].changed = TRUE]
    /\ trie' = [trie EXCEPT ![PathOf(c)] = Null]
    /\ sent' = Null
    /\ UNCHANGED <<cache, registered, late, status, files, doubt>>

DeleteFind(c) ==
    /\ At(c, "DELETE_FILE")
    /\ \/ trie[PathOf(c)] = Null /\ AnswerOnly(c, "FILE_NOT_FOUND")
       \/ /\ trie[PathOf(c)] # Null
          /\ handler' = [handler EXCEPT ![c].pc = "delete_call", ![c].ss = trie[PathOf(c)]]
          /\ sent' = Null
          /\ UNCHANGED <<background, status, files, doubt>>

\* Variant: the code in the answer is not looked at, and its operation is always ACK.
DeleteServe_acknowledged(c) ==
    /\ At(c, "delete_call") /\ status[SS(c)] = "up"
    /\ \/ files' = [files EXCEPT ![SS(c)] = @ \ {PathOf(c)}]
       \/ UNCHANGED files
    /\ doubt' = doubt \ {<<SS(c), PathOf(c)>>}
    /\ Served(c, "delete_done")

DeleteServe(c) ==
    /\ At(c, "delete_call") /\ status[SS(c)] = "up"
    /\ \/ /\ PathOf(c) \in files[SS(c)]
          /\ files' = [files EXCEPT ![SS(c)] = @ \ {PathOf(c)}]
          /\ doubt' = doubt \ {<<SS(c), PathOf(c)>>}
          /\ Served(c, "delete_done")
       \/ Refused(c, "FILE_NOT_FOUND")

DeleteUpdate(c) ==
    /\ At(c, "delete_done")
    /\ \E s \in Server : cache' \in Freed(PathOf(c), s)
    /\ trie' = [trie EXCEPT ![PathOf(c)] = Null]
    /\ doubt' = doubt \cup TakenFrom(PathOf(c), SS(c))
    /\ Answer(c, "SUCCESS")
    /\ UNCHANGED <<registered, late, status, files>>

-----------------------------------------------------------------------------
(* COPY_FILE: the source server reads, then writes to the client port of   *)
(* the destination server.                                                 *)

CopyFind(c) ==
    /\ At(c, "COPY_FILE")
    /\ \/ trie[PathOf(c)] = Null /\ AnswerOnly(c, "FILE_NOT_FOUND")
       \/ /\ trie[PathOf(c)] # Null
          /\ handler' = [handler EXCEPT ![c].pc = "copy_dest", ![c].ss = trie[PathOf(c)]]
          /\ sent' = Null
          /\ UNCHANGED <<background, status, files, doubt>>

\* Some server is registered, since the source is mapped to one: the branch that finds
\* none (:284-289) is never taken.
CopyDest(c) ==
    /\ At(c, "copy_dest")
    /\ \/ /\ trie[DestOf(c)] # Null
          /\ handler' = [handler EXCEPT ![c].pc = "copy_call", ![c].dest = trie[DestOf(c)]]
       \/ /\ trie[DestOf(c)] = Null
          /\ \E s \in registered :
                handler' = [handler EXCEPT ![c].pc = "copy_call", ![c].dest = s,
                                           ![c].new = TRUE]
    /\ sent' = Null
    /\ UNCHANGED <<background, status, files, doubt>>

CopyServe(c) ==
    /\ At(c, "copy_call") /\ status[SS(c)] = "up"
    /\ \/ /\ PathOf(c) \in files[SS(c)]
          /\ Goto(c, "copy_push")
          /\ UNCHANGED <<background, status, files, doubt>>
       \/ Refused(c, "FILE_NOT_FOUND")

\* The trie will not be told of a copy to a path it names another server for by now, nor
\* of one that filled the disk.
CopyPush(c) ==
    /\ At(c, "copy_push")
    /\ \/ /\ status[Dest(c)] = "up"
          /\ files' = [files EXCEPT ![Dest(c)] = @ \cup {DestOf(c)}]
          /\ \/ /\ doubt' = IF handler[c].new \/ trie[DestOf(c)] = Dest(c)
                            THEN doubt \ {<<Dest(c), DestOf(c)>>}
                            ELSE doubt \cup {<<Dest(c), DestOf(c)>>}
                /\ Served(c, "copy_done")
             \/ /\ doubt' = doubt \cup {<<Dest(c), DestOf(c)>>}
                /\ Answer(c, "ASYNC_WRITE_FAILED")
                /\ UNCHANGED <<background, status>>
       \/ status[Dest(c)] = "up" /\ AnswerOnly(c, "PERMISSION_DENIED")
       \/ status[Dest(c)] # "up" /\ AnswerOnly(c, "SS_UNAVAILABLE")
       \/ AnswerOnly(c, "NETWORK_ERROR")

\* Variant: the trie is not told where the copy is.
CopyUpdate_untold(c) ==
    /\ At(c, "copy_done")
    /\ AnswerOnly(c, "SUCCESS")

CopyUpdate(c) ==
    /\ At(c, "copy_done")
    /\ \/ handler[c].new /\ Map(c, DestOf(c), Dest(c)) /\ UNCHANGED cache
       \/ ~handler[c].new /\ AnswerOnly(c, "SUCCESS")

-----------------------------------------------------------------------------
(* Servers stop and start                                                  *)

\* The paths of its command line are mapped, whether the files are there or not and
\* whoever had them; the cache is left as it is.
Register(s) ==
    /\ status[s] = "down"
    /\ status' = [status EXCEPT ![s] = "registered"]
    /\ registered' = registered \cup {s}
    /\ trie' = [p \in Path |-> IF p \in Exports[s] THEN s ELSE trie[p]]
    /\ doubt' = (doubt \ {<<s, p>> : p \in Exports[s] \cap files[s]})
                    \cup {<<s, p>> : p \in Exports[s] \ files[s]}
                    \cup UNION {TakenFrom(p, s) : p \in Exports[s]}
    /\ sent' = Null
    /\ UNCHANGED <<cache, files, late, handler>>

\* Both ports; until then who connects is refused.
Listen(s) ==
    /\ status[s] = "registered"
    /\ status' = [status EXCEPT ![s] = "up"]
    /\ sent' = Null
    /\ UNCHANGED <<background, files, handler, doubt>>

\* The calls that wait for an answer that now does not come.
WaitsFor(c, s) ==
    \/ handler[c].pc \in {"create_done", "delete_done", "copy_push", "copy_done"} /\ SS(c) = s
    \/ At(c, "copy_done") /\ Dest(c) = s

\* The WRITEs that server s may have sent for its copies before it stops: who receives them
\* does not know that nobody waits for the answer.
Pushed(s) == {<<Dest(c), DestOf(c)>> : c \in
    {d \in Conn : At(d, "copy_push") /\ SS(d) = s /\ Dest(d) # s /\ status[Dest(d)] = "up"}}

Crash(s) ==
    /\ status[s] # "down"
    /\ \E more \in SUBSET Pushed(s) : late' = {x \in late : x[1] # s} \cup more
    /\ status' = [status EXCEPT ![s] = "down"]
    /\ handler' = [c \in Conn |-> IF WaitsFor(c, s) THEN [Idle EXCEPT !.pc = "broken"]
                                  ELSE handler[c]]
    /\ doubt' = doubt \cup UNION {Untold(c) : c \in {d \in Conn : WaitsFor(d, s)}}
    /\ sent' = Null
    /\ UNCHANGED <<trie, cache, registered, files>>

\* It is carried out when nobody expects it any more.
LateWrite(s, p) ==
    /\ <<s, p>> \in late /\ status[s] = "up"
    /\ late' = late \ {<<s, p>>}
    /\ files' = [files EXCEPT ![s] = @ \cup {p}]
    /\ doubt' = IF p \in files[s] THEN doubt ELSE doubt \cup {<<s, p>>}
    /\ sent' = Null
    /\ UNCHANGED <<trie, cache, registered, status, handler>>

-----------------------------------------------------------------------------
Serve(c) == \/ ClientRead(c) \/ ClientWrite(c)
            \/ LookupCache(c) \/ LookupTrie(c) \/ LookupPut(c)
            \/ CallFails(c) \/ AnswerLost(c) \/ CallBroken(c)
            \/ CreateCheck(c) \/ CreateServe(c) \/ CreateUpdate(c)
            \/ DeleteFind(c) \/ DeleteServe(c) \/ DeleteUpdate(c)
            \/ CopyFind(c) \/ CopyDest(c) \/ CopyServe(c) \/ CopyPush(c) \/ CopyUpdate(c)

Next == \/ \E c \in Conn : Ask(c) \/ Serve(c)
        \/ \E s \in Server : Register(s) \/ Listen(s) \/ Crash(s)
        \/ \E s \in Server, p \in Path : LateWrite(s, p)

Spec == Init /\ [][Next]_vars

-----------------------------------------------------------------------------
Location == {"idle", "READ_FILE", "WRITE_FILE", "CREATE_FILE", "DELETE_FILE", "COPY_FILE",
             "lookup_trie", "lookup_put", "redirected", "create_call", "create_done",
             "delete_call", "delete_done", "copy_dest", "copy_call", "copy_push",
             "copy_done", "broken"}

Handler == [pc : Location, req : Request \cup {Null}, ss : Server \cup {Null},
            dest : Server \cup {Null}, new : BOOLEAN, changed : BOOLEAN]

\* Type invariant.
TypeOK ==
    /\ trie \in [Path -> Server \cup {Null}]
    /\ cache \in [Path -> SUBSET Server]
    /\ registered \subseteq Server
    /\ status \in [Server -> {"down", "registered", "up"}]
    /\ files \in [Server -> SUBSET Path]
    /\ late \subseteq Server \X Path
    /\ handler \in [Conn -> Handler]
    /\ sent \in [to : Conn, code : Code] \cup {Null}
    /\ doubt \subseteq Server \X Path

\* While one client mutates, the trie names a server for a path just when the file is
\* there, or one of these came between: a call whose answer was lost after the storage
\* server had acted (naming_server.c:179, :243, :326), a registration that maps a missing
\* file or takes a path from another server (:85), a redirected write that made the file
\* (ss_file_operations.c:208), the write of a copy whose source has stopped
\* (storage_server.c:203), a copy that filled the disk (ss_file_operations.c:217), a file
\* that was never registered (naming_server.c:124).
Agreement == \A s \in Server, p \in Path :
    \/ p \in files[s] <=> trie[p] = s
    \/ <<s, p>> \in doubt
    \/ \E c \in Conn : <<s, p>> \in Untold(c)

\* A request that is refused has changed nothing.  NETWORK_ERROR leaves it open whether
\* it was carried out, and ASYNC_WRITE_FAILED says that it was in part
\* (naming_server.c:179-206, storage_server.c:181-228, ss_file_operations.c:217-220).
Unclear == {"SUCCESS", "NETWORK_ERROR", "ASYNC_WRITE_FAILED"}

CleanRefusals == [][\A c \in Conn, code \in Code \ Unclear :
    sent' = [to |-> c, code |-> code] =>
        ~handler[c].changed /\ files' = files /\ trie' = trie]_vars

\* A creation or copy that is acknowledged has made the file and the trie leads to it; a
\* deletion that is acknowledged has removed both, unless a client that was redirected
\* before, or a copy whose source had stopped, wrote the file again
\* (naming_server.c:188-201, :253-262, :336-351).
AckMeansDone == [][\A c \in Conn :
    sent' = [to |-> c, code |-> "SUCCESS"] =>
        CASE Op(c) = "CREATE_FILE" -> PathOf(c) \in files[SS(c)] /\ trie'[PathOf(c)] = SS(c)
          [] Op(c) = "COPY_FILE" -> /\ DestOf(c) \in files[Dest(c)]
                                    /\ \/ trie'[DestOf(c)] = Dest(c)
                                       \/ <<Dest(c), DestOf(c)>> \in doubt
          [] Op(c) = "DELETE_FILE" -> /\ trie'[PathOf(c)] = Null
                                      /\ \/ PathOf(c) \notin files[SS(c)]
                                         \/ <<SS(c), PathOf(c)>> \in doubt
          [] OTHER -> TRUE]_vars
=============================================================================

---------------------------- MODULE NamingServer ----------------------------
(***************************************************************************)
(* The naming server (naming_server.c): an accept loop that starts one     *)
(* thread, handle_connection, for each connection; the thread reads one    *)
(* request, serves it and closes.  The threads share the array of storage  *)
(* servers, the trie from paths to entries of that array, and the LRU      *)
(* cache of lookups.                                                       *)
(*                                                                         *)
(* A step is what other threads see as one: a trie or cache operation, or  *)
(* a critical section of ss_list_mutex.  The two sections whose inside is  *)
(* visible, because lookups use the trie and the cache without the mutex,  *)
(* are several steps and hold it: registration publishes its paths one by  *)
(* one, and DELETE clears the trie before the cache.  accessible_paths is  *)
(* read by mutex holders only.  Calls to a storage server are made without *)
(* the mutex; what such a call brings back is chosen freely.               *)
(*                                                                         *)
(* A pointer to StorageServerInfo is a slot of registered_ss or a cache    *)
(* node (local.node); the second is used after the cache lock is released. *)
(***************************************************************************)
EXTENDS LRUList

CONSTANTS
    Conn,                  \* connections served at the same time (bound)
    Operations,            \* the requests clients and servers send (bound)
    Exports,               \* the paths each server names when it registers
    PathOrder,             \* the paths in byte order
    RpcCode,               \* what a forwarded call may bring back
    MAX_SS,
    MAX_ACCESSIBLE_PATHS

Slot == 0 .. MAX_SS - 1

ASSUME ConnAssumption == Null \notin Conn
ASSUME LimitAssumption == MAX_SS \in Nat \ {0} /\ MAX_ACCESSIBLE_PATHS \in Nat
ASSUME SlotAssumption == Null \notin Slot
\* The storage server takes at most MAX_ACCESSIBLE_PATHS paths from its command line.
ASSUME ExportsAssumption ==
    /\ Exports \in [Server -> Seq(Path)]
    /\ \A s \in Server : Len(Exports[s]) <= MAX_ACCESSIBLE_PATHS
ASSUME OrderAssumption == PathOrder \in Seq(Path)
ASSUME RpcAssumption == "SUCCESS" \in RpcCode

VARIABLES
    registered_ss, num_registered_ss, current_ss_index,
    ss_list_mutex,   \* the connection whose thread holds it, or Null
    trie,            \* ss_info of the node of each path: a slot, or Null
    cache,           \* path_lru_cache
    fault,           \* TRUE: a freed cache node was read
    pc, req, local, reply,   \* each thread: position, msg, pointers, response_msg
    placed           \* history: the (path, server) pairs ever put in the trie

servers == <<registered_ss, num_registered_ss, current_ss_index>>
threads == <<pc, req, local, reply>>
vars == <<servers, ss_list_mutex, trie, cache, fault, threads, placed>>

NoLocal == [ss |-> Null, dest |-> Null, exists |-> FALSE, node |-> Null, rest |-> << >>]

Init ==
    /\ registered_ss = [i \in Slot |-> [server |-> Null, accessible_paths |-> << >>]]
    /\ num_registered_ss = 0
    /\ current_ss_index = 0
    /\ ss_list_mutex = Null
    /\ trie = [p \in Path |-> Null]
    /\ cache = EmptyCache
    /\ fault = FALSE
    /\ pc = [c \in Conn |-> "idle"]
    /\ req = [c \in Conn |-> Null]
    /\ local = [c \in Conn |-> NoLocal]
    /\ reply = [c \in Conn |-> Null]
    /\ placed = {}

-----------------------------------------------------------------------------
(* Requests.  READ, WRITE and GET_FILE_INFO share one handler: LOOKUP.     *)

PathOperation == {"CREATE_FILE", "DELETE_FILE", "LOOKUP"}

Request ==
    {r \in [op : {"REGISTER_SS"}, server : Server]
           \cup [op : {"LIST_PATHS", "UNKNOWN"}]
           \cup [op : PathOperation, path : Path]
           \cup [op : {"COPY_FILE"}, path : Path, path2 : Path] : r.op \in Operations}

\* The thread of c goes on at another position, with these pointers.
Goto(c, where, ptrs) ==
    /\ pc' = [pc EXCEPT ![c] = where]
    /\ local' = [local EXCEPT ![c] = ptrs]
    /\ UNCHANGED <<req, reply>>

\* The thread of c leaves the switch with its answer.
Answer(c, code, server, paths) ==
    /\ pc' = [pc EXCEPT ![c] = "reply"]
    /\ reply' = [reply EXCEPT ![c] = [code |-> code, server |-> server, paths |-> paths]]
    /\ local' = [local EXCEPT ![c] = NoLocal]
    /\ UNCHANGED req

Ack(c) == Answer(c, "SUCCESS", Null, {})
Nack(c, code) == Answer(c, code, Null, {})

\* The thread of c reads a freed node: nothing more is said of this process.
ReadFreed(c) ==
    /\ fault' = TRUE
    /\ UNCHANGED <<servers, ss_list_mutex, trie, cache, threads, placed>>

\* accept, pthread_create and a receive that succeeds; one that fails closes
\* the connection and leaves nothing.
Accept(c) ==
    /\ pc[c] = "idle"
    /\ \E r \in Request : /\ req' = [req EXCEPT ![c] = r]
                          /\ pc' = [pc EXCEPT ![c] = r.op]
    /\ UNCHANGED <<servers, ss_list_mutex, trie, cache, fault, local, reply, placed>>

\* accept, and no thread for the connection: pthread_create answers a positive number
\* then, the test is for a negative one, and the connection stays open unserved.
NoThread(c) ==
    /\ pc[c] = "idle"
    /\ pc' = [pc EXCEPT ![c] = "unserved"]
    /\ UNCHANGED <<servers, ss_list_mutex, trie, cache, fault, req, local, reply, placed>>

\* send_message and close.
Reply(c) ==
    /\ pc[c] = "reply"
    /\ pc' = [pc EXCEPT ![c] = "idle"]
    /\ req' = [req EXCEPT ![c] = Null]
    /\ reply' = [reply EXCEPT ![c] = Null]
    /\ UNCHANGED <<servers, ss_list_mutex, trie, cache, fault, local, placed>>

UnknownOperation(c) ==
    /\ pc[c] = "UNKNOWN"
    /\ Nack(c, "INVALID_OPERATION")
    /\ UNCHANGED <<servers, ss_list_mutex, trie, cache, fault, placed>>

-----------------------------------------------------------------------------
(* REGISTER_SS *)

MutexFree == ss_list_mutex = Null

\* Variant: registration without the mutex, the next slot read before it is taken.
RegisterStart_unlocked(c) ==
    /\ pc[c] = "REGISTER_SS"
    /\ num_registered_ss < MAX_SS
    /\ registered_ss' = [registered_ss EXCEPT ![num_registered_ss] =
           [server |-> req[c].server, accessible_paths |-> Exports[req[c].server]]]
    /\ Goto(c, "register_paths", [NoLocal EXCEPT !.rest = Exports[req[c].server]])
    /\ UNCHANGED <<num_registered_ss, current_ss_index, ss_list_mutex, trie, cache, fault,
                   placed>>

RegisterStart(c) ==
    /\ pc[c] = "REGISTER_SS"
    /\ MutexFree
    /\ num_registered_ss < MAX_SS
    /\ ss_list_mutex' = c
    /\ registered_ss' = [registered_ss EXCEPT ![num_registered_ss] =
           [server |-> req[c].server, accessible_paths |-> Exports[req[c].server]]]
    /\ Goto(c, "register_paths", [NoLocal EXCEPT !.rest = Exports[req[c].server]])
    /\ UNCHANGED <<num_registered_ss, current_ss_index, trie, cache, fault, placed>>

trie_insert(p, i) ==
    /\ trie' = [trie EXCEPT ![p] = i]
    /\ placed' = placed \cup {<<p, registered_ss[i].server>>}

RegisterPath(c) ==
    /\ pc[c] = "register_paths"
    /\ local[c].rest # << >>
    /\ trie_insert(Head(local[c].rest), num_registered_ss)
    /\ Goto(c, "register_paths", [local[c] EXCEPT !.rest = Tail(@)])
    /\ UNCHANGED <<servers, ss_list_mutex, cache, fault>>

RegisterEnd(c) ==
    /\ pc[c] = "register_paths"
    /\ local[c].rest = << >>
    /\ num_registered_ss' = num_registered_ss + 1
    /\ ss_list_mutex' = Null
    /\ Ack(c)
    /\ UNCHANGED <<registered_ss, current_ss_index, trie, cache, fault, placed>>

RegisterFull(c) ==
    /\ pc[c] = "REGISTER_SS"
    /\ MutexFree
    /\ num_registered_ss = MAX_SS
    /\ Nack(c, "SS_UNAVAILABLE")
    /\ UNCHANGED <<servers, ss_list_mutex, trie, cache, fault, placed>>

-----------------------------------------------------------------------------
(* LIST_PATHS.  Collecting holds the read lock of every trie node from the *)
(* root down while insertions and deletions exclude each other: what it    *)
(* returns is the content of the trie at one moment.                       *)

Mapped == {i \in DOMAIN PathOrder : trie[PathOrder[i]] # Null}

\* The first of them, as many as the answer has room for.
trie_collect_paths ==
    {PathOrder[i] : i \in {k \in Mapped :
        Cardinality({j \in Mapped : j <= k}) <= MAX_ACCESSIBLE_PATHS}}

ListPaths(c) ==
    /\ pc[c] = "LIST_PATHS"
    /\ Answer(c, "SUCCESS", Null, trie_collect_paths)
    /\ UNCHANGED <<servers, ss_list_mutex, trie, cache, fault, placed>>

\* No memory for the array of paths.
ListFails(c) ==
    /\ pc[c] = "LIST_PATHS"
    /\ Nack(c, "NETWORK_ERROR")
    /\ UNCHANGED <<servers, ss_list_mutex, trie, cache, fault, placed>>

-----------------------------------------------------------------------------
(* CREATE_FILE *)

\* Variants: the cursor runs over the whole array; the cursor is moved before it is
\* read.
cursor_over_array(i) ==
    /\ num_registered_ss > 0
    /\ i = current_ss_index
    /\ current_ss_index' = (current_ss_index + 1) % MAX_SS
cursor_read_late(i) ==
    /\ num_registered_ss > 0
    /\ i = current_ss_index + 1
    /\ current_ss_index' = (current_ss_index + 1) % num_registered_ss

\* The slot whose turn it is, and the turn passed on.
get_available_ss_for_creation(i) ==
    /\ num_registered_ss > 0
    /\ i = current_ss_index
    /\ current_ss_index' = (current_ss_index + 1) % num_registered_ss

NoServerForCreation == num_registered_ss = 0

CreateCheck(c) ==
    /\ pc[c] = "CREATE_FILE"
    /\ \/ /\ trie[req[c].path] # Null
          /\ Nack(c, "FILE_EXISTS")
       \/ /\ trie[req[c].path] = Null
          /\ Goto(c, "create_pick", NoLocal)
    /\ UNCHANGED <<servers, ss_list_mutex, trie, cache, fault, placed>>

\* Variant: the mutex is kept during the call to the storage server.
CreatePick_keeping_mutex(c) ==
    /\ pc[c] = "create_pick"
    /\ MutexFree
    /\ ss_list_mutex' = c
    /\ \E i \in Slot : /\ get_available_ss_for_creation(i)
                      /\ Goto(c, "create_rpc", [NoLocal EXCEPT !.ss = i])
    /\ UNCHANGED <<registered_ss, num_registered_ss, trie, cache, fault, placed>>

CreatePick(c) ==
    /\ pc[c] = "create_pick"
    /\ MutexFree
    /\ \/ \E i \in Slot : /\ get_available_ss_for_creation(i)
                          /\ Goto(c, "create_rpc", [NoLocal EXCEPT !.ss = i])
       \/ /\ NoServerForCreation
          /\ Nack(c, "SS_UNAVAILABLE")
          /\ UNCHANGED current_ss_index
    /\ UNCHANGED <<registered_ss, num_registered_ss, ss_list_mutex, trie, cache, fault,
                   placed>>

\* Connect, send and receive, with every way they or the server can fail.
Rpc(c, next) ==
    \E code \in RpcCode : IF code = "SUCCESS" THEN Goto(c, next, local[c])
                                              ELSE Nack(c, code)

CreateRpc(c) ==
    /\ pc[c] = "create_rpc"
    /\ Rpc(c, "create_update")
    /\ UNCHANGED <<servers, ss_list_mutex, trie, cache, fault, placed>>

\* Variant: a server's list of paths is not bounded.
Listed_unbounded(paths, p) == Append(paths, p)

\* The path is added to the server's list while there is room in it.
Listed(paths, p) == IF Len(paths) < MAX_ACCESSIBLE_PATHS THEN Append(paths, p) ELSE paths

Place(p, i) ==
    /\ MutexFree
    /\ trie_insert(p, i)
    /\ registered_ss' = [registered_ss EXCEPT ![i].accessible_paths = Listed(@, p)]

CreateUpdate(c) ==
    /\ pc[c] = "create_update"
    /\ Place(req[c].path, local[c].ss)
    /\ Ack(c)
    /\ UNCHANGED <<num_registered_ss, current_ss_index, ss_list_mutex, cache, fault>>

-----------------------------------------------------------------------------
(* DELETE_FILE *)

DeleteFind(c) ==
    /\ pc[c] = "DELETE_FILE"
    /\ \/ /\ trie[req[c].path] = Null
          /\ Nack(c, "FILE_NOT_FOUND")
       \/ /\ trie[req[c].path] # Null
          /\ Goto(c, "delete_rpc", [NoLocal EXCEPT !.ss = trie[req[c].path]])
    /\ UNCHANGED <<servers, ss_list_mutex, trie, cache, fault, placed>>

DeleteRpc(c) ==
    /\ pc[c] = "delete_rpc"
    /\ Rpc(c, "delete_trie")
    /\ UNCHANGED <<servers, ss_list_mutex, trie, cache, fault, placed>>

DeleteTrie(c) ==
    /\ pc[c] = "delete_trie"
    /\ MutexFree
    /\ ss_list_mutex' = c
    /\ trie' = [trie EXCEPT ![req[c].path] = Null]
    /\ Goto(c, "delete_cache", local[c])
    /\ UNCHANGED <<servers, cache, fault, placed>>

\* Variant: a deleted path stays in its server's list.
keep_path_in_ss_info(i, p) == UNCHANGED registered_ss

remove_path_from_ss_info(i, p) ==
    registered_ss' = [registered_ss EXCEPT ![i].accessible_paths = RemoveFirst(@, p)]

\* Variant: a deletion that does not invalidate the cache.
DeleteCache_keeping_entry(c) ==
    /\ pc[c] = "delete_cache"
    /\ remove_path_from_ss_info(local[c].ss, req[c].path)
    /\ ss_list_mutex' = Null
    /\ Ack(c)
    /\ UNCHANGED <<num_registered_ss, current_ss_index, trie, cache, fault, placed>>

DeleteCache(c) ==
    /\ pc[c] = "delete_cache"
    /\ ~Dangling(cache, req[c].path)
    /\ cache' = lru_remove(cache, req[c].path)
    /\ remove_path_from_ss_info(local[c].ss, req[c].path)
    /\ ss_list_mutex' = Null
    /\ Ack(c)
    /\ UNCHANGED <<num_registered_ss, current_ss_index, trie, fault, placed>>

-----------------------------------------------------------------------------
(* COPY_FILE *)

CopySource(c) ==
    /\ pc[c] = "COPY_FILE"
    /\ \/ /\ trie[req[c].path] = Null
          /\ Nack(c, "FILE_NOT_FOUND")
       \/ /\ trie[req[c].path] # Null
          /\ Goto(c, "copy_dest", [NoLocal EXCEPT !.ss = trie[req[c].path]])
    /\ UNCHANGED <<servers, ss_list_mutex, trie, cache, fault, placed>>

CopyDest(c) ==
    /\ pc[c] = "copy_dest"
    /\ \/ /\ trie[req[c].path2] = Null
          /\ Goto(c, "copy_pick", local[c])
       \/ /\ trie[req[c].path2] # Null
          /\ Goto(c, "copy_rpc", [local[c] EXCEPT !.dest = trie[req[c].path2],
                                                  !.exists = TRUE])
    /\ UNCHANGED <<servers, ss_list_mutex, trie, cache, fault, placed>>

CopyPick(c) ==
    /\ pc[c] = "copy_pick"
    /\ MutexFree
    /\ \/ \E i \in Slot : /\ get_available_ss_for_creation(i)
                          /\ Goto(c, "copy_rpc", [local[c] EXCEPT !.dest = i])
       \/ /\ NoServerForCreation
          /\ Nack(c, "SS_UNAVAILABLE")
          /\ UNCHANGED current_ss_index
    /\ UNCHANGED <<registered_ss, num_registered_ss, ss_list_mutex, trie, cache, fault,
                   placed>>

CopyRpc(c) ==
    /\ pc[c] = "copy_rpc"
    /\ Rpc(c, "copy_update")
    /\ UNCHANGED <<servers, ss_list_mutex, trie, cache, fault, placed>>

\* A destination that was there before the call is not touched again.
CopyUpdate(c) ==
    /\ pc[c] = "copy_update"
    /\ \/ ~local[c].exists /\ Place(req[c].path2, local[c].dest)
       \/ local[c].exists /\ UNCHANGED <<registered_ss, trie, placed>>
    /\ Ack(c)
    /\ UNCHANGED <<num_registered_ss, current_ss_index, ss_list_mutex, cache, fault>>

-----------------------------------------------------------------------------
(* READ_FILE, WRITE_FILE, GET_FILE_INFO *)

LookupCache(c) ==
    /\ pc[c] = "LOOKUP"
    /\ ~Dangling(cache, req[c].path)
    /\ cache' = lru_get(cache, req[c].path)
    /\ LET n == Found(cache, req[c].path)
       IN  IF n = Null THEN Goto(c, "lookup_trie", NoLocal)
                       ELSE Goto(c, "lookup_answer", [NoLocal EXCEPT !.node = n])
    /\ UNCHANGED <<servers, ss_list_mutex, trie, fault, placed>>

LookupTrie(c) ==
    /\ pc[c] = "lookup_trie"
    /\ \/ /\ trie[req[c].path] = Null
          /\ Nack(c, "FILE_NOT_FOUND")
       \/ /\ trie[req[c].path] # Null
          /\ Goto(c, "lookup_put", [NoLocal EXCEPT !.ss = trie[req[c].path]])
    /\ UNCHANGED <<servers, ss_list_mutex, trie, cache, fault, placed>>

LookupPut(c) ==
    /\ pc[c] = "lookup_put"
    /\ ~Dangling(cache, req[c].path)
    /\ \E n \in Fresh(cache) :
          cache' = lru_put(cache, req[c].path, registered_ss[local[c].ss].server, n)
    /\ Goto(c, "lookup_answer", local[c])
    /\ UNCHANGED <<servers, ss_list_mutex, trie, fault, placed>>

\* Variant: a hit is answered from the front of the list, where it was moved.
Pointed_at_head(c) == IF local[c].node = Null THEN registered_ss[local[c].ss].server
                                              ELSE cache.info[Head(cache.list)]

\* The server ss_info points at: an array entry, or what the cache node holds by now.
Pointed(c) == IF local[c].node = Null THEN registered_ss[local[c].ss].server
                                      ELSE cache.info[local[c].node]

NodeFreed(c) == local[c].node \notin Live(cache) \cup {Null}

LookupAnswer(c) ==
    /\ pc[c] = "lookup_answer"
    /\ ~NodeFreed(c)
    /\ Answer(c, "SUCCESS", Pointed(c), {})
    /\ UNCHANGED <<servers, ss_list_mutex, trie, cache, fault, placed>>

\* The scan of a cache operation, or the copy into the response, reads a node
\* that was freed.
UseAfterFree(c) ==
    /\ \/ pc[c] \in {"LOOKUP", "lookup_put", "delete_cache"} /\ Dangling(cache, req[c].path)
       \/ pc[c] = "lookup_answer" /\ NodeFreed(c)
    /\ ReadFreed(c)

-----------------------------------------------------------------------------
(* The process is killed or dies and is started again, with nothing left:  *)
(* none of its state is kept on disk.                                      *)
Restart ==
    /\ registered_ss' = [i \in Slot |-> [server |-> Null, accessible_paths |-> << >>]]
    /\ num_registered_ss' = 0
    /\ current_ss_index' = 0
    /\ ss_list_mutex' = Null
    /\ trie' = [p \in Path |-> Null]
    /\ cache' = EmptyCache
    /\ fault' = FALSE
    /\ pc' = [c \in Conn |-> "idle"]
    /\ req' = [c \in Conn |-> Null]
    /\ local' = [c \in Conn |-> NoLocal]
    /\ reply' = [c \in Conn |-> Null]
    /\ placed' = {}

\* What the thread of c does on its own, without waiting.
Run(c) == \/ Reply(c) \/ UnknownOperation(c)
          \/ RegisterPath(c) \/ RegisterEnd(c)
          \/ ListPaths(c) \/ ListFails(c)
          \/ CreateCheck(c) \/ DeleteFind(c) \/ DeleteCache(c)
          \/ CopySource(c) \/ CopyDest(c)
          \/ LookupCache(c) \/ LookupTrie(c) \/ LookupPut(c) \/ LookupAnswer(c)
          \/ UseAfterFree(c)

\* What it does once it has ss_list_mutex.
Locked(c) == \/ RegisterStart(c) \/ RegisterFull(c)
             \/ CreatePick(c) \/ CreateUpdate(c)
             \/ DeleteTrie(c)
             \/ CopyPick(c) \/ CopyUpdate(c)

\* What it does when a storage server has answered, or the connection is lost.
Call(c) == CreateRpc(c) \/ DeleteRpc(c) \/ CopyRpc(c)

Next == \/ ~fault /\ \E c \in Conn : Accept(c) \/ NoThread(c) \/ Run(c) \/ Locked(c) \/ Call(c)
        \/ Restart

Spec == Init /\ [][Next]_vars

(***************************************************************************)
(* Threads are scheduled, and a thread that keeps asking for the mutex     *)
(* gets it: every section that holds it is a short run of the same thread. *)
(* Nothing is assumed of new connections or of the storage servers: a      *)
(* forwarded call may never come back.                                     *)
(***************************************************************************)
Fairness == \A c \in Conn : /\ WF_vars(~fault /\ Run(c))
                            /\ SF_vars(~fault /\ Locked(c))

FairSpec == Spec /\ Fairness

-----------------------------------------------------------------------------
Code == RpcCode \cup {"FILE_EXISTS", "FILE_NOT_FOUND", "SS_UNAVAILABLE",
                      "NETWORK_ERROR", "INVALID_OPERATION"}

Location == {"idle", "unserved", "reply", "REGISTER_SS", "LIST_PATHS", "UNKNOWN",
             "register_paths",
             "CREATE_FILE", "create_pick", "create_rpc", "create_update",
             "DELETE_FILE", "delete_rpc", "delete_trie", "delete_cache",
             "COPY_FILE", "copy_dest", "copy_pick", "copy_rpc", "copy_update",
             "LOOKUP", "lookup_trie", "lookup_put", "lookup_answer"}

ServersOK ==
    /\ registered_ss \in [Slot -> [server : Server \cup {Null},
                                   accessible_paths : Seq(Path)]]
    /\ \A i \in Slot : Len(registered_ss[i].accessible_paths) <= MAX_ACCESSIBLE_PATHS
    /\ num_registered_ss \in 0 .. MAX_SS
    /\ current_ss_index \in Nat

SharedOK ==
    /\ ss_list_mutex \in Conn \cup {Null}
    /\ trie \in [Path -> Slot \cup {Null}]
    /\ WellFormed(cache)
    /\ fault \in BOOLEAN
    /\ placed \subseteq Path \X Server

Pointers == [ss : Slot \cup {Null}, dest : Slot \cup {Null}, exists : BOOLEAN,
             node : Node \cup {Null}, rest : Seq(Path)]

Response == [code : Code, server : Server \cup {Null}, paths : SUBSET Path]

ThreadsOK ==
    /\ pc \in [Conn -> Location]
    /\ req \in [Conn -> Request \cup {Null}]
    /\ local \in [Conn -> Pointers]
    /\ reply \in [Conn -> Response \cup {Null}]

\* Type invariant; no list of paths outgrows its array.
TypeOK == ServersOK /\ SharedOK /\ ThreadsOK

\* No pointer to an array entry that registration has not filled in is ever held:
\* not by the trie, and not by a thread (naming_server.c:77-88, :160, :373).
PointersFilled ==
    /\ \A p \in Path : trie[p] # Null => registered_ss[trie[p]].server # Null
    /\ \A c \in Conn : /\ local[c].ss # Null => registered_ss[local[c].ss].server # Null
                       /\ local[c].dest # Null => registered_ss[local[c].dest].server # Null

\* The round-robin cursor names a registered server as soon as there is one,
\* whatever registrations happen between two picks (naming_server.c:30-31).
RoundRobinInRange == \/ current_ss_index < num_registered_ss
                     \/ current_ss_index = 0 /\ num_registered_ss = 0

\* A registered entry is never given to another server: trie, cache and threads
\* read it through pointers without the mutex (naming_server.c:77, :160, :373).
RegistrationStable == [][Restart \/ \A i \in Slot :
    registered_ss[i].server # Null => registered_ss'[i].server = registered_ss[i].server]_vars

\* The pointer lru_get returned still points at an allocated node when it is used
\* (naming_server.c:362, :373).
NoUseAfterFree == ~fault

\* An acknowledged creation or copy never takes a path away from the server it is
\* mapped to (naming_server.c:137-143).
PlacementExclusive == [][\A c \in Conn : CreateUpdate(c) \/ CopyUpdate(c) =>
    \A p \in Path : trie[p] # Null => trie'[p] = trie[p]]_vars

\* A thread waits for nothing but its own call to a storage server: it answers
\* although another's call never comes back, since nobody holds ss_list_mutex during
\* a call and every section gives it back (instructions.md:134, naming_server.c:190).
Calling(c) == pc[c] \in {"create_rpc", "delete_rpc", "copy_rpc"}

WaitsOnlyForItsCall == \A c \in Conn :
    req[c] # Null ~> req[c] = Null \/ Calling(c) \/ fault

=============================================================================

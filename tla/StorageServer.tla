--------------------------- MODULE StorageServer ----------------------------
(***************************************************************************)
(* A storage server after it has registered (storage_server.c): a select   *)
(* loop that starts a thread for each connection on its two ports,         *)
(* handle_client_connection and handle_nm_connection, and the file         *)
(* operations those threads call (ss_file_operations.c) under a            *)
(* reader/writer lock per path.                                            *)
(*                                                                         *)
(* The lock table is a chain per bucket, searched by path; the first node  *)
(* found is the newest of its path, whatever the bucket, so a sequence of  *)
(* nodes in the order of their creation stands for the table.  Nodes are   *)
(* never freed.  The rwlocks are the C library's, which let a reader in    *)
(* whenever no writer is inside, waiting writers or not.                   *)
(*                                                                         *)
(* Two paths may be spellings of one file: locks go by path, contents by   *)
(* file.                                                                   *)
(*                                                                         *)
(* The process may die at any time, and starts again with an empty table.  *)
(***************************************************************************)
EXTENDS Naturals, FiniteSets, SequencesExt

CONSTANTS
    Conn,          \* connections open at the same time (bound)
    Path, File,
    FileOf,        \* the file a path names
    Data,          \* the contents clients write
    Absent, Dir, Empty, Partial,   \* other contents
    Operations,    \* the requests that arrive (bound)
    DiskMayFill,   \* whether writing may fail after the file was opened
    Null

ASSUME FileAssumption == FileOf \in [Path -> File]

VARIABLES
    file_locks,         \* lock nodes: path, readers inside, writer inside
    file_locks_mutex,   \* the connection whose thread holds it, or Null
    files,              \* the file system
    pc, req, node, reply,   \* each thread: position, msg, lock node, response_msg
    before              \* history: content of its file when a write began

locks == <<file_locks, file_locks_mutex>>
vars == <<locks, files, pc, req, node, reply, before>>

Content == Data \cup {Absent, Dir, Empty, Partial}

Shared == {"READ_FILE", "GET_FILE_INFO", "COPY_FILE"}
Exclusive == {"WRITE_FILE", "CREATE_FILE", "DELETE_FILE"}

\* A CREATE carries its type as the content it makes: Absent for a type that is neither
\* a file's nor a directory's.
Request ==
    {r \in [op : Shared \cup {"DELETE_FILE", "UNKNOWN"}, path : Path, data : {Empty}]
           \cup [op : {"WRITE_FILE"}, path : Path, data : Data]
           \cup [op : {"CREATE_FILE"}, path : Path, data : {Empty, Dir, Absent}] :
        r.op \in Operations}

Code == {"SUCCESS", "INVALID_OPERATION", "FILE_IN_USE", "FILE_NOT_FOUND",
         "PERMISSION_DENIED", "ASYNC_WRITE_FAILED", "NETWORK_ERROR"}

ASSUME ContentAssumption ==
    /\ Absent \notin {Dir, Empty, Partial} /\ Dir \notin {Empty, Partial} /\ Empty # Partial
    /\ {Absent, Dir, Empty, Partial} \cap Data = {}
ASSUME NullAssumption ==
    Null \notin Conn \cup Request \cup [code : Code, data : Content \cup {Null}]

Init ==
    /\ file_locks = << >>
    /\ file_locks_mutex = Null
    /\ files \in [File -> {Absent, Dir} \cup Data]
    /\ pc = [c \in Conn |-> "idle"]
    /\ req = [c \in Conn |-> Null]
    /\ node = [c \in Conn |-> 0]
    /\ reply = [c \in Conn |-> Null]
    /\ before = [c \in Conn |-> Null]

Goto(c, where) == pc' = [pc EXCEPT ![c] = where]

Answer(c, code, data) == reply' = [reply EXCEPT ![c] = [code |-> code, data |-> data]]

FileOfReq(c) == FileOf[req[c].path]

-----------------------------------------------------------------------------
(* Connections *)

Accept(c) ==
    /\ pc[c] = "idle"
    /\ \E r \in Request : req' = [req EXCEPT ![c] = r]
    /\ Goto(c, "received")
    /\ UNCHANGED <<locks, files, node, reply, before>>

UnknownOperation(c) ==
    /\ pc[c] = "received" /\ req[c].op = "UNKNOWN"
    /\ Answer(c, "INVALID_OPERATION", Null)
    /\ Goto(c, "reply")
    /\ UNCHANGED <<locks, files, req, node, before>>

Reply(c) ==
    /\ pc[c] = "reply"
    /\ Goto(c, "idle")
    /\ req' = [req EXCEPT ![c] = Null]
    /\ node' = [node EXCEPT ![c] = 0]
    /\ reply' = [reply EXCEPT ![c] = Null]
    /\ UNCHANGED <<locks, files, before>>

-----------------------------------------------------------------------------
(* The lock of a path: acquire_read_lock, acquire_write_lock and releases  *)

MutexFree == file_locks_mutex = Null

NodesOf(p) == {i \in DOMAIN file_locks : file_locks[i].path = p}

\* The search returns the newest node of the path.
IsNodeOf(i, p) == i \in NodesOf(p) /\ \A j \in NodesOf(p) : j <= i

\* Variant: the table is searched without its mutex.
EnterTable_unlocked(c) ==
    /\ pc[c] = "received" /\ req[c].op # "UNKNOWN"
    /\ Goto(c, "search")
    /\ UNCHANGED <<locks, files, req, node, reply, before>>

EnterTable(c) ==
    /\ pc[c] = "received" /\ req[c].op # "UNKNOWN"
    /\ MutexFree
    /\ file_locks_mutex' = c
    /\ Goto(c, "search")
    /\ UNCHANGED <<file_locks, files, req, node, reply, before>>

Search(c) ==
    /\ pc[c] = "search"
    /\ \/ \E i \in DOMAIN file_locks : /\ IsNodeOf(i, req[c].path)
                                       /\ node' = [node EXCEPT ![c] = i]
                                       /\ Goto(c, "wait")
                                       /\ file_locks_mutex' = Null
       \/ /\ NodesOf(req[c].path) = {}
          /\ Goto(c, "insert")
          /\ UNCHANGED <<node, file_locks_mutex>>
    /\ UNCHANGED <<file_locks, files, req, reply, before>>

NewNode(p) == [path |-> p, readers |-> {}, writer |-> Null]

\* Variant: the new node is not linked into the table.
Insert_unlinked(c) ==
    /\ pc[c] = "insert"
    /\ node' = [node EXCEPT ![c] = Len(file_locks) + 1]
    /\ file_locks_mutex' = Null
    /\ Goto(c, "wait")
    /\ UNCHANGED <<file_locks, files, req, reply, before>>

Insert(c) ==
    /\ pc[c] = "insert"
    /\ file_locks' = Append(file_locks, NewNode(req[c].path))
    /\ node' = [node EXCEPT ![c] = Len(file_locks) + 1]
    /\ file_locks_mutex' = Null
    /\ Goto(c, "wait")
    /\ UNCHANGED <<files, req, reply, before>>

\* No memory for a lock node.
InsertFails(c) ==
    /\ pc[c] = "insert"
    /\ file_locks_mutex' = Null
    /\ Answer(c, "FILE_IN_USE", Null)
    /\ Goto(c, "reply")
    /\ UNCHANGED <<file_locks, files, req, node, before>>

\* pthread_rwlock_rdlock or pthread_rwlock_wrlock answers an error.
LockFails(c) ==
    /\ pc[c] = "wait"
    /\ Answer(c, "FILE_IN_USE", Null)
    /\ Goto(c, "reply")
    /\ UNCHANGED <<locks, files, req, node, before>>

ReadLock(c) ==
    /\ pc[c] = "wait" /\ req[c].op \in Shared
    /\ file_locks[node[c]].writer = Null
    /\ file_locks' = [file_locks EXCEPT ![node[c]].readers = @ \cup {c}]
    /\ Goto(c, "locked")
    /\ UNCHANGED <<file_locks_mutex, files, req, node, reply, before>>

\* Variant: a writer enters although readers are inside.
WriteLock_over_readers(c) ==
    /\ pc[c] = "wait" /\ req[c].op \in Exclusive
    /\ file_locks[node[c]].writer = Null
    /\ file_locks' = [file_locks EXCEPT ![node[c]].writer = c]
    /\ Goto(c, "locked")
    /\ UNCHANGED <<file_locks_mutex, files, req, node, reply, before>>

WriteLock(c) ==
    /\ pc[c] = "wait" /\ req[c].op \in Exclusive
    /\ file_locks[node[c]].writer = Null
    /\ file_locks[node[c]].readers = {}
    /\ file_locks' = [file_locks EXCEPT ![node[c]].writer = c]
    /\ Goto(c, "locked")
    /\ UNCHANGED <<file_locks_mutex, files, req, node, reply, before>>

\* Variant: a release lets every reader out.
Unlocked_for_all(n, c) == [n EXCEPT !.readers = {}, !.writer = IF @ = c THEN Null ELSE @]

Unlocked(n, c) == [n EXCEPT !.readers = @ \ {c}, !.writer = IF @ = c THEN Null ELSE @]

\* What a thread does once it has released its lock: answer, or, after reading
\* the source of a copy, go on to the destination.
AfterUnlock(c) == IF req[c].op = "COPY_FILE" /\ reply[c].code = "SUCCESS"
                  THEN "copy_rpc" ELSE "reply"

\* A release searches the table for the path again.
Unlock(c) ==
    /\ pc[c] = "unlock"
    /\ MutexFree
    /\ \E i \in DOMAIN file_locks :
          /\ IsNodeOf(i, req[c].path)
          /\ file_locks' = [file_locks EXCEPT ![i] = Unlocked(@, c)]
    /\ Goto(c, AfterUnlock(c))
    /\ UNCHANGED <<file_locks_mutex, files, req, node, reply, before>>

-----------------------------------------------------------------------------
(* The operations on the file system, each under the lock of its path.     *)

\* Variant: a failed call returns without releasing the lock.
Fails_holding(c, code) ==
    /\ Answer(c, code, Null)
    /\ Goto(c, "reply")
    /\ UNCHANGED <<locks, files, req, node, before>>

\* The call fails: no such file, no permission, a path of another kind.
Fails(c, code) ==
    /\ Answer(c, code, Null)
    /\ Goto(c, "unlock")
    /\ UNCHANGED <<locks, files, req, node, before>>

Succeeds(c, data) == Answer(c, "SUCCESS", data) /\ Goto(c, "unlock")

Holding(c, op) == pc[c] = "locked" /\ req[c].op = op

\* A directory can be opened for reading and has no bytes to read.
Text(content) == IF content = Dir THEN Empty ELSE content

\* Variant: a copy calls the destination without having released the lock of its source.
ss_read_without_release(c) ==
    /\ Holding(c, "READ_FILE") \/ Holding(c, "COPY_FILE")
    /\ \/ /\ files[FileOfReq(c)] # Absent
          /\ Answer(c, "SUCCESS", Text(files[FileOfReq(c)]))
          /\ Goto(c, IF req[c].op = "COPY_FILE" THEN "copy_rpc" ELSE "unlock")
          /\ UNCHANGED <<locks, files, req, node, before>>
       \/ Fails(c, "FILE_NOT_FOUND")

ss_read(c) ==
    /\ Holding(c, "READ_FILE") \/ Holding(c, "COPY_FILE")
    /\ \/ /\ files[FileOfReq(c)] # Absent
          /\ Succeeds(c, Text(files[FileOfReq(c)]))
          /\ UNCHANGED <<locks, files, req, node, before>>
       \/ Fails(c, "FILE_NOT_FOUND")

ss_get_info(c) ==
    /\ Holding(c, "GET_FILE_INFO")
    /\ \/ /\ files[FileOfReq(c)] # Absent
          /\ Succeeds(c, files[FileOfReq(c)])
          /\ UNCHANGED <<locks, files, req, node, before>>
       \/ files[FileOfReq(c)] = Absent /\ Fails(c, "FILE_NOT_FOUND")

\* fopen with mode "w" creates the file or cuts it to no bytes.
OpenForWriting(c) ==
    /\ files[FileOfReq(c)] # Dir
    /\ files' = [files EXCEPT ![FileOfReq(c)] = Empty]

WriteOpen(c) ==
    /\ Holding(c, "WRITE_FILE")
    /\ \/ /\ OpenForWriting(c)
          /\ before' = [before EXCEPT ![c] = files[FileOfReq(c)]]
          /\ Goto(c, "write")
          /\ UNCHANGED <<locks, req, node, reply>>
       \/ Fails(c, "PERMISSION_DENIED")

\* What was opened takes the content; when its name is gone by now, nothing shows it.
Store(c, content) ==
    files' = IF files[FileOfReq(c)] = Absent THEN files
             ELSE [files EXCEPT ![FileOfReq(c)] = content]

\* fwrite and fclose.  A short count is reported; what fclose could not flush is not.
WriteData(c) ==
    /\ pc[c] = "write"
    /\ \/ Store(c, req[c].data) /\ Succeeds(c, Null)
       \/ /\ DiskMayFill
          /\ Store(c, Partial)
          /\ \/ Succeeds(c, Null)
             \/ Answer(c, "ASYNC_WRITE_FAILED", Null) /\ Goto(c, "unlock")
    /\ before' = [before EXCEPT ![c] = Null]
    /\ UNCHANGED <<locks, req, node>>

ss_create(c) ==
    /\ Holding(c, "CREATE_FILE")
    /\ \/ /\ \/ req[c].data = Empty /\ OpenForWriting(c)
             \/ /\ req[c].data = Dir /\ files[FileOfReq(c)] = Absent
                /\ files' = [files EXCEPT ![FileOfReq(c)] = Dir]
          /\ Succeeds(c, Null)
          /\ UNCHANGED <<locks, req, node, before>>
       \/ req[c].data # Absent /\ Fails(c, "PERMISSION_DENIED")
       \/ req[c].data = Absent /\ Fails(c, "INVALID_OPERATION")

\* stat, and for a directory the check that it is empty.  A device or a pipe has content
\* here as a file has; only its deletion is told apart, and refused.
DeleteStat(c) ==
    /\ Holding(c, "DELETE_FILE")
    /\ \/ /\ files[FileOfReq(c)] # Absent
          /\ Goto(c, "unlink")
          /\ UNCHANGED <<locks, files, req, node, reply, before>>
       \/ files[FileOfReq(c)] = Absent /\ Fails(c, "FILE_NOT_FOUND")
       \/ files[FileOfReq(c)] = Dir /\ Fails(c, "PERMISSION_DENIED")
       \/ files[FileOfReq(c)] \notin {Absent, Dir} /\ Fails(c, "INVALID_OPERATION")

\* remove or rmdir.
DeleteUnlink(c) ==
    /\ pc[c] = "unlink"
    /\ \/ /\ files[FileOfReq(c)] # Absent
          /\ files' = [files EXCEPT ![FileOfReq(c)] = Absent]
          /\ Succeeds(c, Null)
          /\ UNCHANGED <<locks, req, node, before>>
       \/ Fails(c, "PERMISSION_DENIED")

\* The write request to the destination server, and its answer, which may never come: it
\* waits for the locks of that server, which may be this one.  No lock is held here.
\* NETWORK_ERROR stands for every failure: no connection, the codes the destination answers.
CopyRpc(c) ==
    /\ pc[c] = "copy_rpc"
    /\ Goto(c, "reply")
    /\ \/ UNCHANGED reply
       \/ Answer(c, "NETWORK_ERROR", Null)
    /\ UNCHANGED <<locks, files, req, node, before>>

-----------------------------------------------------------------------------
(* The process dies and is started again.  Of a write under way the file   *)
(* has what had reached the disk: nothing, a part, or everything.          *)

Writers(f) == {c \in Conn : pc[c] = "write" /\ FileOfReq(c) = f}

Left(f) == {files[f]} \cup (IF Writers(f) = {} THEN {} ELSE {Partial})
                      \cup {req[c].data : c \in Writers(f)}

Crash ==
    /\ files' \in [File -> Content]
    /\ \A f \in File : files'[f] \in Left(f)
    /\ file_locks' = << >>
    /\ file_locks_mutex' = Null
    /\ pc' = [c \in Conn |-> "idle"]
    /\ req' = [c \in Conn |-> Null]
    /\ node' = [c \in Conn |-> 0]
    /\ reply' = [c \in Conn |-> Null]
    /\ before' = [c \in Conn |-> Null]

-----------------------------------------------------------------------------
Operate(c) == \/ ss_read(c) \/ ss_get_info(c) \/ WriteOpen(c) \/ WriteData(c)
              \/ ss_create(c) \/ DeleteStat(c) \/ DeleteUnlink(c)

\* What the thread of c does on its own.
Run(c) == \/ UnknownOperation(c) \/ Reply(c)
          \/ Search(c) \/ Insert(c) \/ InsertFails(c)
          \/ Operate(c)

\* What it does once it has the table's mutex, or the lock of its path.
Wait(c) == EnterTable(c) \/ Unlock(c) \/ ReadLock(c) \/ WriteLock(c)

Next == \/ \E c \in Conn : Accept(c) \/ Run(c) \/ Wait(c) \/ LockFails(c) \/ CopyRpc(c)
        \/ Crash

Spec == Init /\ [][Next]_vars

(***************************************************************************)
(* Threads are scheduled, and a thread that keeps asking for a lock that   *)
(* keeps becoming free gets it.  Nothing is assumed of new connections, nor *)
(* of the destination of a copy: no call has a timeout, and it may never   *)
(* answer.                                                                 *)
(***************************************************************************)
Fairness == \A c \in Conn : WF_vars(Run(c)) /\ SF_vars(Wait(c))

FairSpec == Spec /\ Fairness

-----------------------------------------------------------------------------
Location == {"idle", "received", "search", "insert", "wait", "locked", "write", "unlink",
             "unlock", "copy_rpc", "reply"}

LockNode == [path : Path, readers : SUBSET Conn, writer : Conn \cup {Null}]

\* Type invariant.
TypeOK ==
    /\ file_locks \in Seq(LockNode)
    /\ file_locks_mutex \in Conn \cup {Null}
    /\ files \in [File -> Content]
    /\ pc \in [Conn -> Location]
    /\ req \in [Conn -> Request \cup {Null}]
    /\ node \in [Conn -> 0 .. Len(file_locks)]
    /\ reply \in [Conn -> [code : Code, data : Content \cup {Null}] \cup {Null}]
    /\ before \in [Conn -> Content \cup {Null}]

\* Two threads asking for a path the table does not hold yet end up at one lock:
\* search and insertion are not interrupted (ss_file_operations.c:57-59, :90-92).
OneNodePerPath == \A i, j \in DOMAIN file_locks :
    file_locks[i].path = file_locks[j].path => i = j

\* The threads between fopen and fclose, stat and remove.
Using(c) == pc[c] \in {"locked", "write", "unlink"}

\* A file is changed by one thread at a time, and read by none meanwhile
\* (README.md:286-287, ss_file_operations.c:89-103).
SingleWriter == \A c, d \in Conn :
    c # d /\ Using(c) /\ Using(d) /\ FileOfReq(c) = FileOfReq(d) =>
        req[c].op \in Shared /\ req[d].op \in Shared

\* A thread is inside the lock of its path from its acquisition to its release and
\* inside no other: what is released is what was acquired, although the release
\* searches the table anew (ss_file_operations.c:73-86, :106-119).
LocksMatchThreads == \A i \in DOMAIN file_locks : \A c \in Conn :
    LET inside == node[c] = i /\ (Using(c) \/ pc[c] = "unlock")
    IN  /\ c \in file_locks[i].readers <=> inside /\ req[c].op \in Shared
        /\ file_locks[i].writer = c <=> inside /\ req[c].op \in Exclusive

\* The call to the destination of a copy may never come back.
Calling(c) == pc[c] = "copy_rpc"

\* Requests that only read are answered, or wait for the answer to their own call, whatever
\* else arrives and whoever else waits for a call (storage_server.c:80-85, :167-170).
ReadersServed == \A c \in Conn :
    req[c] # Null /\ req[c].op \in Shared ~> req[c] = Null \/ Calling(c)

\* Every request is answered or waits for its own call, unless it changes a file and finds
\* other threads reading it again and again: writers do not keep each other out, no failure
\* leaves a lock held, and none is held during a call, which may be to this very server
\* (ss_file_operations.c:43-47, :97, storage_server.c:167-170, :203-211).
FindsReaders(c) == /\ pc[c] = "wait" /\ req[c].op \in Exclusive
                   /\ \E d \in file_locks[node[c]].readers : Using(d) \/ pc[d] = "unlock"

OnlyReadersStarve == \A c \in Conn :
    req[c] # Null ~> req[c] = Null \/ Calling(c) \/ FindsReaders(c)

\* The storage server implements FileStore: half-done writes are seen by nobody, only a
\* crash or a full disk leaves them, and only where a write was under way
\* (ss_file_operations.c:206-223, storage_server.c:79-108, :141-180).
Shown(f) == IF Writers(f) = {} THEN files[f] ELSE before[CHOOSE c \in Writers(f) : TRUE]

Committed == [f \in File |-> Shown(f)]

Promise == INSTANCE FileStore WITH store <- Committed, call <- req, result <- reply

IsFileStore == Promise!Spec

=============================================================================

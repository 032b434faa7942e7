----------------------------- MODULE FileStore ------------------------------
(***************************************************************************)
(* What a storage server promises for the files it holds: each request     *)
(* takes effect at one moment between its arrival and its answer, alone,   *)
(* or is refused and changes nothing.  No locks, no threads, no steps      *)
(* inside an operation.                                                    *)
(*                                                                         *)
(* What it does not promise: a write that fills the disk leaves a part,    *)
(* whatever its answer, and so does one that a crash interrupts.           *)
(***************************************************************************)
CONSTANTS Conn, Path, File, FileOf, Data, Absent, Dir, Empty, Partial, DiskMayFill, Null

VARIABLES store,    \* the content of each file
          call,     \* the request of each connection, Null if none
          result    \* what it is going to be answered, Null while undecided

vars == <<store, call, result>>

Content == Data \cup {Absent, Dir, Empty, Partial}

Init ==
    /\ store \in [File -> Content \ {Partial}]
    /\ call = [c \in Conn |-> Null]
    /\ result = [c \in Conn |-> Null]

Invoke(c) ==
    /\ call[c] = Null
    /\ \E r \in [op : {"READ_FILE", "WRITE_FILE", "GET_FILE_INFO", "CREATE_FILE",
                       "DELETE_FILE", "COPY_FILE", "UNKNOWN"}, path : Path, data : Content] :
          call' = [call EXCEPT ![c] = r]
    /\ UNCHANGED <<store, result>>

Answered(c, code, data) ==
    result' = [result EXCEPT ![c] = [code |-> code, data |-> data]]

\* An unfinished request may be refused: nothing is changed, nothing is told.
Refuse(c) ==
    /\ call[c] # Null /\ result[c] = Null
    /\ \E code \in {"FILE_NOT_FOUND", "FILE_IN_USE", "PERMISSION_DENIED",
                    "INVALID_OPERATION"} : Answered(c, code, Null)
    /\ UNCHANGED <<store, call>>

Text(content) == IF content = Dir THEN Empty ELSE content

Tell(c) ==
    LET content == store[FileOf[call[c].path]]
    IN  /\ content # Absent
        /\ \/ call[c].op \in {"READ_FILE", "COPY_FILE"} /\ Answered(c, "SUCCESS", Text(content))
           \/ call[c].op = "GET_FILE_INFO" /\ Answered(c, "SUCCESS", content)
        /\ UNCHANGED <<store, call>>

\* What a request makes of the content of its file, where it is possible.
Change(r, old, new) ==
    \/ r.op = "WRITE_FILE" /\ old # Dir /\ new = r.data
    \/ r.op = "CREATE_FILE" /\ r.data = Empty /\ old # Dir /\ new = Empty
    \/ r.op = "CREATE_FILE" /\ r.data = Dir /\ old = Absent /\ new = Dir
    \/ r.op = "DELETE_FILE" /\ old # Absent /\ new = Absent

Apply(c) ==
    \E new \in Content :
        /\ Change(call[c], store[FileOf[call[c].path]], new)
        /\ store' = [store EXCEPT ![FileOf[call[c].path]] = new]
        /\ Answered(c, "SUCCESS", Null)
        /\ UNCHANGED call

\* The disk is full: a part is stored, and success may be answered all the same.
Spoil(c) ==
    /\ DiskMayFill /\ call[c].op = "WRITE_FILE"
    /\ store[FileOf[call[c].path]] # Dir
    /\ store' = [store EXCEPT ![FileOf[call[c].path]] = Partial]
    /\ \E code \in {"SUCCESS", "ASYNC_WRITE_FAILED"} : Answered(c, code, Null)
    /\ UNCHANGED call

Do(c) == call[c] # Null /\ result[c] = Null /\ (Tell(c) \/ Apply(c) \/ Spoil(c))

\* The content read for a copy is sent on, which may fail.
Forward(c) ==
    /\ call[c] # Null /\ call[c].op = "COPY_FILE"
    /\ result[c] # Null /\ result[c].code = "SUCCESS"
    /\ result' = [result EXCEPT ![c] = [code |-> "NETWORK_ERROR", data |-> Null]]
    /\ UNCHANGED <<store, call>>

Return(c) ==
    /\ result[c] # Null
    /\ call' = [call EXCEPT ![c] = Null]
    /\ result' = [result EXCEPT ![c] = Null]
    /\ UNCHANGED store

\* The writes under way, and what each may leave of its file.
Unfinished(f) == {r \in {call[c] : c \in {d \in Conn : call[d] # Null /\ result[d] = Null}} :
                     r.op = "WRITE_FILE" /\ FileOf[r.path] = f}

Crash ==
    /\ store' \in [File -> Content]
    /\ \A f \in File : \/ store'[f] = store[f]
                       \/ \E r \in Unfinished(f) : store'[f] \in {Empty, Partial, r.data}
    /\ call' = [c \in Conn |-> Null]
    /\ result' = [c \in Conn |-> Null]

Next == \/ \E c \in Conn : Invoke(c) \/ Refuse(c) \/ Do(c) \/ Forward(c) \/ Return(c)
        \/ Crash

Spec == Init /\ [][Next]_vars
=============================================================================

---------------------------- MODULE StorageMain -----------------------------
(***************************************************************************)
(* The main program of a storage server (storage_server.c:244-415): it     *)
(* registers, opens its two ports one after the other, and then one loop   *)
(* accepts for both and starts a thread for each connection.  What the     *)
(* threads do with requests is in StorageServer.                           *)
(*                                                                         *)
(* External: the sockets.  A connection waits in the queue of its port     *)
(* until it is accepted; one that is given up before may leave the queue,  *)
(* and then accept waits for the next.  Its peer sends one message, whole. *)
(***************************************************************************)
EXTENDS Naturals, FiniteSets, SequencesExt

CONSTANTS
    Peer,       \* who connects: the naming server's handlers, clients, storage servers
    PortOf,     \* the port each of them uses
    Thread,     \* as many as the system grants
    Cell,       \* what malloc may return for the number of a socket
    BACKLOG,    \* connections that may wait at a port (5)
    Null

Port == {"nm", "client"}

ASSUME PortAssumption == PortOf \in [Peer -> Port]
ASSUME BacklogAssumption == BACKLOG \in Nat
ASSUME NullAssumption == Null \notin Peer \cup Cell

VARIABLES
    phase,      \* where main is; at a port, it is about to look at it or to accept
    queue,      \* the connections that wait at each port
    read_fds,   \* the ports select has found ready
    peer,       \* the state of each peer's connection
    sent,       \* what has come from it: nothing, its request, its end
    new_sock,   \* the cells in use and the connection each holds
    thread,     \* the handlers
    lost,       \* the connections that are open and have no thread
    upset       \* history: since select, a connection was withdrawn or select failed

vars == <<phase, queue, read_fds, peer, sent, new_sock, thread, lost, upset>>

Resting == [pc |-> "none", port |-> Null, cell |-> Null, sock |-> Null]

Init ==
    /\ phase = "register"
    /\ queue = [q \in Port |-> << >>]
    /\ read_fds = {}
    /\ peer = [p \in Peer |-> "idle"]
    /\ sent = [p \in Peer |-> "nothing"]
    /\ new_sock = [c \in Cell |-> Null]
    /\ thread = [t \in Thread |-> Resting]
    /\ lost = {}
    /\ upset = FALSE

connections == <<queue, peer, sent>>
handlers == <<new_sock, thread, lost>>

-----------------------------------------------------------------------------
(* The start.  Every call may fail, and then the program ends.             *)

MainGoes(from, to) ==
    /\ phase = from
    /\ phase' \in {to, "exit"}
    /\ UNCHANGED <<connections, handlers, read_fds, upset>>

Register == MainGoes("register", "registered")
ListenForNaming == MainGoes("registered", "nm_port_open")
ListenForClients == MainGoes("nm_port_open", "select")

Listening(q) == /\ phase \notin {"register", "registered", "exit"}
                /\ q = "client" => phase # "nm_port_open"

-----------------------------------------------------------------------------
(* Peers (external)                                                        *)

\* Whoever comes before the port is open is refused, and that leaves nothing.
Connect(p) ==
    /\ peer[p] = "idle" /\ Listening(PortOf[p])
    /\ Len(queue[PortOf[p]]) < BACKLOG
    /\ queue' = [queue EXCEPT ![PortOf[p]] = Append(@, p)]
    /\ peer' = [peer EXCEPT ![p] = "queued"]
    /\ UNCHANGED <<phase, read_fds, sent, handlers, upset>>

Send(p, what) ==
    /\ peer[p] # "idle" /\ sent[p] = "nothing"
    /\ sent' = [sent EXCEPT ![p] = what]
    /\ UNCHANGED <<phase, read_fds, queue, peer, handlers, upset>>

Withdraw(p) ==
    /\ peer[p] = "queued"
    /\ \E i \in DOMAIN queue[PortOf[p]] :
          /\ queue[PortOf[p]][i] = p
          /\ queue' = [queue EXCEPT ![PortOf[p]] = RemoveAt(@, i)]
    /\ peer' = [peer EXCEPT ![p] = "idle"]
    /\ sent' = [sent EXCEPT ![p] = "nothing"]
    /\ upset' = TRUE
    /\ UNCHANGED <<phase, read_fds, handlers>>

\* Whoever has no thread gets no answer, and goes some day.
GiveUp(p) ==
    /\ p \in lost
    /\ lost' = lost \ {p}
    /\ peer' = [peer EXCEPT ![p] = "idle"]
    /\ sent' = [sent EXCEPT ![p] = "nothing"]
    /\ UNCHANGED <<phase, queue, read_fds, new_sock, thread, upset>>

-----------------------------------------------------------------------------
(* The loop                                                                *)

\* Variant: the sets are not looked at after select.
Select_any ==
    /\ phase = "select"
    /\ \E q \in Port : queue[q] # << >>
    /\ read_fds' = Port
    /\ upset' = FALSE
    /\ phase' = "nm"
    /\ UNCHANGED <<connections, handlers>>

Select ==
    /\ phase = "select"
    /\ read_fds' = {q \in Port : queue[q] # << >>}
    /\ read_fds' # {}
    /\ upset' = FALSE
    /\ phase' = "nm"
    /\ UNCHANGED <<connections, handlers>>

\* The error is printed and the sets are used as they were passed.
SelectFails ==
    /\ phase = "select"
    /\ read_fds' = Port
    /\ upset' = TRUE
    /\ phase' = "nm"
    /\ UNCHANGED <<connections, handlers>>

After(q) == IF q = "nm" THEN "client" ELSE "select"

NotReady(q) ==
    /\ phase = q /\ q \notin read_fds
    /\ phase' = After(q)
    /\ UNCHANGED <<connections, handlers, read_fds, upset>>

\* malloc or accept fails: the loop starts again, without a look at the other port.
Skip(q) ==
    /\ phase = q /\ q \in read_fds
    /\ phase' = "select"
    /\ UNCHANGED <<connections, handlers, read_fds, upset>>

Accepted(q) ==
    /\ phase = q /\ q \in read_fds
    /\ queue[q] # << >>
    /\ queue' = [queue EXCEPT ![q] = Tail(@)]
    /\ peer' = [peer EXCEPT ![Head(queue[q])] = "open"]
    /\ UNCHANGED <<read_fds, sent, upset>>

Start(t, q, c) == thread' = [thread EXCEPT ![t] =
                                [pc |-> "start", port |-> q, cell |-> c, sock |-> Null]]

\* Variant: one variable of main for the number of the socket.
Accept_one_cell(q) ==
    /\ Accepted(q)
    /\ \E t \in Thread, c \in Cell :
          /\ thread[t].pc = "none" /\ c = CHOOSE x \in Cell : TRUE
          /\ new_sock' = [new_sock EXCEPT ![c] = Head(queue[q])]
          /\ Start(t, q, c)
    /\ phase' = After(q)
    /\ UNCHANGED lost

\* Variant: the client port is looked at when there is nothing at the other.
Accept_or_else(q) ==
    /\ Accepted(q)
    /\ \E t \in Thread, c \in Cell :
          /\ thread[t].pc = "none" /\ new_sock[c] = Null
          /\ new_sock' = [new_sock EXCEPT ![c] = Head(queue[q])]
          /\ Start(t, q, c)
    /\ phase' = "select"
    /\ UNCHANGED lost

Accept(q) ==
    /\ Accepted(q)
    /\ \E t \in Thread, c \in Cell :
          /\ thread[t].pc = "none" /\ new_sock[c] = Null
          /\ new_sock' = [new_sock EXCEPT ![c] = Head(queue[q])]
          /\ Start(t, q, c)
    /\ phase' = After(q)
    /\ UNCHANGED lost

\* pthread_create gives a positive number when it fails, and the test is for a negative
\* one: the connection stays open with nobody to serve it.  What pthread_detach does with
\* a number that was never set is undefined: nothing, or the end of the program.
NoThread(q) ==
    /\ Accepted(q)
    /\ \A t \in Thread : thread[t].pc # "none"
    /\ lost' = lost \cup {Head(queue[q])}
    /\ phase' \in {After(q), "exit"}
    /\ UNCHANGED <<new_sock, thread>>

-----------------------------------------------------------------------------
(* The first and the last steps of a handler                               *)

\* Variant: the cell is freed before the number is read from it.
TakeSocket_freed(t) ==
    /\ thread[t].pc = "start"
    /\ new_sock' = [new_sock EXCEPT ![thread[t].cell] = Null]
    /\ thread' = [thread EXCEPT ![t].pc = "receive", ![t].cell = Null,
                                ![t].sock = new_sock'[thread[t].cell]]
    /\ UNCHANGED <<phase, connections, read_fds, lost, upset>>

TakeSocket(t) ==
    /\ thread[t].pc = "start"
    /\ thread' = [thread EXCEPT ![t] = [pc |-> "receive", port |-> @.port, cell |-> Null,
                                        sock |-> new_sock[@.cell]]]
    /\ new_sock' = [new_sock EXCEPT ![thread[t].cell] = Null]
    /\ UNCHANGED <<phase, connections, read_fds, lost, upset>>

\* The request is received, served and answered, or the peer has gone; close.  An answer
\* to a connection that was reset raises SIGPIPE, which nothing handles.
Handle(t) ==
    /\ thread[t].pc = "receive"
    /\ sent[thread[t].sock] # "nothing"
    /\ peer' = [peer EXCEPT ![thread[t].sock] = "idle"]
    /\ sent' = [sent EXCEPT ![thread[t].sock] = "nothing"]
    /\ thread' = [thread EXCEPT ![t] = Resting]
    /\ \/ UNCHANGED phase
       \/ sent[thread[t].sock] = "request" /\ phase' = "exit"
    /\ UNCHANGED <<queue, read_fds, new_sock, lost, upset>>

-----------------------------------------------------------------------------
Begin == Register \/ ListenForNaming \/ ListenForClients
Loop == Select \/ \E q \in Port : NotReady(q) \/ Accept(q) \/ NoThread(q)
Run(t) == phase # "exit" /\ (TakeSocket(t) \/ Handle(t))
Peers(p) == Connect(p) \/ Send(p, "request") \/ Send(p, "end") \/ Withdraw(p)
            \/ GiveUp(p)

Next == \/ Begin \/ Loop \/ SelectFails
        \/ \E q \in Port : Skip(q)
        \/ \E t \in Thread : Run(t)
        \/ \E p \in Peer : phase # "exit" /\ Peers(p)

Spec == Init /\ [][Next]_vars

\* The main program and the threads are scheduled; memory and descriptors are not short
\* for ever; peers do as they like.
Fairness ==
    /\ WF_vars(Begin \/ Loop)
    /\ \A q \in Port : SF_vars(Accept(q) \/ NoThread(q))
    /\ \A t \in Thread : WF_vars(Run(t))

FairSpec == Spec /\ Fairness

-----------------------------------------------------------------------------
\* Type invariant.
TypeOK ==
    /\ phase \in {"register", "registered", "nm_port_open", "select", "nm", "client", "exit"}
    /\ queue \in [Port -> Seq(Peer)]
    /\ \A q \in Port : Len(queue[q]) <= BACKLOG
    /\ read_fds \subseteq Port
    /\ peer \in [Peer -> {"idle", "queued", "open"}]
    /\ sent \in [Peer -> {"nothing", "request", "end"}]
    /\ new_sock \in [Cell -> Peer \cup {Null}]
    /\ thread \in [Thread -> [pc : {"none", "start", "receive"}, port : Port \cup {Null},
                              cell : Cell \cup {Null}, sock : Peer \cup {Null}]]
    /\ \A t \in Thread : /\ thread[t].pc = "start" => thread[t].cell \in Cell
                         /\ thread[t].pc = "receive" => thread[t].sock \in Peer
    /\ lost \subseteq Peer
    /\ upset \in BOOLEAN

\* The connection a thread has, or will find in its cell.
Socket(t) == IF thread[t].pc = "start" THEN new_sock[thread[t].cell] ELSE thread[t].sock

Busy(t) == thread[t].pc # "none"

\* Every open connection has one thread, and that the handler of its port, except those
\* for which there was no thread: the number of a socket passes from main to the thread
\* through a cell that main does not use again (storage_server.c:368-373, :62-63).
OneThreadEach ==
    /\ \A t \in Thread : Busy(t) => Socket(t) # Null /\ PortOf[Socket(t)] = thread[t].port
    /\ \A t, u \in Thread : Busy(t) /\ Busy(u) /\ Socket(t) = Socket(u) => t = u
    /\ {p \in Peer : peer[p] = "open"} = lost \cup {Socket(t) : t \in {u \in Thread : Busy(u)}}

\* The loop waits in accept, not in select.
Stuck == \E q \in Port : phase = q /\ q \in read_fds /\ queue[q] = << >>

\* It does so only when a connection was withdrawn or select failed
\* (storage_server.c:360-373).
StuckForCause == Stuck => upset

\* Neither port keeps the loop from the other: who waits at one is accepted, unless the
\* loop is stuck at the other (storage_server.c:367-408).
EveryoneAccepted == \A p \in Peer :
    peer[p] = "queued" ~> peer[p] # "queued" \/ Stuck \/ phase = "exit"
=============================================================================

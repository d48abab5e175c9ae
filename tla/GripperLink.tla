---------------------------- MODULE GripperLink -----------------------------
(***************************************************************************)
(* motion/gripper_node.py with command_transport tcp: how the node, the    *)
(* server program it deploys into the robot's controller (DRL_SERVER_CODE) *)
(* and the connection between them come up and come back.                  *)
(*                                                                         *)
(* The server accepts one connection and ends with it.  The node's threads *)
(* share one socket attribute: the initialisation, the recovery threads of *)
(* the watchdog and of a parameter change (one at a time, by a lock the    *)
(* initialisation does not take), and one reader per connection made,      *)
(* which reads whatever socket is current.                                 *)
(*                                                                         *)
(* Commands are GripperCommands.tla.  Time: a read of a socket ends within *)
(* 3 s, a wait for the state stream (5 Hz, against 2.5 s and more) only    *)
(* when nothing can arrive, and a connect loop (4 s and more) not before   *)
(* the reads that were under way when it started.                          *)
(***************************************************************************)
EXTENDS Naturals, Sequences

CONSTANTS
  Conns,        \* socket objects; one is free again when nothing refers to it
  None,
  Attempts,     \* of a connect loop (10 or 15)
  MaxFaults     \* bounds the model: stops of the server program, changes of parameters

ASSUME LinkAssumption ==
  /\ Attempts \in Nat \ {0} /\ MaxFaults \in Nat
  /\ None \notin Conns

VARIABLES
  program,      \* the controller's DRL program: "none", "listening" or "serving"
  peer,         \* the connection it accepted
  backlog,      \* connections made and not accepted, the killer's included
  isopen,       \* per connection: not closed by the node
  sock,         \* _sock
  socketActive, \* _socket_active
  helloSeen,    \* _tcp_hello_seen, _tcp_state_seen or _tcp_pong_seen
  lastRx,       \* whether _last_pong_rx_t or _last_state_rx_t holds a time
  reader,       \* per connection: where the reader started for it is blocked, None when ended
  thread,       \* the initialisation and the recovery: what each is about to do
  faults

server == <<program, peer, backlog>>
sockets == <<isopen, sock, socketActive, helloSeen, lastRx, reader>>
linkVars == <<server, sockets, thread, faults>>

Killer == "killer"      \* a connection that is closed once it has sent STOP
Threads == {"init", "recover"}
Thread == [at : {"new", "off", "kill", "deploy", "connect", "greet"}, tries : 0..(Attempts - 1),
           closes : BOOLEAN]      \* it closes the socket it replaces (1170), or lets go of it

ServerOK == program \in {"none", "listening", "serving"} /\ peer \in Conns \cup {None}
QueueOK == backlog \in Seq(Conns \cup {Killer}) /\ Len(backlog) <= 2
SocketOK == isopen \in [Conns -> BOOLEAN] /\ sock \in Conns \cup {None}
FlagsOK == socketActive \in BOOLEAN /\ helloSeen \in BOOLEAN /\ lastRx \in BOOLEAN
ReadersOK == reader \in [Conns -> Conns \cup {None}]
RecoveryOK == thread \in [Threads -> Thread] /\ faults \in 0..MaxFaults

LinkTypeOK == ServerOK /\ QueueOK /\ SocketOK /\ FlagsOK /\ ReadersOK /\ RecoveryOK

LinkInit ==
  /\ program \in {"none", "listening"}    \* perhaps that of an earlier node
  /\ peer = None /\ backlog = <<>>
  /\ isopen = [c \in Conns |-> FALSE]
  /\ sock = None /\ socketActive = FALSE /\ helloSeen = FALSE /\ lastRx = FALSE
  /\ reader = [c \in Conns |-> None]
  /\ thread = [t \in Threads |-> [at |-> IF t = "init" THEN "new" ELSE "off", tries |-> 0,
                                closes |-> FALSE]]
  /\ faults = 0

----------------------------------------------------------------------------
(* The server program, and what is external about its end *)

\* The program is over: nobody answers on its connections any more.
Over == /\ program' = "none" /\ peer' = None /\ backlog' = <<>>

\* STOP, or a connection closed by now, ends the program at once.
Accept ==
  /\ program = "listening" /\ backlog # <<>>
  /\ IF Head(backlog) \in Conns /\ isopen[Head(backlog)]
     THEN /\ program' = "serving" /\ peer' = Head(backlog) /\ backlog' = Tail(backlog)
     ELSE Over
  /\ UNCHANGED <<sockets, thread, faults>>

PeerCloses ==
  /\ program = "serving" /\ ~isopen[peer]
  /\ Over
  /\ UNCHANGED <<sockets, thread, faults>>

\* accept() has waited 30 s, longer than a thread that deployed the program
\* takes to connect.
NobodyCame ==
  /\ program = "listening" /\ backlog = <<>>
  /\ \A t \in Threads : thread[t].at \in {"new", "off", "kill"}
  /\ Over
  /\ UNCHANGED <<sockets, thread, faults>>

\* External: the controller stops the program (an E-stop, the pendant).
ProgramStops ==
  /\ program # "none" /\ faults < MaxFaults
  /\ Over
  /\ faults' = faults + 1
  /\ UNCHANGED <<sockets, thread>>

----------------------------------------------------------------------------
(* _recv_loop *)

Served(c) == program = "serving" /\ peer = c /\ isopen[c]
Queued(c) == \E i \in DOMAIN backlog : backlog[i] = c
Dead(c)   == ~isopen[c] \/ (~Served(c) /\ ~Queued(c))

\* The server, which looks every few ms, has nothing to accept and no end to see.
Settled == /\ program = "listening" => backlog = <<>>
           /\ program = "serving" => isopen[peer]

\* A socket that is no longer current is closed when the last reader leaves it.
LetGo(r) ==
  isopen' = [c \in Conns |-> /\ isopen[c]
                             /\ c = sock \/ c # reader[r] \/ \E q \in Conns \ {r} : reader[q] = c]

\* The next recv of reader r, on the socket that is current by now; without
\* one it fails, and every end of a reader takes the node offline.
ReadOn(r) ==
  /\ IF socketActive /\ sock # None
     THEN reader' = [reader EXCEPT ![r] = sock] /\ UNCHANGED socketActive
     ELSE reader' = [reader EXCEPT ![r] = None] /\ socketActive' = FALSE
  /\ LetGo(r)

\* A state or a pong; one that changes nothing is left out.
ReadState(r) ==
  /\ reader[r] # None /\ Served(reader[r]) /\ (~helloSeen \/ ~lastRx)
  /\ helloSeen' = TRUE /\ lastRx' = TRUE
  /\ ReadOn(r)
  /\ UNCHANGED <<server, sock, thread, faults>>

\* Nothing comes within the socket's 3 s.
ReadTimesOut(r) ==
  /\ reader[r] # None /\ (reader[r] # sock \/ ~socketActive)
  /\ ReadOn(r)
  /\ UNCHANGED <<server, sock, helloSeen, lastRx, thread, faults>>

\* Mutant: a reader that ends does not say so.
ReadFailsQuietly(r) ==
  /\ reader[r] # None /\ Dead(reader[r])
  /\ reader' = [reader EXCEPT ![r] = None]
  /\ LetGo(r)
  /\ UNCHANGED <<server, sock, socketActive, helloSeen, lastRx, thread, faults>>

\* The other side has closed, or this one.
ReadFails(r) ==
  /\ reader[r] # None /\ Dead(reader[r])
  /\ reader' = [reader EXCEPT ![r] = None]
  /\ socketActive' = FALSE
  /\ LetGo(r)
  /\ UNCHANGED <<server, sock, helloSeen, lastRx, thread, faults>>

----------------------------------------------------------------------------
(* _init_drl_server, _reconnect_with_reinject, _reconnect_tcp_only and
   _reinject_tcp_server *)

\* Nothing refers to the socket object any more.
Free(c) ==
  /\ ~isopen[c] /\ sock # c /\ peer # c
  /\ ~Queued(c)
  /\ reader[c] = None /\ \A r \in Conns : reader[r] # c

At(t, place) == thread' = [thread EXCEPT ![t].at = place, ![t].tries = 0]

Recover(place, closes) ==
  thread' = [thread EXCEPT !["recover"] = [at |-> place, tries |-> 0, closes |-> closes]]

Closed(c) == IF c = None THEN isopen ELSE [isopen EXCEPT ![c] = FALSE]

\* The socket object is replaced, and not closed while a reader is on it.
Replaced == [c \in Conns |-> isopen[c] /\ (c # sock \/ \E r \in Conns : reader[r] = c)]

\* The init timer fires, the DRL service being ready.
StartInit ==
  /\ thread["init"].at = "new"
  /\ At("init", "kill")
  /\ UNCHANGED <<server, sockets, faults>>

\* Mutant: the watchdog waits for a socket to exist.
WatchOfflineOnlyWithSocket ==
  /\ thread["recover"].at = "off" /\ ~socketActive /\ sock # None
  /\ Recover("kill", TRUE)
  /\ UNCHANGED <<server, sockets, faults>>

\* The watchdog, which runs from the start: offline, and no recovery under way.
WatchOffline ==
  /\ thread["recover"].at = "off" /\ ~socketActive
  /\ Recover("kill", TRUE)
  /\ UNCHANGED <<server, sockets, faults>>

\* A ping cannot be sent.
WatchPingFails ==
  /\ thread["recover"].at = "off" /\ socketActive
  /\ sock # None => Dead(sock)
  /\ socketActive' = FALSE
  /\ UNCHANGED <<server, isopen, sock, helloSeen, lastRx, reader, thread, faults>>

Heard == \E r \in Conns : reader[r] # None /\ Served(reader[r])

Disconnect == /\ isopen' = Closed(sock) /\ sock' = None /\ socketActive' = FALSE
              /\ UNCHANGED <<helloSeen, reader>>

\* Something was received, and nothing for tcp_watchdog_stale_sec since: reconnect,
\* with no new server.
WatchStale ==
  /\ thread["recover"].at = "off" /\ socketActive /\ lastRx /\ ~Heard
  /\ Recover("connect", FALSE)
  /\ Disconnect /\ lastRx' = FALSE
  /\ UNCHANGED <<server, faults>>

\* _on_param_set of a value that is part of the server's program.
ChangeParameter ==
  /\ thread["recover"].at = "off" /\ faults < MaxFaults
  /\ faults' = faults + 1
  /\ Recover("kill", FALSE)
  /\ Disconnect /\ lastRx' = FALSE
  /\ UNCHANGED server

\* Mutant: the server's queue, listen(1), takes any number of connections.
KillAnyway(t) ==
  /\ thread[t].at = "kill"
  /\ At(t, "deploy")
  /\ backlog' = IF program = "none" THEN backlog ELSE Append(backlog, Killer)
  /\ UNCHANGED <<program, peer, sockets, faults>>

\* A server that serves somebody else does not look at the killer.
Kill(t) ==
  /\ thread[t].at = "kill"
  /\ At(t, "deploy")
  /\ backlog' = IF program = "none" \/ Len(backlog) = 2 THEN backlog ELSE Append(backlog, Killer)
  /\ UNCHANGED <<program, peer, sockets, faults>>

\* drl_start; the controller runs one program at a time.
Deploy(t) ==
  /\ thread[t].at = "deploy"
  /\ At(t, "connect")
  /\ program' = IF program = "none" THEN "listening" ELSE program
  /\ UNCHANGED <<peer, backlog, sockets, faults>>

\* The loop gives up after the last attempt, and the lock is released: some
\* seconds after the first, when what was dead then has been noticed.
Again(t) ==
  /\ thread[t].tries + 1 = Attempts =>
       \A r \in Conns : reader[r] # None => ~Dead(reader[r])
  /\ thread' = IF thread[t].tries + 1 = Attempts
               THEN [thread EXCEPT ![t].at = "off", ![t].tries = 0]
               ELSE [thread EXCEPT ![t].at = "connect", ![t].tries = @ + 1]

Connect(t) ==
  /\ thread[t].at = "connect"
  /\ IF program = "none" \/ Len(backlog) = 2
     THEN Settled /\ Again(t) /\ UNCHANGED <<backlog, sockets>>
     ELSE \E c \in Conns :
            /\ Free(c)
            /\ backlog' = Append(backlog, c)
            /\ isopen' = [IF thread[t].closes THEN Closed(sock) ELSE Replaced EXCEPT ![c] = TRUE]
            /\ sock' = c /\ socketActive' = TRUE /\ helloSeen' = FALSE
            /\ reader' = [reader EXCEPT ![c] = c]
            /\ thread' = [thread EXCEPT ![t].at = "greet"]
            /\ UNCHANGED lastRx
  /\ UNCHANGED <<program, peer, faults>>

\* A recovery counts the greeting as received; the initialisation does not.
Greeted(t) ==
  /\ thread[t].at = "greet" /\ helloSeen
  /\ At(t, "off")
  /\ lastRx' = (lastRx \/ t = "recover")
  /\ UNCHANGED <<server, isopen, sock, socketActive, helloSeen, reader, faults>>

\* The handshake times out: whatever socket is current is closed.
NotGreeted(t) ==
  /\ thread[t].at = "greet" /\ ~helloSeen /\ ~Heard
  /\ Settled
  /\ Disconnect
  /\ Again(t)
  /\ UNCHANGED <<server, lastRx, faults>>

----------------------------------------------------------------------------
Controller == Accept \/ PeerCloses
Reading(r) == ReadState(r) \/ ReadTimesOut(r) \/ ReadFails(r)
Connecting(t) == Kill(t) \/ Deploy(t) \/ Connect(t) \/ Greeted(t) \/ NotGreeted(t)
Watchdog == WatchOffline \/ WatchPingFails \/ WatchStale

LinkNext ==
  \/ Controller \/ NobodyCame \/ ProgramStops
  \/ StartInit \/ Watchdog \/ ChangeParameter
  \/ \E r \in Conns : Reading(r)
  \/ \E t \in Threads : Connecting(t)

\* Every thread runs; the watchdog comes round every second.
Fairness ==
  /\ WF_linkVars(Controller) /\ WF_linkVars(StartInit) /\ WF_linkVars(Watchdog)
  /\ \A r \in Conns : WF_linkVars(Reading(r))
  /\ \A t \in Threads : WF_linkVars(Connecting(t))

LinkSpec == LinkInit /\ [][LinkNext]_linkVars /\ Fairness

----------------------------------------------------------------------------
Online == socketActive /\ sock # None /\ Served(sock) /\ \E r \in Conns : reader[r] = sock

\* While the node believes it is connected some reader is there to learn that it
\* is not, although every reader's end, an old one's too, changes that belief
\* and a new connection takes it back (gripper_node.py:1112).
OnlineIsRead == socketActive => \E r \in Conns : reader[r] # None

\* The node has filled the queue of a server that serves the connection it
\* still holds: no recovery closes that before it has a new one (gripper_node.py:1169).
Jammed == /\ program = "serving" /\ isopen[peer] /\ ~socketActive
          /\ Len(backlog) = 2

\* However the server's stops, changed parameters and the threads' steps fall,
\* the node is online in the end and stays so: no two threads keep taking the
\* connection from each other (gripper_node.py:1125), unless it is jammed.
LinkComesBack == <>[](Online \/ Jammed)
=============================================================================

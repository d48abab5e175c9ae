----------------------------- MODULE GripperProofs -----------------------------
(***************************************************************************)
(* gripper_node, in two parts.                                             *)
(*                                                                         *)
(* The connection (GripperLink): its safety for any number of socket       *)
(* objects, attempts and faults; the run checks it for four sockets and    *)
(* two faults.                                                             *)
(*                                                                         *)
(* The mailbox (GripperCommands), for any number of callers, streams,      *)
(* commands and lost connections.  A caller's entry can be lost only to    *)
(* another caller with the same number, and two callers have the same      *)
(* number only when both read it: that is what the order of the numbers    *)
(* read, taken, is kept for.                                               *)
(***************************************************************************)
EXTENDS GripperLink, GripperCommands, TLAPS

----------------------------------------------------------------------------
(* The connection                                                          *)

LinkInv == LinkTypeOK /\ OnlineIsRead

----------------------------------------------------------------------------
LEMMA ThreadNames == "init" \in Threads /\ "recover" \in Threads
BY DEF Threads

\* A server's queue: what is taken from it and put to it.
LEMMA Dequeue ==
  ASSUME QueueOK, backlog # <<>>
  PROVE  /\ Tail(backlog) \in Seq(Conns \cup {Killer}) /\ Len(Tail(backlog)) <= 2
         /\ Head(backlog) \in Conns \cup {Killer}
<1> DEFINE S == Conns \cup {Killer}
<1>1. backlog \in Seq(S) /\ Len(backlog) <= 2
  BY DEF QueueOK
<1> HIDE DEF S
<1>2. Tail(backlog) \in Seq(S) /\ Len(Tail(backlog)) = Len(backlog) - 1 /\ Head(backlog) \in S
  BY <1>1
<1>3. Len(Tail(backlog)) <= 2
  BY <1>1, <1>2
<1> QED BY <1>2, <1>3 DEF S

LEMMA Enqueue ==
  ASSUME QueueOK, Len(backlog) # 2, NEW c \in Conns \cup {Killer}
  PROVE  /\ Append(backlog, c) \in Seq(Conns \cup {Killer})
         /\ Len(Append(backlog, c)) <= 2
<1> DEFINE S == Conns \cup {Killer}
<1>1. backlog \in Seq(S) /\ Len(backlog) <= 2 /\ c \in S
  BY DEF QueueOK
<1> HIDE DEF S
<1>2. /\ Append(backlog, c) \in Seq(S) /\ Len(backlog) \in Nat
      /\ Len(Append(backlog, c)) = Len(backlog) + 1
  BY <1>1
<1>3. Len(Append(backlog, c)) <= 2
  BY <1>1, <1>2
<1> QED BY <1>2, <1>3 DEF S

Places == {"new", "off", "kill", "deploy", "connect", "greet"}

\* A thread moves on to another place of its work, or tries again.
LEMMA AtIsTyped ==
  ASSUME RecoveryOK, NEW t \in Threads, NEW place \in Places, At(t, place)
  PROVE  thread' \in [Threads -> Thread]
<1>1. thread[t] \in Thread
  BY DEF RecoveryOK
<1>2. 0 \in 0..(Attempts - 1)
  BY LinkAssumption
<1>3. [thread[t] EXCEPT !.at = place, !.tries = 0] \in Thread
  BY <1>1, <1>2 DEF Thread, Places
<1>4. thread' = [thread EXCEPT ![t] = [thread[t] EXCEPT !.at = place, !.tries = 0]]
  BY <1>1 DEF At, RecoveryOK, Thread
<1> QED BY <1>3, <1>4 DEF RecoveryOK

LEMMA RecoverIsTyped ==
  ASSUME RecoveryOK, NEW place \in Places, NEW b \in BOOLEAN, Recover(place, b)
  PROVE  thread' \in [Threads -> Thread]
<1>1. [at |-> place, tries |-> 0, closes |-> b] \in Thread
  BY LinkAssumption DEF Thread, Places
<1> QED BY <1>1 DEF Recover, RecoveryOK

LEMMA AgainIsTyped ==
  ASSUME RecoveryOK, NEW t \in Threads, Again(t)
  PROVE  thread' \in [Threads -> Thread]
<1>1. thread[t] \in Thread
  BY DEF RecoveryOK
<1>2. thread[t].tries \in 0..(Attempts - 1) /\ 0 \in 0..(Attempts - 1)
  BY <1>1, LinkAssumption DEF Thread
<1>3. CASE thread[t].tries + 1 = Attempts
  <2>1. [thread[t] EXCEPT !.at = "off", !.tries = 0] \in Thread
    BY <1>1, <1>2 DEF Thread
  <2>2. thread' = [thread EXCEPT ![t] = [thread[t] EXCEPT !.at = "off", !.tries = 0]]
    BY <1>3 DEF Again, RecoveryOK
  <2> QED BY <2>1, <2>2 DEF RecoveryOK
<1>4. CASE thread[t].tries + 1 # Attempts
  <2>1. thread[t].tries + 1 \in 0..(Attempts - 1)
    BY <1>2, <1>4, LinkAssumption
  <2>2. [thread[t] EXCEPT !.at = "connect", !.tries = thread[t].tries + 1] \in Thread
    BY <1>1, <2>1 DEF Thread
  <2>3. thread' = [thread EXCEPT ![t] =
                     [thread[t] EXCEPT !.at = "connect", !.tries = thread[t].tries + 1]]
    BY <1>4 DEF Again, RecoveryOK
  <2> QED BY <2>2, <2>3 DEF RecoveryOK
<1> QED BY <1>3, <1>4

LEMMA InitLinkInv == LinkInit => LinkInv
<1> SUFFICES ASSUME LinkInit PROVE LinkInv
  OBVIOUS
<1>1. ServerOK
  BY DEF LinkInit, ServerOK
<1>2. QueueOK
  BY DEF LinkInit, QueueOK
<1>3. SocketOK
  BY DEF LinkInit, SocketOK
<1>4. FlagsOK
  BY DEF LinkInit, FlagsOK
<1>5. ReadersOK
  BY DEF LinkInit, ReadersOK
<1>6. RecoveryOK
  BY LinkAssumption DEF LinkInit, RecoveryOK, Thread, Threads
<1>7. OnlineIsRead
  BY DEF LinkInit, OnlineIsRead
<1> QED BY <1>1, <1>2, <1>3, <1>4, <1>5, <1>6, <1>7 DEF LinkInv, LinkTypeOK

USE DEF server, sockets

LEMMA AcceptKeeps ==
  ASSUME LinkInv, Accept PROVE LinkInv'
<1> USE DEF LinkInv, LinkTypeOK
<1>1. SocketOK' /\ FlagsOK' /\ ReadersOK' /\ RecoveryOK' /\ OnlineIsRead'
  BY DEF Accept, SocketOK, FlagsOK, ReadersOK, RecoveryOK, OnlineIsRead
<1>2. ServerOK'
  BY Dequeue DEF Accept, ServerOK, Over
<1>3. QueueOK'
  <2>1. CASE Over
    BY <2>1 DEF Over, QueueOK
  <2>2. CASE ~Over
    <3>1. backlog # <<>> /\ backlog' = Tail(backlog)
      BY <2>2 DEF Accept
    <3> QED BY <3>1, Dequeue DEF QueueOK
  <2> QED BY <2>1, <2>2
<1> QED BY <1>1, <1>2, <1>3

LEMMA PeerClosesKeeps ==
  ASSUME LinkInv, PeerCloses PROVE LinkInv'
<1> USE DEF LinkInv, LinkTypeOK
<1>1. SocketOK' /\ FlagsOK' /\ ReadersOK' /\ RecoveryOK' /\ OnlineIsRead'
  BY DEF PeerCloses, SocketOK, FlagsOK, ReadersOK, RecoveryOK, OnlineIsRead
<1>2. ServerOK'
  BY DEF PeerCloses, ServerOK, Over
<1>3. QueueOK'
  BY DEF PeerCloses, QueueOK, Over
<1> QED BY <1>1, <1>2, <1>3

LEMMA NobodyCameKeeps ==
  ASSUME LinkInv, NobodyCame PROVE LinkInv'
<1> USE DEF LinkInv, LinkTypeOK
<1>1. SocketOK' /\ FlagsOK' /\ ReadersOK' /\ RecoveryOK' /\ OnlineIsRead'
  BY DEF NobodyCame, SocketOK, FlagsOK, ReadersOK, RecoveryOK, OnlineIsRead
<1>2. ServerOK'
  BY DEF NobodyCame, ServerOK, Over
<1>3. QueueOK'
  BY DEF NobodyCame, QueueOK, Over
<1> QED BY <1>1, <1>2, <1>3

LEMMA ProgramStopsKeeps ==
  ASSUME LinkInv, ProgramStops PROVE LinkInv'
<1> USE DEF LinkInv, LinkTypeOK
<1>1. SocketOK' /\ FlagsOK' /\ ReadersOK' /\ OnlineIsRead'
  BY DEF ProgramStops, SocketOK, FlagsOK, ReadersOK, OnlineIsRead
<1>2. ServerOK'
  BY DEF ProgramStops, ServerOK, Over
<1>3. QueueOK'
  BY DEF ProgramStops, QueueOK, Over
<1>4. RecoveryOK'
  BY LinkAssumption DEF ProgramStops, RecoveryOK
<1> QED BY <1>1, <1>2, <1>3, <1>4

LEMMA StartInitKeeps ==
  ASSUME LinkInv, StartInit PROVE LinkInv'
<1> USE DEF LinkInv, LinkTypeOK
<1>1. ServerOK' /\ QueueOK' /\ SocketOK' /\ FlagsOK' /\ ReadersOK' /\ OnlineIsRead'
  BY DEF StartInit, ServerOK, QueueOK, SocketOK, FlagsOK, ReadersOK, OnlineIsRead
<1>2. RecoveryOK'
  BY AtIsTyped, ThreadNames DEF StartInit, RecoveryOK, Places
<1> QED BY <1>1, <1>2

LEMMA WatchOfflineKeeps ==
  ASSUME LinkInv, WatchOffline PROVE LinkInv'
<1> USE DEF LinkInv, LinkTypeOK
<1>1. ServerOK' /\ QueueOK' /\ SocketOK' /\ FlagsOK' /\ ReadersOK' /\ OnlineIsRead'
  BY DEF WatchOffline, ServerOK, QueueOK, SocketOK, FlagsOK, ReadersOK, OnlineIsRead
<1>2. RecoveryOK'
  BY RecoverIsTyped DEF WatchOffline, RecoveryOK, Places
<1> QED BY <1>1, <1>2

LEMMA WatchPingFailsKeeps ==
  ASSUME LinkInv, WatchPingFails PROVE LinkInv'
<1> USE DEF LinkInv, LinkTypeOK
<1>1. ServerOK' /\ QueueOK' /\ SocketOK' /\ ReadersOK' /\ RecoveryOK'
  BY DEF WatchPingFails, ServerOK, QueueOK, SocketOK, ReadersOK, RecoveryOK
<1>2. FlagsOK'
  BY DEF WatchPingFails, FlagsOK
<1>3. OnlineIsRead'
  BY DEF WatchPingFails, OnlineIsRead
<1> QED BY <1>1, <1>2, <1>3

LEMMA WatchStaleKeeps ==
  ASSUME LinkInv, WatchStale PROVE LinkInv'
<1> USE DEF LinkInv, LinkTypeOK
<1>1. ServerOK' /\ QueueOK'
  BY DEF WatchStale, ServerOK, QueueOK
<1>2. RecoveryOK'
  BY RecoverIsTyped DEF WatchStale, RecoveryOK, Places
<1>3. SocketOK'
  BY DEF WatchStale, SocketOK, Disconnect, Closed
<1>4. FlagsOK'
  BY DEF WatchStale, FlagsOK, Disconnect
<1>5. ReadersOK'
  BY DEF WatchStale, ReadersOK, Disconnect
<1>6. OnlineIsRead'
  BY DEF WatchStale, OnlineIsRead, Disconnect
<1> QED BY <1>1, <1>2, <1>3, <1>4, <1>5, <1>6

LEMMA ChangeParameterKeeps ==
  ASSUME LinkInv, ChangeParameter PROVE LinkInv'
<1> USE DEF LinkInv, LinkTypeOK
<1>1. ServerOK' /\ QueueOK'
  BY DEF ChangeParameter, ServerOK, QueueOK
<1>2. RecoveryOK'
  <2>1. thread' \in [Threads -> Thread]
    BY RecoverIsTyped DEF ChangeParameter, Places
  <2>2. faults' \in 0..MaxFaults
    BY LinkAssumption DEF ChangeParameter, RecoveryOK
  <2> QED BY <2>1, <2>2 DEF RecoveryOK
<1>3. SocketOK'
  BY DEF ChangeParameter, SocketOK, Disconnect, Closed
<1>4. FlagsOK'
  BY DEF ChangeParameter, FlagsOK, Disconnect
<1>5. ReadersOK'
  BY DEF ChangeParameter, ReadersOK, Disconnect
<1>6. OnlineIsRead'
  BY DEF ChangeParameter, OnlineIsRead, Disconnect
<1> QED BY <1>1, <1>2, <1>3, <1>4, <1>5, <1>6

LEMMA ReadStateKeeps ==
  ASSUME LinkInv, NEW r \in Conns, ReadState(r) PROVE LinkInv'
<1> USE DEF LinkInv, LinkTypeOK
<1>1. ServerOK' /\ QueueOK' /\ RecoveryOK'
  BY DEF ReadState, ServerOK, QueueOK, RecoveryOK
<1>2. SocketOK'
  BY DEF ReadState, SocketOK, ReadOn, LetGo
<1>3. FlagsOK'
  BY DEF ReadState, FlagsOK, ReadOn
<1>4. ReadersOK'
  BY DEF ReadState, ReadersOK, ReadOn, SocketOK
<1>5. OnlineIsRead'
  BY DEF ReadState, OnlineIsRead, ReadOn, SocketOK, ReadersOK
<1> QED BY <1>1, <1>2, <1>3, <1>4, <1>5

LEMMA ReadTimesOutKeeps ==
  ASSUME LinkInv, NEW r \in Conns, ReadTimesOut(r) PROVE LinkInv'
<1> USE DEF LinkInv, LinkTypeOK
<1>1. ServerOK' /\ QueueOK' /\ RecoveryOK'
  BY DEF ReadTimesOut, ServerOK, QueueOK, RecoveryOK
<1>2. SocketOK'
  BY DEF ReadTimesOut, SocketOK, ReadOn, LetGo
<1>3. FlagsOK'
  BY DEF ReadTimesOut, FlagsOK, ReadOn
<1>4. ReadersOK'
  BY DEF ReadTimesOut, ReadersOK, ReadOn, SocketOK
<1>5. OnlineIsRead'
  BY DEF ReadTimesOut, OnlineIsRead, ReadOn, SocketOK, ReadersOK
<1> QED BY <1>1, <1>2, <1>3, <1>4, <1>5

LEMMA ReadFailsKeeps ==
  ASSUME LinkInv, NEW r \in Conns, ReadFails(r) PROVE LinkInv'
<1> USE DEF LinkInv, LinkTypeOK
<1>1. ServerOK' /\ QueueOK' /\ RecoveryOK'
  BY DEF ReadFails, ServerOK, QueueOK, RecoveryOK
<1>2. SocketOK'
  BY DEF ReadFails, SocketOK, LetGo
<1>3. FlagsOK'
  BY DEF ReadFails, FlagsOK
<1>4. ReadersOK'
  BY DEF ReadFails, ReadersOK
<1>5. OnlineIsRead'
  BY DEF ReadFails, OnlineIsRead
<1> QED BY <1>1, <1>2, <1>3, <1>4, <1>5

LEMMA KillKeeps ==
  ASSUME LinkInv, NEW t \in Threads, Kill(t) PROVE LinkInv'
<1> USE DEF LinkInv, LinkTypeOK
<1>1. ServerOK' /\ SocketOK' /\ FlagsOK' /\ ReadersOK' /\ OnlineIsRead'
  BY DEF Kill, ServerOK, SocketOK, FlagsOK, ReadersOK, OnlineIsRead
<1>2. QueueOK'
  BY Enqueue DEF Kill, QueueOK
<1>3. RecoveryOK'
  BY AtIsTyped DEF Kill, RecoveryOK, Places
<1> QED BY <1>1, <1>2, <1>3

LEMMA DeployKeeps ==
  ASSUME LinkInv, NEW t \in Threads, Deploy(t) PROVE LinkInv'
<1> USE DEF LinkInv, LinkTypeOK
<1>1. QueueOK' /\ SocketOK' /\ FlagsOK' /\ ReadersOK' /\ OnlineIsRead'
  BY DEF Deploy, QueueOK, SocketOK, FlagsOK, ReadersOK, OnlineIsRead
<1>2. ServerOK'
  BY DEF Deploy, ServerOK
<1>3. RecoveryOK'
  BY AtIsTyped DEF Deploy, RecoveryOK, Places
<1> QED BY <1>1, <1>2, <1>3

LEMMA ConnectKeeps ==
  ASSUME LinkInv, NEW t \in Threads, Connect(t) PROVE LinkInv'
<1> USE DEF LinkInv, LinkTypeOK
<1>1. ServerOK'
  BY DEF Connect, ServerOK
<1>2. QueueOK'
  BY Enqueue DEF Connect, QueueOK
<1>3. SocketOK'
  BY DEF Connect, SocketOK, Closed, Replaced
<1>4. FlagsOK'
  BY DEF Connect, FlagsOK
<1>5. ReadersOK'
  BY DEF Connect, ReadersOK
<1>6. RecoveryOK'
  <2>1. UNCHANGED faults
    BY DEF Connect
  <2>2. CASE Again(t)
    BY <2>1, <2>2, AgainIsTyped DEF RecoveryOK
  <2>3. CASE thread' = [thread EXCEPT ![t].at = "greet"]
    BY <2>1, <2>3 DEF RecoveryOK, Thread
  <2> QED BY <2>2, <2>3 DEF Connect
<1>7. OnlineIsRead'
  <2>1. CASE UNCHANGED sockets
    BY <2>1 DEF OnlineIsRead
  <2>2. ASSUME NEW c \in Conns, reader' = [reader EXCEPT ![c] = c]
        PROVE  OnlineIsRead'
    BY <2>2, LinkAssumption DEF OnlineIsRead, ReadersOK
  <2> QED BY <2>1, <2>2 DEF Connect
<1> QED BY <1>1, <1>2, <1>3, <1>4, <1>5, <1>6, <1>7

LEMMA GreetedKeeps ==
  ASSUME LinkInv, NEW t \in Threads, Greeted(t) PROVE LinkInv'
<1> USE DEF LinkInv, LinkTypeOK
<1>1. ServerOK' /\ QueueOK' /\ SocketOK' /\ FlagsOK' /\ ReadersOK' /\ OnlineIsRead'
  BY DEF Greeted, ServerOK, QueueOK, SocketOK, FlagsOK, ReadersOK, OnlineIsRead
<1>2. RecoveryOK'
  BY AtIsTyped DEF Greeted, RecoveryOK, Places
<1> QED BY <1>1, <1>2

LEMMA NotGreetedKeeps ==
  ASSUME LinkInv, NEW t \in Threads, NotGreeted(t) PROVE LinkInv'
<1> USE DEF LinkInv, LinkTypeOK
<1>1. ServerOK' /\ QueueOK'
  BY DEF NotGreeted, ServerOK, QueueOK
<1>2. RecoveryOK'
  BY AgainIsTyped DEF NotGreeted, RecoveryOK
<1>3. SocketOK'
  BY DEF NotGreeted, SocketOK, Disconnect, Closed
<1>4. FlagsOK'
  BY DEF NotGreeted, FlagsOK, Disconnect
<1>5. ReadersOK'
  BY DEF NotGreeted, ReadersOK, Disconnect
<1>6. OnlineIsRead'
  BY DEF NotGreeted, OnlineIsRead, Disconnect
<1> QED BY <1>1, <1>2, <1>3, <1>4, <1>5, <1>6

LEMMA LinkStutterKeeps == ASSUME LinkInv, UNCHANGED linkVars PROVE LinkInv'
BY DEF linkVars, LinkInv, LinkTypeOK, ServerOK, QueueOK, SocketOK, FlagsOK, ReadersOK, RecoveryOK, OnlineIsRead

LEMMA LinkInvInductive == LinkInv /\ [LinkNext]_linkVars => LinkInv'
BY AcceptKeeps, PeerClosesKeeps, NobodyCameKeeps, ProgramStopsKeeps,
   StartInitKeeps, WatchOfflineKeeps, WatchPingFailsKeeps, WatchStaleKeeps,
   ChangeParameterKeeps, ReadStateKeeps, ReadTimesOutKeeps, ReadFailsKeeps,
   KillKeeps, DeployKeeps, ConnectKeeps, GreetedKeeps,
   NotGreetedKeeps, LinkStutterKeeps
   DEF LinkNext, Controller, Watchdog, Reading, Connecting

LEMMA LinkInvariance == LinkSpec => []LinkInv
BY InitLinkInv, LinkInvInductive, PTL DEF LinkSpec

\* The types of the link's state, among them that the server's queue never holds
\* more than the two connections listen(1) lets wait.
THEOREM LinkTypeCorrect == LinkSpec => []LinkTypeOK
<1>1. LinkInv => LinkTypeOK BY DEF LinkInv
<1> QED BY <1>1, LinkInvariance, PTL

\* The node never believes itself connected with no reader left to find out
\* that it is not, however the recoveries, the initialisation and the readers
\* of old connections interleave.
THEOREM OnlineIsAlwaysRead == LinkSpec => []OnlineIsRead
<1>1. LinkInv => OnlineIsRead BY DEF LinkInv
<1> QED BY <1>1, LinkInvariance, PTL

----------------------------------------------------------------------------
(* The mailbox                                                             *)

Busy == {"taken", "loaded", "send", "wait", "grace"}

\* The command a thread is busy with is the one it read its number for.
Numbered ==
  \A k \in Senders : call[k].at \in Busy =>
    call[k].tag \in DOMAIN taken /\ taken[call[k].tag] = call[k].id

\* No two threads are busy with one command.
Apart ==
  \A k, q \in Senders :
    k # q /\ call[k].at \in Busy /\ call[q].at \in Busy => call[k].tag # call[q].tag

EntriesWait ==
  \A entry \in waiters :
    call[entry[2]].at \in {"send", "wait", "grace"} /\ Key(call[entry[2]].id) = entry[1]

WaitersFound ==
  \A k \in Callers :
    call[k].at \in {"send", "wait"} => <<Key(call[k].id), k>> \in waiters \/ Shared(call[k].id)

IInv == TypeOK /\ Numbered /\ Apart /\ EntriesWait /\ WaitersFound

----------------------------------------------------------------------------
LEMMA CallersSend == Callers \subseteq Senders
BY DEF Senders

LEMMA InMailbox ==
  ASSUME MailOK, NEW entry \in waiters
  PROVE  entry[1] \in Nat /\ entry[2] \in Callers /\ entry[2] \in Senders
                          /\ entry = <<entry[1], entry[2]>>
BY DEF MailOK, Senders

LEMMA OnTheWireBounds ==
  ASSUME NEW id \in Nat PROVE OnTheWire(id) \in 0..IdSpace - 1
BY ConstantsAssumption DEF OnTheWire

\* A number read twice stays one.
LEMMA SharedStays ==
  ASSUME PastOK, NEW id, Shared(id), NEW n \in Nat,
         taken' = taken \/ taken' = Append(taken, n)
  PROVE  Shared(id)'
<1>1. PICK i \in DOMAIN taken, j \in DOMAIN taken :
        i # j /\ taken[i] = id /\ taken[j] = id
  BY DEF Shared
<1>2. i \in DOMAIN taken' /\ j \in DOMAIN taken' /\ taken'[i] = id /\ taken'[j] = id
  BY SMTT(30), <1>1 DEF PastOK
<1> QED BY <1>1, <1>2 DEF Shared

LEMMA TwoShare ==
  ASSUME Numbered, Apart, NEW k \in Senders, NEW q \in Senders, k # q,
         call[k].at \in Busy, call[q].at \in Busy, call[k].id = call[q].id
  PROVE  Shared(call[k].id)
BY DEF Numbered, Apart, Shared

\* An acknowledgement sets events and changes no command.
LEMMA ReadAckWakes ==
  ASSUME ReadAck, CallOK, NEW k \in Senders
  PROVE  /\ call'[k] \in Call /\ call'[k].at = call[k].at
         /\ call'[k].id = call[k].id /\ call'[k].tag = call[k].tag
         /\ call'[k].base = call[k].base
<1> DEFINE W == [call[k] EXCEPT !.woken = TRUE]
<1>1. call'[k] = call[k] \/ call'[k] = W
  BY DEF ReadAck
<1>2. call[k] \in Call
  BY DEF CallOK
<1>3. /\ W \in Call /\ W.at = call[k].at /\ W.id = call[k].id /\ W.tag = call[k].tag
      /\ W.base = call[k].base
  BY <1>2 DEF Call
<1> QED BY <1>1, <1>2, <1>3

LEMMA InitIInv == Init => IInv
<1> SUFFICES ASSUME Init PROVE IInv
  OBVIOUS
<1>1. LinkOK
  BY DEF Init, LinkOK
<1>2. BreaksOK
  BY ConstantsAssumption DEF Init, BreaksOK
<1>3. WireOK
  BY DEF Init, WireOK
<1>4. AcksOK
  BY DEF Init, AcksOK
<1>5. MailOK
  BY DEF Init, MailOK
<1>6. CallOK
  BY DEF Init, CallOK, Call, Idle
<1>7. PastOK
  BY ConstantsAssumption DEF Init, PastOK
<1>8. Numbered /\ Apart /\ EntriesWait /\ WaitersFound
  BY CallersSend DEF Init, Idle, Busy, Numbered, Apart, EntriesWait, WaitersFound
<1> QED BY <1>1, <1>2, <1>3, <1>4, <1>5, <1>6, <1>7, <1>8 DEF IInv, TypeOK

USE DEF link, channel, mailbox, history

LEMMA BreakKeeps ==
  ASSUME IInv, Break PROVE IInv'
<1> USE DEF IInv, TypeOK
<1>1. AcksOK' /\ MailOK' /\ CallOK' /\ PastOK'
  BY DEF Break, AcksOK, MailOK, CallOK, PastOK
<1>2. Numbered' /\ Apart' /\ EntriesWait' /\ WaitersFound'
  BY DEF Break, Numbered, Apart, EntriesWait, WaitersFound, Shared
<1>3. LinkOK'
  BY DEF Break, LinkOK
<1>4. BreaksOK'
  BY ConstantsAssumption DEF Break, BreaksOK
<1>5. WireOK'
  BY DEF Break, WireOK
<1> QED BY <1>1, <1>2, <1>3, <1>4, <1>5

LEMMA NoticeKeeps ==
  ASSUME IInv, Notice PROVE IInv'
<1> USE DEF IInv, TypeOK
<1>1. BreaksOK' /\ WireOK' /\ AcksOK' /\ MailOK' /\ CallOK' /\ PastOK'
  BY DEF Notice, BreaksOK, WireOK, AcksOK, MailOK, CallOK, PastOK
<1>2. Numbered' /\ Apart' /\ EntriesWait' /\ WaitersFound'
  BY DEF Notice, Numbered, Apart, EntriesWait, WaitersFound, Shared
<1>3. LinkOK'
  BY DEF Notice, LinkOK
<1> QED BY <1>1, <1>2, <1>3

LEMMA ReconnectKeeps ==
  ASSUME IInv, Reconnect PROVE IInv'
<1> USE DEF IInv, TypeOK
<1>1. BreaksOK' /\ WireOK' /\ MailOK' /\ CallOK' /\ PastOK'
  BY DEF Reconnect, BreaksOK, WireOK, MailOK, CallOK, PastOK
<1>2. Numbered' /\ Apart' /\ EntriesWait' /\ WaitersFound'
  BY DEF Reconnect, Numbered, Apart, EntriesWait, WaitersFound, Shared
<1>3. LinkOK'
  BY DEF Reconnect, LinkOK
<1>4. AcksOK'
  BY DEF Reconnect, AcksOK
<1> QED BY <1>1, <1>2, <1>3, <1>4

LEMMA FirstStateKeeps ==
  ASSUME IInv, FirstState PROVE IInv'
<1> USE DEF IInv, TypeOK
<1>1. BreaksOK' /\ WireOK' /\ AcksOK' /\ MailOK' /\ CallOK' /\ PastOK'
  BY DEF FirstState, BreaksOK, WireOK, AcksOK, MailOK, CallOK, PastOK
<1>2. Numbered' /\ Apart' /\ EntriesWait' /\ WaitersFound'
  BY DEF FirstState, Numbered, Apart, EntriesWait, WaitersFound, Shared
<1>3. LinkOK'
  BY DEF FirstState, LinkOK
<1> QED BY <1>1, <1>2, <1>3

LEMMA ExecuteKeeps ==
  ASSUME IInv, Execute PROVE IInv'
<1> USE DEF IInv, TypeOK
<1>1. LinkOK' /\ BreaksOK' /\ MailOK' /\ CallOK'
  BY DEF Execute, LinkOK, BreaksOK, MailOK, CallOK
<1>2. Numbered' /\ Apart' /\ EntriesWait' /\ WaitersFound'
  BY DEF Execute, Numbered, Apart, EntriesWait, WaitersFound, Shared
<1>3. WireOK'
  BY DEF Execute, WireOK
<1>4. AcksOK'
  <2>1. Head(wire) \in Command
    BY DEF Execute, WireOK
  <2>2. Head(wire).id \in Nat /\ Head(wire).tag \in Tags
    BY <2>1 DEF Command
  <2>3. OnTheWire(Head(wire).id) \in 0..IdSpace - 1
    BY <2>2, OnTheWireBounds
  <2> QED BY <2>2, <2>3 DEF Execute, AcksOK, Ack
<1>5. PastOK'
  <2>1. Head(wire) \in Command
    BY DEF Execute, WireOK
  <2> QED BY <2>1 DEF Execute, PastOK, Command
<1> QED BY <1>1, <1>2, <1>3, <1>4, <1>5

LEMMA ReadAckKeeps ==
  ASSUME IInv, ReadAck PROVE IInv'
<1> USE DEF IInv, TypeOK
<1>1. LinkOK' /\ BreaksOK' /\ WireOK' /\ MailOK' /\ PastOK'
  BY DEF ReadAck, LinkOK, BreaksOK, WireOK, MailOK, PastOK
<1>2. AcksOK'
  BY DEF ReadAck, AcksOK
<1>3. CallOK'
  <2>1. \A k \in Senders : [call[k] EXCEPT !.woken = TRUE] \in Call /\ call[k] \in Call
    BY DEF CallOK, Call
  <2> QED BY <2>1 DEF ReadAck, CallOK
<1>4. Numbered'
  <2>1. \A k \in Senders : call'[k].at = call[k].at /\ call'[k].id = call[k].id
                            /\ call'[k].tag = call[k].tag
    BY ReadAckWakes
  <2> QED BY <2>1 DEF ReadAck, Numbered
<1>5. Apart'
  <2>1. \A k \in Senders : call'[k].at = call[k].at /\ call'[k].id = call[k].id
                            /\ call'[k].tag = call[k].tag
    BY ReadAckWakes
  <2> QED BY <2>1 DEF ReadAck, Apart
<1>6. EntriesWait'
  <2>1. \A k \in Senders : call'[k].at = call[k].at /\ call'[k].id = call[k].id
                            /\ call'[k].tag = call[k].tag
    BY ReadAckWakes
  <2> QED BY <2>1, InMailbox DEF ReadAck, EntriesWait, Key
<1>7. WaitersFound'
  <2>1. \A k \in Senders : call'[k].at = call[k].at /\ call'[k].id = call[k].id
                            /\ call'[k].tag = call[k].tag
    BY ReadAckWakes
  <2> QED BY <2>1, CallersSend DEF ReadAck, WaitersFound, Key, Shared
<1> QED BY <1>1, <1>2, <1>3, <1>4, <1>5, <1>6, <1>7

LEMMA RequestKeeps ==
  ASSUME IInv, NEW k \in Senders, NEW grasp \in BOOLEAN, Request(k, grasp) PROVE IInv'
<1> USE DEF IInv, TypeOK
<1>1. LinkOK' /\ BreaksOK' /\ WireOK' /\ AcksOK' /\ MailOK' /\ PastOK'
  BY DEF Request, LinkOK, BreaksOK, WireOK, AcksOK, MailOK, PastOK
<1>2. CallOK'
  BY ZenonT(60) DEF Request, CallOK, Call
<1>3. Numbered'
  BY CallersSend DEF Request, Numbered, CallOK, Busy
<1>4. Apart'
  BY DEF Request, Apart, CallOK, Busy
<1>5. EntriesWait'
  BY InMailbox DEF Request, EntriesWait, CallOK, Key
<1>6. WaitersFound'
  BY CallersSend DEF Request, WaitersFound, CallOK, Key, Shared
<1> QED BY <1>1, <1>2, <1>3, <1>4, <1>5, <1>6

LEMMA TakeNumberKeeps ==
  ASSUME IInv, NEW k \in Senders, TakeNumber(k) PROVE IInv'
<1> USE DEF IInv, TypeOK
<1>1. LinkOK' /\ BreaksOK' /\ WireOK' /\ AcksOK' /\ MailOK'
  BY DEF TakeNumber, LinkOK, BreaksOK, WireOK, AcksOK, MailOK
<1>2. CallOK'
  <2>1. Len(taken) + 1 \in Tags /\ next \in Nat
    BY ConstantsAssumption DEF TakeNumber, Tags, PastOK, MailOK
  <2>2. call[k] \in Call
    BY DEF CallOK
  <2>3. [call[k] EXCEPT !.at = "taken", !.id = next, !.tag = Len(taken) + 1, !.woken = FALSE]
          \in Call
    BY <2>1, <2>2 DEF Call
  <2> QED BY <2>2, <2>3 DEF TakeNumber, CallOK
<1>3. Numbered'
  <2>1. taken' = Append(taken, next) /\ next \in Nat /\ taken \in Seq(Nat)
    BY DEF TakeNumber, PastOK, MailOK
  <2>2. call'[k].tag \in DOMAIN taken' /\ taken'[call'[k].tag] = call'[k].id
    BY <2>1 DEF TakeNumber, CallOK, Call
  <2>3. \A q \in Senders : q # k => call'[q] = call[q]
    BY DEF TakeNumber, CallOK
  <2>4. \A i \in DOMAIN taken : i \in DOMAIN taken' /\ taken'[i] = taken[i]
    BY <2>1
  <2> QED BY <2>2, <2>3, <2>4 DEF Numbered
<1>4. Apart'
  <2>1. call'[k].tag = Len(taken) + 1 /\ Len(taken) + 1 \notin DOMAIN taken
    BY DEF TakeNumber, CallOK, Call, PastOK
  <2>2. \A q \in Senders : q # k => call'[q] = call[q]
    BY DEF TakeNumber, CallOK
  <2>3. \A q \in Senders : q # k /\ call[q].at \in Busy => call[q].tag # Len(taken) + 1
    BY <2>1 DEF Numbered
  <2> QED BY <2>1, <2>2, <2>3 DEF Apart
<1>5. EntriesWait'
  BY InMailbox DEF TakeNumber, EntriesWait, CallOK, Key
<1>6. WaitersFound'
  <2>1. call'[k].at = "taken" /\ \A q \in Senders : q # k => call'[q] = call[q]
    BY DEF TakeNumber, CallOK, Call
  <2>2. \A id : Shared(id) => Shared(id)'
    BY SharedStays DEF TakeNumber, MailOK
  <2>3. ASSUME NEW q \in Callers, call'[q].at \in {"send", "wait"}
        PROVE  <<Key(call'[q].id), q>> \in waiters' \/ Shared(call[q].id)'
    <3>1. q # k /\ call'[q] = call[q] /\ waiters' = waiters
      BY <2>1, <2>3, CallersSend DEF TakeNumber
    <3>2. CASE <<Key(call[q].id), q>> \in waiters
      BY <3>1, <3>2
    <3>3. CASE Shared(call[q].id)
      <4>1. PICK id : id = call[q].id
        OBVIOUS
      <4>2. Shared(id)
        BY <3>3, <4>1
      <4>3. Shared(id)'
        BY <2>2, <4>2
      <4> QED BY <3>1, <4>1, <4>3 DEF Shared
    <3> QED BY <2>3, <3>1, <3>2, <3>3 DEF WaitersFound
  <2> QED BY <2>3 DEF WaitersFound
<1>7. PastOK'
  <2>1. written' \subseteq Tags
    BY DEF TakeNumber, PastOK
  <2>2. taken' \in Seq(Nat)
    BY DEF TakeNumber, PastOK, MailOK
  <2>3. Len(taken') <= MaxCommands
    BY ConstantsAssumption DEF TakeNumber, PastOK, MailOK
  <2> QED BY <2>1, <2>2, <2>3 DEF PastOK
<1> QED BY <1>1, <1>2, <1>3, <1>4, <1>5, <1>6, <1>7

LEMMA NotSeenKeeps ==
  ASSUME IInv, NEW k \in Senders, NotSeen(k) PROVE IInv'
<1> USE DEF IInv, TypeOK
<1>1. LinkOK' /\ BreaksOK' /\ WireOK' /\ AcksOK' /\ MailOK' /\ PastOK'
  BY DEF NotSeen, LinkOK, BreaksOK, WireOK, AcksOK, MailOK, PastOK
<1>2. CallOK'
  BY DEF NotSeen, CallOK, Call, Set
<1>3. Numbered'
  BY CallersSend DEF NotSeen, Numbered, CallOK, Busy, Set
<1>4. Apart'
  BY DEF NotSeen, Apart, CallOK, Busy, Set
<1>5. EntriesWait'
  BY InMailbox DEF NotSeen, EntriesWait, CallOK, Key, Set
<1>6. WaitersFound'
  BY CallersSend DEF NotSeen, WaitersFound, CallOK, Key, Shared, Set
<1> QED BY <1>1, <1>2, <1>3, <1>4, <1>5, <1>6

LEMMA LoadNumberKeeps ==
  ASSUME IInv, NEW k \in Senders, LoadNumber(k) PROVE IInv'
<1> USE DEF IInv, TypeOK
<1>1. LinkOK' /\ BreaksOK' /\ WireOK' /\ AcksOK' /\ MailOK' /\ PastOK'
  BY DEF LoadNumber, LinkOK, BreaksOK, WireOK, AcksOK, MailOK, PastOK
<1>2. CallOK'
  <2>1. call[k] \in Call /\ next \in Nat
    BY DEF CallOK, MailOK
  <2>2. [call[k] EXCEPT !.at = "loaded", !.base = next] \in Call
    BY <2>1 DEF Call
  <2> QED BY <2>2 DEF LoadNumber, CallOK
<1>3. /\ \A q \in Senders : q # k => call'[q] = call[q]
      /\ call[k].at = "taken" /\ call'[k].at = "loaded"
      /\ call'[k].id = call[k].id /\ call'[k].tag = call[k].tag
  BY DEF LoadNumber, CallOK, Call
<1>4. Numbered'
  BY <1>3 DEF LoadNumber, Numbered, Busy
<1>5. Apart'
  <2>1. \A q \in Senders : call'[q].at \in Busy =>
          call[q].at \in Busy /\ call'[q].tag = call[q].tag
    BY <1>3 DEF Busy
  <2> QED BY <2>1 DEF Apart
<1>6. EntriesWait'
  BY <1>3, InMailbox DEF LoadNumber, EntriesWait, Key
<1>7. WaitersFound'
  <2>1. \A q \in Callers : call'[q].at \in {"send", "wait"} => call'[q] = call[q]
    BY <1>3, CallersSend
  <2>2. waiters' = waiters /\ taken' = taken
    BY DEF LoadNumber
  <2> QED BY <2>1, <2>2, CallersSend DEF WaitersFound, Key, Shared
<1> QED BY <1>1, <1>2, <1>4, <1>5, <1>6, <1>7

LEMMA RegisterKeeps ==
  ASSUME IInv, NEW k \in Senders, Register(k) PROVE IInv'
<1> USE DEF IInv, TypeOK
<1>1. LinkOK' /\ BreaksOK' /\ WireOK' /\ PastOK'
  BY DEF Register, LinkOK, BreaksOK, WireOK, PastOK
<1>2. CallOK'
  <2>1. call[k] \in Call
    BY DEF CallOK
  <2>2. [call[k] EXCEPT !.at = "send", !.base = 0] \in Call
    BY <2>1 DEF Call
  <2> QED BY <2>2 DEF Register, CallOK
<1>3. Numbered'
  BY CallersSend DEF Register, Numbered, CallOK, Busy
<1>4. Apart'
  BY DEF Register, Apart, CallOK, Busy
<1>5. EntriesWait'
  <2>1. \A q \in Senders : q # k => call'[q] = call[q]
    BY DEF Register, CallOK
  <2>2. call'[k].at = "send" /\ call'[k].id = call[k].id
    BY DEF Register, CallOK, Call
  <2>3. \A entry \in waiters' :
          (entry \in waiters /\ entry[2] # k) \/ entry = <<Key(call[k].id), k>>
    BY InMailbox DEF Register, Forget, EntriesWait, Key
  <2> QED BY <2>1, <2>2, <2>3, InMailbox DEF EntriesWait, Key
<1>6. WaitersFound'
  <2>1. \A q \in Senders : q # k => call'[q] = call[q]
    BY DEF Register, CallOK
  <2>2. call'[k].at = "send" /\ call'[k].id = call[k].id /\ taken' = taken
    BY DEF Register, CallOK, Call
  <2>3. k \in Callers => <<Key(call[k].id), k>> \in waiters'
    BY DEF Register
  <2>4. \A q \in Callers : q # k /\ call[q].at \in {"send", "wait"} =>
          <<Key(call[q].id), q>> \in waiters' \/ Shared(call[q].id)
    BY TwoShare, CallersSend DEF Register, WaitersFound, Forget, Key, Busy
  <2> QED BY <2>1, <2>2, <2>3, <2>4, CallersSend DEF WaitersFound, Key, Shared
<1>7. MailOK'
  <2>1. call[k].base \in Nat /\ call[k].id \in Nat
    BY DEF CallOK, Call
  <2> QED BY <2>1 DEF Register, MailOK, Forget, Key
<1>8. AcksOK'
  BY DEF Register, AcksOK
<1> QED BY <1>1, <1>2, <1>3, <1>4, <1>5, <1>6, <1>7, <1>8

LEMMA SendKeeps ==
  ASSUME IInv, NEW k \in Senders, Send(k) PROVE IInv'
<1> USE DEF IInv, TypeOK
<1>1. LinkOK' /\ BreaksOK' /\ AcksOK' /\ MailOK' /\ PastOK'
  BY DEF Send, LinkOK, BreaksOK, AcksOK, MailOK, PastOK
<1>2. CallOK'
  BY DEF Send, CallOK, Call, Idle
<1>3. Numbered'
  BY CallersSend DEF Send, Numbered, CallOK, Busy, Idle
<1>4. Apart'
  BY DEF Send, Apart, CallOK, Busy, Idle
<1>5. EntriesWait'
  BY InMailbox DEF Send, EntriesWait, CallOK, Key, Idle
<1>6. WaitersFound'
  BY CallersSend DEF Send, WaitersFound, CallOK, Key, Shared, Idle
<1>7. WireOK'
  <2>1. call[k].id \in Nat /\ call[k].tag \in Tags
    BY ConstantsAssumption DEF Send, CallOK, Call, Numbered, Busy, PastOK, Tags
  <2>2. [id |-> call[k].id, tag |-> call[k].tag] \in Command
    BY <2>1 DEF Command
  <2> QED BY <2>2 DEF Send, WireOK
<1> QED BY <1>1, <1>2, <1>3, <1>4, <1>5, <1>6, <1>7

LEMMA SendFailsKeeps ==
  ASSUME IInv, NEW k \in Senders, SendFails(k) PROVE IInv'
<1> USE DEF IInv, TypeOK
<1>1. LinkOK' /\ BreaksOK' /\ WireOK' /\ AcksOK' /\ PastOK'
  BY DEF SendFails, LinkOK, BreaksOK, WireOK, AcksOK, PastOK
<1>2. CallOK'
  BY DEF SendFails, CallOK, Call, Set
<1>3. Numbered'
  BY CallersSend DEF SendFails, Numbered, CallOK, Busy, Set
<1>4. Apart'
  BY DEF SendFails, Apart, CallOK, Busy, Set
<1>5. EntriesWait'
  <2>1. \A q \in Senders : q # k => call'[q] = call[q]
    BY DEF SendFails, Set, CallOK
  <2>2. \A entry \in waiters' : entry \in waiters /\ entry[2] # k
    BY InMailbox, ConstantsAssumption DEF SendFails, Forget, EntriesWait, Key, MailOK, Senders
  <2> QED BY <2>1, <2>2, InMailbox DEF EntriesWait, Key
<1>6. WaitersFound'
  <2>1. \A q \in Senders : q # k => call'[q] = call[q]
    BY DEF SendFails, Set, CallOK
  <2>2. call'[k].at \notin {"send", "wait"}
    BY DEF SendFails, Set, CallOK, Call
  <2>3. call[k].at \in Busy /\ taken' = taken /\ waiters' \in {waiters, Forget(k)}
    BY DEF SendFails, Busy
  <2>4. \A q \in Callers : q # k /\ call[q].at \in {"send", "wait"} =>
          <<Key(call[q].id), q>> \in waiters' \/ Shared(call[q].id)
    BY <2>3, TwoShare, CallersSend DEF WaitersFound, Forget, Key, Busy
  <2> QED BY <2>1, <2>2, <2>3, <2>4, CallersSend DEF WaitersFound, Key, Shared
<1>7. MailOK'
  BY DEF SendFails, MailOK, Forget
<1> QED BY <1>1, <1>2, <1>3, <1>4, <1>5, <1>6, <1>7

LEMMA WokenKeeps ==
  ASSUME IInv, NEW k \in Senders, Woken(k) PROVE IInv'
<1> USE DEF IInv, TypeOK
<1>1. LinkOK' /\ BreaksOK' /\ WireOK' /\ PastOK'
  BY DEF Woken, Return, LinkOK, BreaksOK, WireOK, PastOK
<1>2. CallOK'
  <2>1. call[k] \in Call
    BY DEF CallOK
  <2>2. \A place \in {"failed", "ok"} : [call[k] EXCEPT !.at = place] \in Call
    BY <2>1 DEF Call
  <2>3. [call[k] EXCEPT !.at = "greet", !.more = FALSE] \in Call
    BY <2>1 DEF Call
  <2> QED BY <2>1, <2>2, <2>3 DEF Woken, Return, CallOK
<1>3. Numbered'
  BY CallersSend DEF Woken, Numbered, CallOK, Busy, Return
<1>4. Apart'
  BY DEF Woken, Apart, CallOK, Busy, Return
<1>5. EntriesWait'
  <2>1. \A q \in Senders : q # k => call'[q] = call[q]
    BY DEF Woken, Return, CallOK
  <2>2. \A entry \in waiters' : entry \in waiters /\ entry[2] # k
    BY InMailbox, ConstantsAssumption DEF Woken, Return, Forget, EntriesWait, Key, MailOK, Senders
  <2> QED BY <2>1, <2>2, InMailbox DEF EntriesWait, Key
<1>6. WaitersFound'
  <2>1. \A q \in Senders : q # k => call'[q] = call[q]
    BY DEF Woken, Return, CallOK
  <2>2. call'[k].at \notin {"send", "wait"}
    BY DEF Woken, Return, CallOK, Call
  <2>3. call[k].at \in Busy /\ taken' = taken /\ waiters' \in {waiters, Forget(k)}
    BY DEF Woken, Return, Busy
  <2>4. \A q \in Callers : q # k /\ call[q].at \in {"send", "wait"} =>
          <<Key(call[q].id), q>> \in waiters' \/ Shared(call[q].id)
    BY <2>3, TwoShare, CallersSend DEF WaitersFound, Forget, Key, Busy
  <2> QED BY <2>1, <2>2, <2>3, <2>4, CallersSend DEF WaitersFound, Key, Shared
<1>7. MailOK'
  BY DEF Woken, MailOK, Return, Forget
<1>8. AcksOK'
  BY DEF Woken, AcksOK, Return
<1> QED BY <1>1, <1>2, <1>3, <1>4, <1>5, <1>6, <1>7, <1>8

LEMMA FoundLateKeeps ==
  ASSUME IInv, NEW k \in Senders, FoundLate(k) PROVE IInv'
<1> USE DEF IInv, TypeOK
<1>1. LinkOK' /\ BreaksOK' /\ WireOK' /\ PastOK'
  BY DEF FoundLate, Return, LinkOK, BreaksOK, WireOK, PastOK
<1>2. CallOK'
  <2>1. call[k] \in Call
    BY DEF CallOK
  <2>2. \A place \in {"failed", "ok"} : [call[k] EXCEPT !.at = place] \in Call
    BY <2>1 DEF Call
  <2>3. [call[k] EXCEPT !.at = "greet", !.more = FALSE] \in Call
    BY <2>1 DEF Call
  <2> QED BY <2>1, <2>2, <2>3 DEF FoundLate, Return, CallOK
<1>3. Numbered'
  BY CallersSend DEF FoundLate, Numbered, CallOK, Busy, Return
<1>4. Apart'
  BY DEF FoundLate, Apart, CallOK, Busy, Return
<1>5. EntriesWait'
  <2>1. \A q \in Senders : q # k => call'[q] = call[q]
    BY DEF FoundLate, Return, CallOK
  <2>2. \A entry \in waiters' : entry \in waiters /\ entry[2] # k
    BY InMailbox, ConstantsAssumption DEF FoundLate, Return, Forget, EntriesWait, Key, MailOK, Senders
  <2> QED BY <2>1, <2>2, InMailbox DEF EntriesWait, Key
<1>6. WaitersFound'
  <2>1. \A q \in Senders : q # k => call'[q] = call[q]
    BY DEF FoundLate, Return, CallOK
  <2>2. call'[k].at \notin {"send", "wait"}
    BY DEF FoundLate, Return, CallOK, Call
  <2>3. call[k].at \in Busy /\ taken' = taken /\ waiters' \in {waiters, Forget(k)}
    BY DEF FoundLate, Return, Busy
  <2>4. \A q \in Callers : q # k /\ call[q].at \in {"send", "wait"} =>
          <<Key(call[q].id), q>> \in waiters' \/ Shared(call[q].id)
    BY <2>3, TwoShare, CallersSend DEF WaitersFound, Forget, Key, Busy
  <2> QED BY <2>1, <2>2, <2>3, <2>4, CallersSend DEF WaitersFound, Key, Shared
<1>7. MailOK'
  BY DEF FoundLate, MailOK, Return, Forget
<1>8. AcksOK'
  BY DEF FoundLate, AcksOK, Return
<1> QED BY <1>1, <1>2, <1>3, <1>4, <1>5, <1>6, <1>7, <1>8

LEMMA TimesOutKeeps ==
  ASSUME IInv, NEW k \in Senders, TimesOut(k) PROVE IInv'
<1> USE DEF IInv, TypeOK
<1>1. LinkOK' /\ BreaksOK' /\ WireOK' /\ AcksOK' /\ MailOK' /\ PastOK'
  BY DEF TimesOut, LinkOK, BreaksOK, WireOK, AcksOK, MailOK, PastOK
<1>2. CallOK'
  BY DEF TimesOut, CallOK, Call, Set
<1>3. Numbered'
  BY CallersSend DEF TimesOut, Numbered, CallOK, Busy, Set
<1>4. Apart'
  BY DEF TimesOut, Apart, CallOK, Busy, Set
<1>5. EntriesWait'
  BY InMailbox DEF TimesOut, EntriesWait, CallOK, Key, Set
<1>6. WaitersFound'
  BY CallersSend DEF TimesOut, WaitersFound, CallOK, Key, Shared, Set
<1> QED BY <1>1, <1>2, <1>3, <1>4, <1>5, <1>6

LEMMA GraceEndsKeeps ==
  ASSUME IInv, NEW k \in Senders, GraceEnds(k) PROVE IInv'
<1> USE DEF IInv, TypeOK
<1>1. LinkOK' /\ BreaksOK' /\ WireOK' /\ AcksOK' /\ PastOK'
  BY DEF GraceEnds, LinkOK, BreaksOK, WireOK, AcksOK, PastOK
<1>2. CallOK'
  BY DEF GraceEnds, CallOK, Call, Set
<1>3. Numbered'
  BY CallersSend DEF GraceEnds, Numbered, CallOK, Busy, Set
<1>4. Apart'
  BY DEF GraceEnds, Apart, CallOK, Busy, Set
<1>5. EntriesWait'
  <2>1. \A q \in Senders : q # k => call'[q] = call[q]
    BY DEF GraceEnds, Set, CallOK
  <2>2. \A entry \in waiters' : entry \in waiters /\ entry[2] # k
    BY InMailbox, ConstantsAssumption DEF GraceEnds, Forget, EntriesWait, Key, MailOK, Senders
  <2> QED BY <2>1, <2>2, InMailbox DEF EntriesWait, Key
<1>6. WaitersFound'
  <2>1. \A q \in Senders : q # k => call'[q] = call[q]
    BY DEF GraceEnds, Set, CallOK
  <2>2. call'[k].at \notin {"send", "wait"}
    BY DEF GraceEnds, Set, CallOK, Call
  <2>3. call[k].at \in Busy /\ taken' = taken /\ waiters' \in {waiters, Forget(k)}
    BY DEF GraceEnds, Busy
  <2>4. \A q \in Callers : q # k /\ call[q].at \in {"send", "wait"} =>
          <<Key(call[q].id), q>> \in waiters' \/ Shared(call[q].id)
    BY <2>3, TwoShare, CallersSend DEF WaitersFound, Forget, Key, Busy
  <2> QED BY <2>1, <2>2, <2>3, <2>4, CallersSend DEF WaitersFound, Key, Shared
<1>7. MailOK'
  BY DEF GraceEnds, MailOK, Forget
<1> QED BY <1>1, <1>2, <1>3, <1>4, <1>5, <1>6, <1>7

LEMMA AnswerKeeps ==
  ASSUME IInv, NEW k \in Senders, Answer(k) PROVE IInv'
<1> USE DEF IInv, TypeOK
<1>1. LinkOK' /\ BreaksOK' /\ WireOK' /\ AcksOK' /\ MailOK' /\ PastOK'
  BY DEF Answer, LinkOK, BreaksOK, WireOK, AcksOK, MailOK, PastOK
<1>2. CallOK'
  BY DEF Answer, CallOK, Call, Idle
<1>3. Numbered'
  BY CallersSend DEF Answer, Numbered, CallOK, Busy, Idle
<1>4. Apart'
  BY DEF Answer, Apart, CallOK, Busy, Idle
<1>5. EntriesWait'
  BY InMailbox DEF Answer, EntriesWait, CallOK, Key, Idle
<1>6. WaitersFound'
  BY CallersSend DEF Answer, WaitersFound, CallOK, Key, Shared, Idle
<1> QED BY <1>1, <1>2, <1>3, <1>4, <1>5, <1>6

LEMMA StutterKeeps == ASSUME IInv, UNCHANGED vars PROVE IInv'
BY DEF vars, IInv, TypeOK, LinkOK, BreaksOK, WireOK, AcksOK, MailOK, CallOK, PastOK, Numbered, Apart, EntriesWait, WaitersFound, Shared

LEMMA IInvInductive == IInv /\ [Next]_vars => IInv'
BY BreakKeeps, NoticeKeeps, ReconnectKeeps, FirstStateKeeps,
   ExecuteKeeps, ReadAckKeeps, RequestKeeps, TakeNumberKeeps,
   NotSeenKeeps, LoadNumberKeeps, RegisterKeeps, SendKeeps, SendFailsKeeps,
   WokenKeeps, FoundLateKeeps, TimesOutKeeps, GraceEndsKeeps,
   AnswerKeeps, StutterKeeps
   DEF Next, Sending

LEMMA Invariance == Spec => []IInv
BY InitIInv, IInvInductive, PTL DEF Spec

\* Every variable keeps its type; among others, what is on the wire carries a
\* number that fits it.
THEOREM TypeCorrect == Spec => []TypeOK
<1>1. IInv => TypeOK BY DEF IInv
<1> QED BY <1>1, Invariance, PTL

\* Every entry of the mailbox belongs to a caller that waits for it, and a caller
\* that waits has its entry unless another caller read the same number.
THEOREM MailboxIsExact == Spec => []WaitersAreWaiting
<1>1. IInv => WaitersAreWaiting
  BY DEF IInv, EntriesWait, WaitersFound, WaitersAreWaiting
<1> QED BY <1>1, Invariance, PTL

----------------------------------------------------------------------------
(* What a caller is told                                                 *)

\* A command travels under the number it was given.
WireTold ==
  \A i \in DOMAIN wire : wire[i].tag \in DOMAIN taken /\ taken[wire[i].tag] = wire[i].id

\* An acknowledgement carries the low part of its command's number, and tells the truth.
AcksTold ==
  \A ack \in acks \cup results :
    /\ ack.tag \in DOMAIN taken /\ ack.seq = OnTheWire(taken[ack.tag])
    /\ ack.ok => ack.tag \in written

\* However the three steps of numbering are interleaved, the counter never falls back so
\* far, nor is a thread so long busy, that a number given lies a whole round ahead.
NoRoundAhead ==
  \A i \in DOMAIN taken :
    /\ taken[i] < next + IdSpace
    /\ \A k \in Senders :
         /\ call[k].at \in Busy => taken[i] < call[k].id + IdSpace
         /\ call[k].at = "loaded" => taken[i] < call[k].base + IdSpace

Told == WireTold /\ AcksTold /\ NoRoundAhead /\ SuccessMeansWritten

\* A number less than a round ahead of one that fits the wire is known by its low part.
LEMMA LowPartTells ==
  ASSUME NEW m \in Nat, NEW n \in Nat, m < n + IdSpace, OnTheWire(m) = n
  PROVE  m = n
<1>1. m = IdSpace * (m \div IdSpace) + n /\ m \div IdSpace \in Nat /\ n < IdSpace
  BY ConstantsAssumption DEF OnTheWire
<1>2. CASE m \div IdSpace = 0
  BY <1>1, <1>2, ConstantsAssumption
<1>3. CASE m \div IdSpace >= 1
  <2> DEFINE q == m \div IdSpace
  <2>1. q \in Nat /\ q >= 1 /\ m = IdSpace * q + n
    BY <1>1, <1>3
  <2> HIDE DEF q
  <2>2. IdSpace * q >= IdSpace
    BY <2>1, ConstantsAssumption
  <2> QED BY <2>1, <2>2, ConstantsAssumption
<1> QED BY <1>1, <1>2, <1>3

LEMMA InitTold == Init => Told
BY CallersSend, ConstantsAssumption
   DEF Init, Idle, Told, WireTold, AcksTold, NoRoundAhead, SuccessMeansWritten

\* Steps that give no number, send or acknowledge nothing and let no caller succeed.
Quiet ==
  /\ wire' \in {wire, <<>>} /\ acks' \cup results' \subseteq acks \cup results
  /\ written' = written /\ taken' = taken /\ next' = next
  /\ \A k \in Senders :
       /\ call'[k].at \in Busy => call[k].at \in Busy /\ call'[k].id = call[k].id
       /\ call'[k].at = "loaded" => call[k].at = "loaded" /\ call'[k].base = call[k].base
       /\ call'[k].at = "ok" => /\ call[k].at = "ok" /\ call'[k].id = call[k].id
                               /\ call'[k].tag = call[k].tag

LEMMA QuietKeepsTold ==
  ASSUME Told, Quiet PROVE Told'
<1>1. WireTold'
  BY DEF Quiet, Told, WireTold
<1>2. AcksTold'
  BY DEF Quiet, Told, AcksTold, OnTheWire
<1>3. NoRoundAhead'
  BY DEF Quiet, Told, NoRoundAhead
<1>4. SuccessMeansWritten'
  BY CallersSend DEF Quiet, Told, SuccessMeansWritten, Shared
<1> QED BY <1>1, <1>2, <1>3, <1>4 DEF Told

LEMMA LinkIsQuiet ==
  ASSUME IInv, Break \/ Notice \/ Reconnect \/ FirstState PROVE Quiet
BY DEF Break, Notice, Reconnect, FirstState, Quiet

LEMMA ReadAckIsQuiet ==
  ASSUME IInv, ReadAck PROVE Quiet
<1>1. \A k \in Senders : /\ call'[k].at = call[k].at /\ call'[k].id = call[k].id
                         /\ call'[k].tag = call[k].tag /\ call'[k].base = call[k].base
  BY ReadAckWakes DEF IInv, TypeOK
<1> QED BY <1>1 DEF ReadAck, Quiet

LEMMA WaitingIsQuiet ==
  ASSUME IInv, NEW k \in Senders,
         \/ \E grasp \in BOOLEAN : Request(k, grasp)
         \/ NotSeen(k) \/ SendFails(k) \/ TimesOut(k) \/ GraceEnds(k) \/ Answer(k)
  PROVE  Quiet
<1>1. call \in [Senders -> Call]
  BY DEF IInv, TypeOK, CallOK
<1>2. CASE \E grasp \in BOOLEAN : Request(k, grasp)
  BY ZenonT(60), <1>1, <1>2 DEF Request, Quiet, Busy, Call
<1>3. CASE NotSeen(k)
  BY <1>1, <1>3 DEF NotSeen, Set, Quiet, Busy, Call
<1>4. CASE SendFails(k)
  BY <1>1, <1>4 DEF SendFails, Set, Quiet, Busy, Call
<1>5. CASE TimesOut(k)
  BY <1>1, <1>5 DEF TimesOut, Set, Quiet, Busy, Call
<1>6. CASE GraceEnds(k)
  BY <1>1, <1>6 DEF GraceEnds, Set, Quiet, Busy, Call
<1>7. CASE Answer(k)
  BY <1>1, <1>7 DEF Answer, Idle, Quiet, Busy, Call
<1> QED BY <1>2, <1>3, <1>4, <1>5, <1>6, <1>7

LEMMA ExecuteKeepsTold ==
  ASSUME IInv, Told, Execute PROVE Told'
<1> DEFINE cmd == Head(wire)
<1>1. cmd.tag \in DOMAIN taken /\ taken[cmd.tag] = cmd.id
  <2>1. wire \in Seq(Command) /\ wire # <<>>
    BY DEF IInv, TypeOK, WireOK, Execute
  <2>2. 1 \in DOMAIN wire /\ cmd = wire[1]
    BY <2>1
  <2> QED BY <2>2 DEF Told, WireTold
<1>2. WireTold'
  <2>1. wire \in Seq(Command) /\ wire # <<>> /\ wire' = Tail(wire) /\ taken' = taken
    BY DEF IInv, TypeOK, WireOK, Execute
  <2>2. \A i \in DOMAIN wire' : i + 1 \in DOMAIN wire /\ wire'[i] = wire[i + 1]
    BY <2>1
  <2> QED BY <2>1, <2>2 DEF Told, WireTold
<1>3. AcksTold'
  <2>1. PICK ok \in BOOLEAN :
          /\ acks' = acks \cup {[seq |-> OnTheWire(cmd.id), tag |-> cmd.tag, ok |-> ok]}
          /\ written' = IF ok THEN written \cup {cmd.tag} ELSE written
    BY DEF Execute
  <2>2. results' = results /\ taken' = taken
    BY DEF Execute
  <2> QED BY <1>1, <2>1, <2>2 DEF Told, AcksTold, OnTheWire
<1>4. NoRoundAhead'
  BY DEF Execute, Told, NoRoundAhead
<1>5. SuccessMeansWritten'
  BY DEF Execute, Told, SuccessMeansWritten, Shared
<1> QED BY <1>2, <1>3, <1>4, <1>5 DEF Told

LEMMA TakeNumberKeepsTold ==
  ASSUME IInv, Told, NEW k \in Senders, TakeNumber(k) PROVE Told'
<1>1. /\ taken' = Append(taken, next) /\ next' = next /\ next \in Nat /\ taken \in Seq(Nat)
      /\ acks' = acks /\ results' = results /\ wire' = wire /\ written' = written
  BY DEF TakeNumber, IInv, TypeOK, PastOK, MailOK
<1>2. \A i \in DOMAIN taken : i \in DOMAIN taken' /\ taken'[i] = taken[i]
  BY <1>1
<1>3. \A i \in DOMAIN taken' : i \in DOMAIN taken \/ taken'[i] = next
  BY <1>1
<1>4. /\ call'[k].at = "taken" /\ call'[k].id = next
      /\ \A q \in Senders : q # k => call'[q] = call[q]
  BY DEF TakeNumber, IInv, TypeOK, CallOK, Call
<1>5. WireTold'
  BY <1>1, <1>2 DEF Told, WireTold
<1>6. AcksTold'
  BY <1>1, <1>2 DEF Told, AcksTold, OnTheWire
<1>7. NoRoundAhead'
  <2>1. ASSUME NEW i \in DOMAIN taken' PROVE taken'[i] < next' + IdSpace
    BY <1>1, <1>2, <1>3, ConstantsAssumption DEF Told, NoRoundAhead
  <2>2. ASSUME NEW i \in DOMAIN taken', NEW q \in Senders, call'[q].at \in Busy
        PROVE  /\ taken'[i] < call'[q].id + IdSpace
               /\ call'[q].at = "loaded" => taken'[i] < call'[q].base + IdSpace
    <3>1. CASE q = k
      BY <1>1, <1>4, <2>1, <3>1
    <3>2. CASE q # k
      <4>1. /\ call[q].at \in Busy /\ call'[q] = call[q] /\ next < call[q].id + IdSpace
            /\ call[q].at = "loaded" => next < call[q].base + IdSpace
        BY <1>4, <2>2, <3>2 DEF TakeNumber, Busy
      <4> QED BY <1>2, <1>3, <4>1 DEF Told, NoRoundAhead
    <3> QED BY <3>1, <3>2
  <2> QED BY <2>1, <2>2 DEF NoRoundAhead, Busy
<1>8. SuccessMeansWritten'
  <2>1. ASSUME NEW q \in Callers, call'[q].at = "ok"
        PROVE  call'[q].tag \in written' \/ Shared(call[q].id)'
    <3>1. call'[q] = call[q] /\ (call[q].tag \in written \/ Shared(call[q].id))
      BY <1>4, <2>1, CallersSend DEF Told, SuccessMeansWritten
    <3>2. PICK id : id = call[q].id
      OBVIOUS
    <3>3. Shared(id) => Shared(id)'
      BY <1>1, SharedStays DEF IInv, TypeOK
    <3> QED BY <1>1, <3>1, <3>2, <3>3 DEF Shared
  <2> QED BY <2>1 DEF SuccessMeansWritten
<1> QED BY <1>5, <1>6, <1>7, <1>8 DEF Told

LEMMA LoadNumberKeepsTold ==
  ASSUME IInv, Told, NEW k \in Senders, LoadNumber(k) PROVE Told'
<1>1. /\ taken' = taken /\ acks' = acks /\ results' = results /\ next' = next
      /\ wire' = wire /\ written' = written
  BY DEF LoadNumber
<1>2. /\ call'[k].at = "loaded" /\ call'[k].id = call[k].id /\ call'[k].base = next
      /\ call[k].at \in Busy
      /\ \A q \in Senders : q # k => call'[q] = call[q]
  BY DEF LoadNumber, IInv, TypeOK, CallOK, Call, Busy
<1>3. WireTold'
  BY <1>1 DEF Told, WireTold
<1>4. AcksTold'
  BY <1>1 DEF Told, AcksTold, OnTheWire
<1>5. NoRoundAhead'
  BY <1>1, <1>2 DEF Told, NoRoundAhead
<1>6. SuccessMeansWritten'
  BY <1>1, <1>2, CallersSend DEF Told, SuccessMeansWritten, Shared
<1> QED BY <1>3, <1>4, <1>5, <1>6 DEF Told

LEMMA RegisterKeepsTold ==
  ASSUME IInv, Told, NEW k \in Senders, Register(k) PROVE Told'
<1>1. /\ taken' = taken /\ acks' = acks /\ results' \subseteq results
      /\ wire' = wire /\ written' = written
  BY DEF Register
<1>2. /\ call'[k].at = "send" /\ call'[k].id = call[k].id
      /\ call[k].at = "loaded" /\ call[k].at \in Busy
      /\ \A q \in Senders : q # k => call'[q] = call[q]
  BY DEF Register, IInv, TypeOK, CallOK, Call, Busy
<1>3. WireTold'
  BY <1>1 DEF Told, WireTold
<1>4. AcksTold'
  BY <1>1 DEF Told, AcksTold, OnTheWire
<1>5. NoRoundAhead'
  <2>1. call[k].base \in Nat /\ taken \in Seq(Nat)
    BY DEF IInv, TypeOK, CallOK, Call, MailOK, PastOK
  <2>2. ASSUME NEW i \in DOMAIN taken PROVE taken[i] < next' + IdSpace
    <3>1. taken[i] < call[k].base + IdSpace /\ taken[i] \in Nat
      BY <1>2, <2>1 DEF Told, NoRoundAhead
    <3> QED BY <2>1, <3>1, ConstantsAssumption DEF Register
  <2>3. ASSUME NEW q \in Senders, call'[q].at \in Busy
        PROVE  /\ call[q].at \in Busy /\ call'[q].id = call[q].id
               /\ call'[q].at = "loaded" => call[q].at = "loaded" /\ call'[q].base = call[q].base
    BY <1>2, <2>3
  <2> QED BY <1>1, <2>2, <2>3 DEF Told, NoRoundAhead, Busy
<1>6. SuccessMeansWritten'
  BY <1>1, <1>2, CallersSend DEF Told, SuccessMeansWritten, Shared
<1> QED BY <1>3, <1>4, <1>5, <1>6 DEF Told

LEMMA SendKeepsTold ==
  ASSUME IInv, Told, NEW k \in Senders, Send(k) PROVE Told'
<1> DEFINE cmd == [id |-> call[k].id, tag |-> call[k].tag]
<1>1. /\ taken' = taken /\ next' = next /\ acks' = acks /\ results' = results
      /\ written' = written
  BY DEF Send
<1>2. /\ call[k].at \in Busy
      /\ call'[k].at \in Busy => call'[k].id = call[k].id
      /\ call'[k].at \notin {"ok", "loaded"}
      /\ \A q \in Senders : q # k => call'[q] = call[q]
  BY DEF Send, Idle, IInv, TypeOK, CallOK, Call, Busy
<1>3. WireTold'
  <2>1. wire \in Seq(Command) /\ wire' \in {wire, Append(wire, cmd)}
    BY DEF Send, IInv, TypeOK, WireOK
  <2>2. \A i \in DOMAIN wire' : (i \in DOMAIN wire /\ wire'[i] = wire[i]) \/ wire'[i] = cmd
    BY <2>1
  <2>3. cmd.tag \in DOMAIN taken /\ taken[cmd.tag] = cmd.id
    BY <1>2 DEF IInv, Numbered
  <2> QED BY <1>1, <2>2, <2>3 DEF Told, WireTold
<1>4. AcksTold'
  BY <1>1 DEF Told, AcksTold, OnTheWire
<1>5. NoRoundAhead'
  BY <1>1, <1>2 DEF Told, NoRoundAhead, Busy
<1>6. SuccessMeansWritten'
  BY <1>1, <1>2, CallersSend DEF Told, SuccessMeansWritten, Shared
<1> QED BY <1>3, <1>4, <1>5, <1>6 DEF Told

\* The acknowledgement a caller fetches is that of its own command, or of one with the
\* same number.
LEMMA MineIsMine ==
  ASSUME IInv, Told, NEW k \in Senders, call[k].at \in Busy, NEW ack \in Mine(k), ack.ok
  PROVE  call[k].tag \in written \/ Shared(call[k].id)
<1> DEFINE m == taken[ack.tag]
           n == call[k].id
<1>1. ack \in results /\ ack.seq = n
  BY DEF Mine, Key
<1>2. ack.tag \in DOMAIN taken /\ OnTheWire(m) = n /\ ack.tag \in written
  BY <1>1 DEF Told, AcksTold
<1>3. m < n + IdSpace
  BY <1>2 DEF Told, NoRoundAhead
<1>4. m \in Nat /\ n \in Nat
  BY <1>2 DEF IInv, TypeOK, PastOK, CallOK, Call
<1>5. m = n
  <2> HIDE DEF m, n
  <2> QED BY <1>2, <1>3, <1>4, LowPartTells
<1>6. call[k].tag \in DOMAIN taken /\ taken[call[k].tag] = n
  BY DEF IInv, Numbered
<1> QED BY <1>2, <1>5, <1>6 DEF Shared

LEMMA ReturnKeepsTold ==
  ASSUME IInv, Told, NEW k \in Senders, call[k].at \in Busy, Return(k) PROVE Told'
<1>1. /\ wire' = wire /\ acks' = acks /\ results' \subseteq results
      /\ written' = written /\ taken' = taken /\ next' = next
  BY DEF Return
<1>2. call[k] \in Call /\ \A q \in Senders : q # k => call'[q] = call[q]
  BY DEF Return, IInv, TypeOK, CallOK
<1>3. /\ call'[k].at \notin Busy
      /\ call'[k].at = "ok" => /\ call'[k].id = call[k].id /\ call'[k].tag = call[k].tag
                              /\ \E ack \in Mine(k) : ack.ok
  <2>1. \/ call'[k] = [call[k] EXCEPT !.at = "failed"]
        \/ call'[k] = [call[k] EXCEPT !.at = "greet", !.more = FALSE]
        \/ /\ call'[k] = [call[k] EXCEPT !.at = "ok"]
           /\ \E ack \in Mine(k) : ack.ok
    BY DEF Return, IInv, TypeOK, CallOK
  <2>2. [call[k] EXCEPT !.at = "failed"].at = "failed"
    BY <1>2 DEF Call
  <2>3. [call[k] EXCEPT !.at = "greet", !.more = FALSE].at = "greet"
    BY <1>2 DEF Call
  <2>4. /\ [call[k] EXCEPT !.at = "ok"].at = "ok"
        /\ [call[k] EXCEPT !.at = "ok"].id = call[k].id
        /\ [call[k] EXCEPT !.at = "ok"].tag = call[k].tag
    BY <1>2 DEF Call
  <2> QED BY <2>1, <2>2, <2>3, <2>4 DEF Busy
<1>4. WireTold'
  BY <1>1 DEF Told, WireTold
<1>5. AcksTold'
  BY <1>1 DEF Told, AcksTold, OnTheWire
<1>6. NoRoundAhead'
  BY <1>1, <1>2, <1>3 DEF Told, NoRoundAhead, Busy
<1>7. SuccessMeansWritten'
  <2>1. call'[k].at = "ok" => call'[k].tag \in written \/ Shared(call'[k].id)
    BY <1>3, MineIsMine
  <2> QED BY <1>1, <1>2, <2>1, CallersSend DEF Told, SuccessMeansWritten, Shared
<1> QED BY <1>4, <1>5, <1>6, <1>7 DEF Told

LEMMA ToldInductive == IInv /\ Told /\ [Next]_vars => Told'
<1> SUFFICES ASSUME IInv, Told, [Next]_vars PROVE Told'
  OBVIOUS
<1>1. CASE Break \/ Notice \/ Reconnect \/ FirstState
  BY <1>1, LinkIsQuiet, QuietKeepsTold
<1>2. CASE Execute
  BY <1>2, ExecuteKeepsTold
<1>3. CASE ReadAck
  BY <1>3, ReadAckIsQuiet, QuietKeepsTold
<1>4. ASSUME NEW k \in Senders, Sending(k) \/ \E grasp \in BOOLEAN : Request(k, grasp)
      PROVE  Told'
  <2>1. CASE TakeNumber(k) \/ LoadNumber(k) \/ Register(k) \/ Send(k)
    BY <2>1, TakeNumberKeepsTold, LoadNumberKeepsTold, RegisterKeepsTold, SendKeepsTold
  <2>2. CASE Woken(k) \/ FoundLate(k)
    BY <2>2, ReturnKeepsTold DEF Woken, FoundLate, Busy
  <2>3. CASE \/ \E grasp \in BOOLEAN : Request(k, grasp)
             \/ NotSeen(k) \/ SendFails(k) \/ TimesOut(k) \/ GraceEnds(k) \/ Answer(k)
    BY <2>3, WaitingIsQuiet, QuietKeepsTold
  <2> QED BY <1>4, <2>1, <2>2, <2>3 DEF Sending
<1>5. CASE UNCHANGED vars
  BY <1>5, QuietKeepsTold DEF vars, Quiet
<1> QED BY <1>1, <1>2, <1>3, <1>4, <1>5 DEF Next

\* A caller that is told "done" has had its own frames written to the gripper, or those
\* of a thread that read the same number, across any number of lost connections.
THEOREM DoneIsDone == Spec => []SuccessMeansWritten
<1>1. IInv /\ [Next]_vars => IInv'
  BY IInvInductive
<1>2. IInv /\ Told /\ [Next]_vars => Told'
  BY ToldInductive
<1>3. Told => SuccessMeansWritten
  BY DEF Told
<1> QED BY InitIInv, InitTold, <1>1, <1>2, <1>3, PTL DEF Spec
================================================================================

-------------------------- MODULE GripperCommands ---------------------------
(***************************************************************************)
(* motion/gripper_node.py: how callers of the gripper (the set_position    *)
(* service, the gripper action, direct commands) number their commands,    *)
(* write them to the one connection, wait for the acknowledgement that     *)
(* carries the number in 16 bits, and time out; and what the server        *)
(* program does with a command.                                            *)
(*                                                                         *)
(* The connection is abstract: it breaks, the node notices or not, and a   *)
(* new one is made; GripperLink.tla is about how.  Positions, currents and *)
(* the register protocol are left out: what counts is whether the frames   *)
(* of a command were written to the gripper.  A wait may end at any        *)
(* moment.                                                                 *)
(***************************************************************************)
EXTENDS Integers, Sequences

CONSTANTS
  Callers,      \* threads that send a command and wait
  Streams,      \* threads that send direct commands and do not wait
  IdSpace,      \* 2^16: a number on the wire is a number modulo this
  MaxCommands,  \* bounds the model: commands numbered
  MaxBreaks     \* bounds the model: connections lost

ASSUME ConstantsAssumption ==
  /\ IdSpace \in Nat \ {0}
  /\ MaxCommands \in Nat /\ MaxBreaks \in Nat
  /\ Callers \cap Streams = {}

VARIABLES
  alive,     \* the server program serves the connection
  active,    \* _socket_active
  seen,      \* _tcp_hello_seen, _tcp_state_seen or _tcp_pong_seen
  wire,      \* commands sent and not read by the server
  acks,      \* acknowledgements sent and not read by the node
  breaks,
  next,      \* _next_cmd_id
  waiters,   \* _ack_waiters: number -> caller
  results,   \* _ack_results: number -> acknowledgement
  call,      \* per thread: the command it sends
  written,   \* history: commands whose frames the server wrote to the gripper
  taken      \* history: the numbers read from _next_cmd_id, one per command

link    == <<alive, active, seen, breaks>>
channel == <<wire, acks>>
mailbox == <<next, waiters, results>>
history == <<written, taken>>
vars == <<link, channel, mailbox, call, history>>

Senders == Callers \cup Streams
Tags    == 1..MaxCommands       \* a command, by the order the numbers were read in
Ack     == [seq : 0..IdSpace - 1, tag : Tags, ok : BOOLEAN]
Command == [id : Nat, tag : Tags]
Call    == [at : {"idle", "greet", "taken", "loaded", "send", "wait", "grace", "ok", "failed"},
            id : Nat, tag : Tags \cup {0},
            base : Nat,         \* _next_cmd_id as the increment loaded it
            woken : BOOLEAN,    \* its event is set
            more : BOOLEAN]     \* a grasp: current first, then position

LinkOK == alive \in BOOLEAN /\ active \in BOOLEAN /\ seen \in BOOLEAN
BreaksOK == breaks \in 0..MaxBreaks
WireOK == wire \in Seq(Command)
AcksOK == acks \subseteq Ack /\ results \subseteq Ack
MailOK == next \in Nat /\ waiters \subseteq Nat \X Callers
CallOK == call \in [Senders -> Call]
PastOK == written \subseteq Tags /\ taken \in Seq(Nat) /\ Len(taken) <= MaxCommands

TypeOK == LinkOK /\ BreaksOK /\ WireOK /\ AcksOK /\ MailOK /\ CallOK /\ PastOK

Idle == [at |-> "idle", id |-> 0, tag |-> 0, base |-> 0, woken |-> FALSE, more |-> FALSE]

Init ==
  /\ alive = TRUE /\ active = TRUE /\ seen = FALSE
  /\ wire = <<>> /\ acks = {} /\ breaks = 0
  /\ next = 1 /\ waiters = {} /\ results = {}
  /\ call = [k \in Senders |-> Idle]
  /\ written = {} /\ taken = <<>>

----------------------------------------------------------------------------
(* The connection *)

\* The server's end goes; what it sent may still be on its way.
Break ==
  /\ alive /\ breaks < MaxBreaks
  /\ alive' = FALSE /\ breaks' = breaks + 1
  /\ wire' = <<>>
  /\ UNCHANGED <<active, seen, acks, mailbox, call, history>>

\* A reader or the watchdog takes the node offline.
Notice ==
  /\ ~alive /\ active
  /\ active' = FALSE
  /\ UNCHANGED <<alive, seen, breaks, channel, mailbox, call, history>>

\* A new connection; a reader left from the old one may still deliver its
\* acknowledgements, or they are lost.
Reconnect ==
  /\ ~alive /\ ~active
  /\ alive' = TRUE /\ active' = TRUE /\ seen' = FALSE
  /\ acks' \in {acks, {}}
  /\ UNCHANGED <<wire, breaks, mailbox, call, history>>

FirstState ==
  /\ alive /\ active /\ ~seen
  /\ seen' = TRUE
  /\ UNCHANGED <<alive, active, breaks, channel, mailbox, call, history>>

----------------------------------------------------------------------------
(* The server program *)

\* Mutant: the number is packed as a signed one.
OnTheWireSigned(id) ==
  IF 2 * (id % IdSpace) < IdSpace THEN id % IdSpace ELSE (id % IdSpace) - IdSpace

OnTheWire(id) == id % IdSpace

\* The frames are written, or only some of them and an exception.
Execute ==
  /\ alive /\ wire # <<>>
  /\ LET cmd == Head(wire) IN
     \E ok \in BOOLEAN :
       /\ acks' = acks \cup {[seq |-> OnTheWire(cmd.id), tag |-> cmd.tag, ok |-> ok]}
       /\ written' = IF ok THEN written \cup {cmd.tag} ELSE written
  /\ wire' = Tail(wire)
  /\ UNCHANGED <<link, mailbox, call, taken>>

----------------------------------------------------------------------------
(* _recv_loop: an acknowledgement *)

\* Kept under its number, whoever waits; two readers may take them in any order.
ReadAck ==
  \E ack \in acks :
    /\ results' = {a \in results : a.seq # ack.seq} \cup {ack}
    /\ call' = [k \in Senders |->
                  IF <<ack.seq, k>> \in waiters THEN [call[k] EXCEPT !.woken = TRUE]
                  ELSE call[k]]
    /\ acks' = acks \ {ack}
    /\ UNCHANGED <<link, wire, next, waiters, history>>

----------------------------------------------------------------------------
(* _send_cmd_and_wait_ack and _send_cmd_fire_and_forget *)

Set(k, place) == call' = [call EXCEPT ![k].at = place]

\* _set_position_callback, _execute_callback, _direct_cmd_streaming_inline:
\* offline, they return at once.
Request(k, grasp) ==
  /\ call[k].at = "idle" /\ active
  /\ k \in Streams => ~grasp
  /\ call' = [call EXCEPT ![k].at = "greet", ![k].more = grasp]
  /\ UNCHANGED <<link, channel, mailbox, history>>

\* The number is read here, loaded again by the increment (LoadNumber) and stored
\* (Register).  No thread is so long over a command (4 s at most) that its number, or
\* the one it has loaded, comes round on the wire.
TakeNumber(k) ==
  /\ call[k].at = "greet" /\ Len(taken) < MaxCommands
  /\ \A q \in Senders :
       /\ call[q].at \in {"taken", "loaded", "send", "wait", "grace"} => next < call[q].id + IdSpace
       /\ call[q].at = "loaded" => next < call[q].base + IdSpace
  /\ k \in Callers => seen
  /\ taken' = Append(taken, next)
  /\ call' = [call EXCEPT ![k].at = "taken", ![k].id = next, ![k].tag = Len(taken) + 1,
                          ![k].woken = FALSE]
  /\ UNCHANGED <<link, channel, mailbox, written>>

\* 1.5 s without a state or a pong.
NotSeen(k) ==
  /\ call[k].at = "greet" /\ k \in Callers /\ ~seen
  /\ Set(k, "failed")
  /\ UNCHANGED <<link, channel, mailbox, history>>

\* Mutant: waiters are kept under the number as it is on the wire.
KeyOnTheWire(id) == OnTheWire(id)

\* The key of a command's waiter and of its result: the number itself.
Key(id) == id

Forget(k) == {w \in waiters : w[1] # Key(call[k].id)}

LoadNumber(k) ==
  /\ call[k].at = "taken"
  /\ call' = [call EXCEPT ![k].at = "loaded", ![k].base = next]
  /\ UNCHANGED <<link, channel, mailbox, history>>

\* The increment is stored, whatever others have stored meanwhile, and the waiter
\* registered.
Register(k) ==
  /\ call[k].at = "loaded"
  /\ next' = call[k].base + 1
  /\ IF k \in Callers
     THEN /\ waiters' = Forget(k) \cup {<<Key(call[k].id), k>>}
          /\ results' = {a \in results : a.seq # Key(call[k].id)}
     ELSE UNCHANGED <<waiters, results>>
  /\ call' = [call EXCEPT ![k].at = "send", ![k].base = 0]
  /\ UNCHANGED <<link, channel, history>>

\* sendall; bytes for a server that has gone are lost.
Send(k) ==
  /\ call[k].at = "send"
  /\ wire' = IF alive THEN Append(wire, [id |-> call[k].id, tag |-> call[k].tag]) ELSE wire
  /\ call' = [call EXCEPT ![k] = IF k \in Callers THEN [@ EXCEPT !.at = "wait"] ELSE Idle]
  /\ UNCHANGED <<link, acks, mailbox, history>>

\* Mutant: a caller whose send fails leaves its entry.
SendFailsKeepsEntry(k) ==
  /\ call[k].at = "send" /\ ~alive
  /\ Set(k, "failed")
  /\ UNCHANGED <<link, channel, mailbox, history>>

SendFails(k) ==
  /\ call[k].at = "send" /\ ~alive
  /\ waiters' = IF k \in Callers THEN Forget(k) ELSE waiters
  /\ Set(k, "failed")
  /\ UNCHANGED <<link, channel, next, results, history>>

\* The event is set: the acknowledgement is fetched, if it is still there, and
\* a grasp goes on to its second command.
Mine(k) == {a \in results : a.seq = Key(call[k].id)}

Return(k) ==
  /\ waiters' = Forget(k)
  /\ results' = results \ Mine(k)
  /\ call' = [call EXCEPT ![k] =
                IF \A a \in Mine(k) : ~a.ok THEN [@ EXCEPT !.at = "failed"]
                ELSE IF @.more THEN [@ EXCEPT !.at = "greet", !.more = FALSE]
                ELSE [@ EXCEPT !.at = "ok"]]
  /\ UNCHANGED <<link, channel, next, history>>

Woken(k) == call[k].at \in {"wait", "grace"} /\ call[k].woken /\ Return(k)

TimesOut(k) ==
  /\ call[k].at = "wait" /\ ~call[k].woken
  /\ Set(k, "grace")
  /\ UNCHANGED <<link, channel, mailbox, history>>

\* One more second: the results are looked at, the event is set by hand.
FoundLate(k) == call[k].at = "grace" /\ ~call[k].woken /\ Mine(k) # {} /\ Return(k)

GraceEnds(k) ==
  /\ call[k].at = "grace" /\ ~call[k].woken /\ Mine(k) = {}
  /\ waiters' = Forget(k)
  /\ Set(k, "failed")
  /\ UNCHANGED <<link, channel, next, results, history>>

\* The service or the action has answered.
Answer(k) ==
  /\ call[k].at \in {"ok", "failed"}
  /\ call' = [call EXCEPT ![k] = Idle]
  /\ UNCHANGED <<link, channel, mailbox, history>>

----------------------------------------------------------------------------
Sending(k) ==
  \/ TakeNumber(k) \/ NotSeen(k) \/ LoadNumber(k) \/ Register(k) \/ Send(k) \/ SendFails(k)
  \/ Woken(k) \/ TimesOut(k) \/ FoundLate(k) \/ GraceEnds(k) \/ Answer(k)

Next ==
  \/ Break \/ Notice \/ Reconnect \/ FirstState
  \/ Execute \/ ReadAck
  \/ \E k \in Senders : Sending(k) \/ \E grasp \in BOOLEAN : Request(k, grasp)

Spec == Init /\ [][Next]_vars

----------------------------------------------------------------------------
Shared(id) == \E m, n \in DOMAIN taken : m # n /\ taken[m] = id /\ taken[n] = id

\* A caller that is told "done" has had its own frames written to the gripper,
\* across reconnections, late acknowledgements and numbers that wrap on the
\* wire (gripper_node.py:885), unless two threads read the same number.
SuccessMeansWritten ==
  \A k \in Callers : call[k].at = "ok" => call[k].tag \in written \/ Shared(call[k].id)

\* Whoever waits for an acknowledgement can be found, and nobody else can: on
\* every way out a caller takes its entry along.
WaitersAreWaiting ==
  /\ \A entry \in waiters :
       call[entry[2]].at \in {"send", "wait", "grace"} /\ Key(call[entry[2]].id) = entry[1]
  /\ \A k \in Callers :
       call[k].at = "wait" => <<Key(call[k].id), k>> \in waiters \/ Shared(call[k].id)
=============================================================================

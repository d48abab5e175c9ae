------------------------------ MODULE PlcNode ------------------------------
(***************************************************************************)
(* plc/plc_node.py on plc_core/modbus_client.py: the ROS node that turns   *)
(* system states and push-button topics into coils of the PLC, and its two *)
(* latches, E-stop and watchdog.                                           *)
(*                                                                         *)
(* The node spins on one thread, so a callback is one step; what interleaves*)
(* is the order of callbacks and timers.  A press is ON now and OFF by a   *)
(* one-shot timer 0.2 s later; a change of state first presses the reset   *)
(* coil and presses the state's own coil only when that timer fires.  All  *)
(* one-shot timers have the same delay, so they fire in the order they     *)
(* were created.  Every Modbus call may fail, with or without having       *)
(* reached the PLC, and may take the serial connection with it.            *)
(*                                                                         *)
(* The ladder behind the coils is external: a start coil that is ON holds  *)
(* its lamp until the reset coil is ON (plc/README.md:76-86).              *)
(***************************************************************************)
EXTENDS Integers, Sequences, FiniteSets

SystemStates == {"idle", "listening", "inferring", "moving", "error", "e_stop", "watchdog"}

CONSTANTS
  StartCoils,   \* M0000..M0005
  ResetCoil,    \* M0100
  Output,       \* system_state_outputs, one coil for each state
  Requests,     \* the values other nodes send on /plc/system_state
  StallLimit,   \* equal heartbeat samples that make a timeout
  MaxTimers     \* one-shot timers pending at the same time (bounds the model)

Unsupported == "unsupported"   \* any string that is not a SystemState

ASSUME ConfigAssumption ==
  /\ ResetCoil \notin StartCoils
  /\ Output \in [SystemStates -> StartCoils]
  /\ Requests \subseteq SystemStates \cup {Unsupported}
  /\ StallLimit \in Nat \ {0}
  /\ MaxTimers \in Nat \ {0}

VARIABLES
  plc,        \* the client and the PLC, see PlcStates
  status,     \* /plc/status: the system_state published last
  estop,      \* _estop_latched, also the value on /plc/e_stop
  watchdog,   \* _watchdog_latched
  heartbeat,  \* _watchdog_same_sample_count; NoSample: no _watchdog_last_value
  timers      \* _pulse_timers, oldest first

vars == <<plc, status, estop, watchdog, heartbeat, timers>>

Coils == StartCoils \cup {ResetCoil}

----------------------------------------------------------------------------
\* connected: what the client believes; coils: those ON; held: the lamps the
\* ladder holds; adrift (history): coils whose last write was not confirmed,
\* or whose release found no connection or no node.
PlcStates == [connected : BOOLEAN, coils : SUBSET Coils,
              held : SUBSET StartCoils, adrift : SUBSET Coils]

\* External: the ladder, scanned after the coils S were set to v.
Scan(p, S, v) ==
  LET on == IF v THEN p.coils \cup S ELSE p.coils \ S
  IN  [p EXCEPT !.coils = on,
                !.held  = IF ResetCoil \in on THEN {} ELSE @ \cup on]

\* External: what a Modbus write to the coils S may do.
Done(p, S, v) == [out |-> "done", plc |-> [Scan(p, S, v) EXCEPT !.adrift = @ \ S]]
Raise(q, S, up) ==
  [out |-> "raised", plc |-> [q EXCEPT !.adrift = @ \cup S, !.connected = up]]
Raised(p, S, v) ==
  {Raise(q, S, TRUE)  : q \in {p, Scan(p, S, v)}} \cup
  {Raise(q, S, FALSE) : q \in {p, Scan(p, S, v)}}

\* A write to the coils S, after _ensure_connected.
Write(p, S, v) ==
  IF p.connected
  THEN {Done(p, S, v)} \cup Raised(p, S, v)
  ELSE {[out |-> "skipped",
         plc |-> IF v THEN p ELSE [p EXCEPT !.adrift = @ \cup (S \cap p.coils)]]}

\* A read that raised.
Unread(p) == {p, [p EXCEPT !.connected = FALSE]}

----------------------------------------------------------------------------
\* What a one-shot timer does: write the reset coil OFF and press coil, write
\* coil OFF (and, for a topic's press, publish idle), or write all coils OFF.
Tasks == [does : {"press", "release", "release_idle", "all_off"}, coil : Coils]
Task(d, c) == [does |-> d, coil |-> c]

NoSample == -1

Fault(e, w) == IF e THEN "e_stop" ELSE IF w THEN "watchdog" ELSE "error"
Latched == estop \/ watchdog

Room == Len(timers) < MaxTimers

\* _set_and_publish_system_state(s, apply_outputs=True), for s # e_stop.
ApplyState(p, s, pending) ==
  \E w \in Write(p, {ResetCoil}, TRUE) :
    /\ plc' = w.plc
    /\ timers' = IF w.out = "done" THEN Append(pending, Task("press", Output[s])) ELSE pending
    /\ status' = IF w.out = "done" THEN s ELSE "error"

\* __init__ and _connect_with_retry, on a PLC in state p.
Boot(p) ==
  /\ estop' = FALSE
  /\ watchdog' = FALSE
  /\ heartbeat' = NoSample
  /\ \/ ApplyState([p EXCEPT !.connected = TRUE], "idle", <<>>)
     \/ /\ plc' = [p EXCEPT !.connected = FALSE]
        /\ timers' = <<>>
        /\ status' = "error"

\* The operator restarts the node, the only way out of a latch.  The PLC keeps
\* its coils; the timers are gone.
Restart == Boot([plc EXCEPT !.adrift = @ \cup plc.coils])

\* A start at which every attempt to connect failed; one that connects is the
\* same as this start and an immediate Reconnect.
Init ==
  /\ plc = [connected |-> FALSE, coils |-> {}, held |-> {}, adrift |-> {}]
  /\ status = "error"
  /\ estop = FALSE
  /\ watchdog = FALSE
  /\ heartbeat = NoSample
  /\ timers = <<>>

\* Mutant: the reconnect timer does not ask about the latches.
ReconnectAnyway ==
  /\ ~plc.connected
  /\ Room
  /\ ApplyState([plc EXCEPT !.connected = TRUE], "idle", timers)
  /\ UNCHANGED <<estop, watchdog, heartbeat>>

Reconnect ==
  /\ ~plc.connected
  /\ ~Latched
  /\ Room
  /\ ApplyState([plc EXCEPT !.connected = TRUE], "idle", timers)
  /\ UNCHANGED <<estop, watchdog, heartbeat>>

----------------------------------------------------------------------------
Refuse ==
  /\ Latched
  /\ status' = Fault(estop, watchdog)
  /\ UNCHANGED <<plc, estop, watchdog, heartbeat, timers>>

\* The E-stop, asked for or polled.  Its coil is written ON and stays ON.
LatchEStop ==
  /\ estop' = TRUE
  /\ status' = "e_stop"
  /\ plc' \in IF plc.connected
              THEN {w.plc : w \in Write(plc, {Output["e_stop"]}, TRUE)} ELSE {plc}
  /\ UNCHANGED <<watchdog, heartbeat, timers>>

LatchWatchdog ==
  /\ watchdog' = TRUE
  /\ status' = "watchdog"
  /\ UNCHANGED estop

\* The watchdog's own lamp is pressed without a reset before it.
AskWatchdog ==
  /\ Room
  /\ LatchWatchdog
  /\ \E w \in IF plc.connected THEN Write(plc, {Output["watchdog"]}, TRUE)
              ELSE {[out |-> "skipped", plc |-> plc]} :
       /\ plc' = w.plc
       /\ timers' = IF w.out = "done"
                    THEN Append(timers, Task("release", Output["watchdog"])) ELSE timers
  /\ UNCHANGED heartbeat

OnSystemState(s) ==
  \/ /\ s = Unsupported
     /\ status' = "error"
     /\ UNCHANGED <<plc, estop, watchdog, heartbeat, timers>>
  \/ s = "e_stop" /\ LatchEStop
  \/ s = "watchdog" /\ ~estop /\ AskWatchdog
  \/ s \notin {"e_stop", Unsupported} /\ (estop \/ s # "watchdog") /\ Refuse
  \/ /\ s \notin {"e_stop", "watchdog", Unsupported}
     /\ ~Latched
     /\ plc.connected
     /\ Room
     /\ ApplyState(plc, s, timers)
     /\ UNCHANGED <<estop, watchdog, heartbeat>>

----------------------------------------------------------------------------
\* A topic writes the coils S; after an ON the task undoes it.
Command(S, v, task) ==
  /\ ~Latched
  /\ plc.connected
  /\ v => Room
  /\ \E w \in Write(plc, S, v) :
       /\ plc' = w.plc
       /\ status' = IF w.out = "raised" THEN "error" ELSE IF v THEN "moving" ELSE "idle"
       /\ timers' = IF v /\ w.out = "done" THEN Append(timers, task) ELSE timers
  /\ UNCHANGED <<estop, watchdog, heartbeat>>

OnCoilTopic(c, v) == Refuse \/ Command({c}, v, Task("release_idle", c))
OnAllTopic(v)     == Refuse \/ Command(StartCoils, v, Task("all_off", ResetCoil))

OnWordTopic ==
  \/ Refuse
  \/ /\ ~Latched
     /\ plc.connected
     /\ \/ status' = "moving" /\ UNCHANGED plc
        \/ status' = "error" /\ plc' \in Unread(plc)
     /\ UNCHANGED <<estop, watchdog, heartbeat, timers>>

----------------------------------------------------------------------------
\* apply_after_reset
FirePress(c) ==
  \E off \in Write(plc, {ResetCoil}, FALSE) : \E on \in Write(off.plc, {c}, TRUE) :
    /\ plc' = on.plc
    /\ timers' = IF on.out = "done" THEN Append(Tail(timers), Task("release", c))
                 ELSE Tail(timers)
    /\ status' = IF "raised" \in {off.out, on.out} THEN Fault(estop, watchdog) ELSE status

\* Mutant: the release asks _outputs_allowed, as the press did.
FireReleaseUnlessLatched(c, publishIdle) ==
  \E w \in IF Latched THEN {[out |-> "skipped", plc |-> plc]} ELSE Write(plc, {c}, FALSE) :
    /\ plc' = w.plc
    /\ timers' = Tail(timers)
    /\ status' = IF publishIdle /\ ~estop THEN "idle" ELSE status

\* release of _schedule_coil_release
FireRelease(c, publishIdle) ==
  \E w \in Write(plc, {c}, FALSE) :
    /\ plc' = w.plc
    /\ timers' = Tail(timers)
    /\ status' = IF publishIdle /\ ~estop THEN "idle"
                 ELSE IF w.out = "raised" THEN Fault(estop, watchdog) ELSE status

\* _write_m_all(False, bypass_latch=True)
FireAllOff ==
  \E w \in Write(plc, StartCoils, FALSE) :
    /\ plc' = w.plc
    /\ timers' = Tail(timers)
    /\ status' = CASE w.out = "done"    -> "idle"
                   [] w.out = "raised"  -> Fault(estop, watchdog)
                   [] w.out = "skipped" -> status

FireTimer ==
  /\ timers # <<>>
  /\ LET t == Head(timers)
     IN  \/ t.does = "press" /\ FirePress(t.coil)
         \/ t.does \in {"release", "release_idle"} /\ FireRelease(t.coil, t.does = "release_idle")
         \/ t.does = "all_off" /\ FireAllOff
  /\ UNCHANGED <<estop, watchdog, heartbeat>>

----------------------------------------------------------------------------
ReadFails ==
  /\ plc.connected
  /\ plc' \in Unread(plc)
  /\ status' = Fault(estop, watchdog)
  /\ UNCHANGED <<estop, watchdog, heartbeat, timers>>

\* read_timer_callback and a poll that raised; a good read republishes.
ReadTimer == ReadFails

\* Mutant: the timeout is noticed one sample late.
SampleLate ==
  \/ heartbeat' = 0 /\ UNCHANGED <<status, estop, watchdog>>
  \/ /\ heartbeat' = heartbeat + 1
     /\ IF heartbeat + 1 > StallLimit THEN LatchWatchdog
        ELSE UNCHANGED <<status, estop, watchdog>>

\* The coil is read as it was, or as the ladder has changed it meanwhile.
Sample ==
  \/ heartbeat' = 0 /\ UNCHANGED <<status, estop, watchdog>>
  \/ /\ heartbeat' = heartbeat + 1
     /\ IF heartbeat + 1 >= StallLimit THEN LatchWatchdog
        ELSE UNCHANGED <<status, estop, watchdog>>

\* Mutant: a latched node has nothing left to watch.
WatchdogTimerUnlessLatched ==
  /\ ~Latched
  /\ UNCHANGED timers
  /\ \/ LatchWatchdog /\ plc' \in Unread(plc) /\ UNCHANGED heartbeat
     \/ plc.connected /\ Sample /\ UNCHANGED plc

WatchdogTimer ==
  \/ /\ estop
     /\ status' = "e_stop"
     /\ UNCHANGED <<plc, estop, watchdog, heartbeat, timers>>
  \/ /\ ~Latched
     /\ LatchWatchdog          \* no connection, or the read raised
     /\ plc' \in Unread(plc)
     /\ UNCHANGED <<heartbeat, timers>>
  \/ /\ ~Latched
     /\ plc.connected
     /\ Sample
     /\ UNCHANGED <<plc, timers>>

EStopPollTimer ==
  \/ estop /\ Refuse
  \/ ~estop /\ plc.connected /\ (LatchEStop \/ ReadFails)

----------------------------------------------------------------------------
Next ==
  \/ Restart \/ Reconnect
  \/ \E s \in Requests : OnSystemState(s)
  \/ \E c \in Coils, v \in BOOLEAN : OnCoilTopic(c, v)
  \/ \E v \in BOOLEAN : OnAllTopic(v)
  \/ OnWordTopic
  \/ FireTimer \/ ReadTimer \/ WatchdogTimer \/ EStopPollTimer

Spec == Init /\ [][Next]_vars

\* The executor runs a periodic timer that stays due; nothing else is assumed.
FairSpec == Spec /\ WF_vars(WatchdogTimer)

----------------------------------------------------------------------------
TypeOK ==
  /\ plc \in PlcStates
  /\ status \in SystemStates
  /\ estop \in BOOLEAN
  /\ watchdog \in BOOLEAN
  /\ heartbeat \in NoSample..StallLimit
  /\ timers \in Seq(Tasks)
  /\ Len(timers) <= MaxTimers

\* A task that writes the coil c OFF.
Undoes(t, c) ==
  \/ t.does \in {"release", "release_idle"} /\ t.coil = c
  \/ t.does = "press" /\ c = ResetCoil
  \/ t.does = "all_off" /\ c \in StartCoils

KeptOn(c)    == estop /\ c = Output["e_stop"]
Due(c)       == \E i \in 1..Len(timers) : Undoes(timers[i], c)
Unwatched(c) == c \in plc.adrift \/ KeptOn(c)

\* Every coil that is ON will be written OFF by a timer that is already set,
\* whatever presses, state changes, latches and restarts overlap.  The only
\* exceptions are the lamp of the E-stop, meant to stay on, and coils whose
\* write the PLC did not confirm or whose release found no connection
\* (plc/README.md:114: a press is never a latched ON).
EveryOnCoilIsDue == \A c \in plc.coils : Unwatched(c) \/ Due(c)

\* The presses in qs are presses of ts, each where it was or one place ahead.
NoPressAdded(ts, qs) ==
  \E d \in {0, 1} : \A i \in 1..Len(qs) :
    qs[i].does = "press" => i + d \in 1..Len(ts) /\ qs[i] = ts[i + d]

\* While a latch is set, no coil goes ON but the fault's own and those whose
\* press was scheduled before, and no further press is scheduled: what was
\* pending runs out and then nothing moves (_outputs_allowed, and the paths
\* that write coils without asking it).
LatchFreezesOutputs ==
  [][Latched /\ Latched' =>
       /\ \A c \in plc'.coils \ plc.coils :
            \/ c \in {Output["e_stop"], Output["watchdog"]}
            \/ \E i \in 1..Len(timers) : timers[i] = Task("press", c)
       /\ NoPressAdded(timers, timers')]_vars

\* Timers and topics publish other states over a latched E-stop (an "all off"
\* even idle); the watchdog timer always brings e_stop back.
EStopComesBack == estop ~> (status = "e_stop" \/ ~estop)
=============================================================================

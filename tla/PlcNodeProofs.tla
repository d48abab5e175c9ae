--------------------------- MODULE PlcNodeProofs ---------------------------
(***************************************************************************)
(* What the run of PlcNode checks for two lamps and two pending timers,    *)
(* proved for any coils, mapping of states, timeout and number of timers.  *)
(***************************************************************************)
EXTENDS PlcNode, TLAPS

\* The samples counted stay below the timeout until the latch is set.
CountBelowTimeout == ~watchdog => heartbeat < StallLimit

IInv ==
  /\ TypeOK
  /\ CountBelowTimeout
  /\ EveryOnCoilIsDue

DueIn(ts, c) == \E i \in 1..Len(ts) : Undoes(ts[i], c)

\* EveryOnCoilIsDue of a PLC p with the timers ts, the coils K kept on.
Safe(p, ts, K) == \A c \in p.coils \ p.adrift : DueIn(ts, c) \/ c \in K

Kept == IF estop THEN {Output["e_stop"]} ELSE {}

----------------------------------------------------------------------------
(* Writes *)

\* A write leaves the PLC's state well formed, and a coil that it leaves ON and
\* confirmed is one of those it switched on or was so before; a write of OFF
\* leaves none of its own coils so.
LEMMA WriteFacts ==
  ASSUME NEW p \in PlcStates, NEW S \in SUBSET Coils, NEW v \in BOOLEAN,
         NEW w \in Write(p, S, v)
  PROVE  /\ w.plc \in PlcStates
         /\ w.out \in {"done", "raised", "skipped"}
         /\ v => \A c \in w.plc.coils \ w.plc.adrift :
                   (c \in S /\ w.out = "done") \/ c \in p.coils \ p.adrift
         /\ ~v => \A c \in w.plc.coils \ w.plc.adrift :
                    c \in p.coils \ p.adrift /\ c \notin S
         /\ \A c \in w.plc.coils \ p.coils : v /\ c \in S
<1>1. /\ Scan(p, S, v) \in PlcStates
      /\ Scan(p, S, v).coils = IF v THEN p.coils \cup S ELSE p.coils \ S
      /\ Scan(p, S, v).adrift = p.adrift
  BY ConfigAssumption DEF Scan, PlcStates, Coils
<1>2. CASE ~p.connected
  BY <1>2 DEF Write, PlcStates, Coils
<1>3. CASE p.connected /\ w = Done(p, S, v)
  BY <1>1, <1>3 DEF Done, PlcStates, Coils
<1>4. CASE p.connected /\ w \in Raised(p, S, v)
  <2>1. PICK q \in {p, Scan(p, S, v)}, up \in BOOLEAN : w = Raise(q, S, up)
    BY <1>4 DEF Raised
  <2>2. /\ q \in PlcStates /\ q.adrift = p.adrift
        /\ q.coils \subseteq p.coils \cup S
        /\ ~v => q.coils \subseteq p.coils
    BY <1>1, <2>1
  <2>3. /\ w.plc \in PlcStates /\ w.plc.coils = q.coils
        /\ w.plc.adrift = p.adrift \cup S /\ w.out = "raised"
    BY <2>1, <2>2 DEF Raise, PlcStates
  <2> QED BY <2>2, <2>3
<1> QED BY <1>2, <1>3, <1>4 DEF Write

\* What is due stays due when a timer is added, and when one that does not
\* undo the coil has fired.
LEMMA DueFacts ==
  ASSUME NEW ts \in Seq(Tasks), NEW t \in Tasks, NEW c \in Coils
  PROVE  /\ Append(ts, t) \in Seq(Tasks) /\ Len(Append(ts, t)) = Len(ts) + 1
         /\ DueIn(ts, c) \/ Undoes(t, c) => DueIn(Append(ts, t), c)
         /\ ts # <<>> => /\ Tail(ts) \in Seq(Tasks) /\ Len(Tail(ts)) = Len(ts) - 1
                         /\ Head(ts) \in Tasks
                         /\ DueIn(ts, c) /\ ~Undoes(Head(ts), c) => DueIn(Tail(ts), c)
<1>1. Append(ts, t) \in Seq(Tasks) /\ Len(Append(ts, t)) = Len(ts) + 1
  OBVIOUS
<1>2. ASSUME DueIn(ts, c)
      PROVE  DueIn(Append(ts, t), c)
  <2>1. PICK i \in 1..Len(ts) : Undoes(ts[i], c)
    BY <1>2 DEF DueIn
  <2>2. i \in 1..Len(Append(ts, t)) /\ Append(ts, t)[i] = ts[i]
    OBVIOUS
  <2> QED BY <2>1, <2>2 DEF DueIn
<1>3. ASSUME Undoes(t, c)
      PROVE  DueIn(Append(ts, t), c)
  <2>1. /\ Len(ts) + 1 \in 1..Len(Append(ts, t))
        /\ Append(ts, t)[Len(ts) + 1] = t
    OBVIOUS
  <2> QED BY <1>3, <2>1 DEF DueIn
<1>4. ASSUME ts # <<>>
      PROVE  Tail(ts) \in Seq(Tasks) /\ Len(Tail(ts)) = Len(ts) - 1 /\ Head(ts) \in Tasks
  BY <1>4
<1>5. ASSUME ts # <<>>, DueIn(ts, c), ~Undoes(Head(ts), c)
      PROVE  DueIn(Tail(ts), c)
  <2>1. PICK i \in 1..Len(ts) : Undoes(ts[i], c)
    BY <1>5 DEF DueIn
  <2>2. i # 1
    BY <1>5, <2>1
  <2>3. i - 1 \in 1..Len(Tail(ts)) /\ Tail(ts)[i - 1] = ts[i]
    BY <1>5, <2>2
  <2> QED BY <2>1, <2>3 DEF DueIn
<1> QED BY <1>1, <1>2, <1>3, <1>4, <1>5

\* Coils pressed are due when the timer added undoes them.
LEMMA OnKeeps ==
  ASSUME NEW p \in PlcStates, NEW S \in SUBSET Coils, NEW w \in Write(p, S, TRUE),
         NEW ts \in Seq(Tasks), NEW t \in Tasks, NEW K,
         Safe(p, ts, K), \A c \in S : Undoes(t, c)
  PROVE  /\ w.out = "done" => Safe(w.plc, Append(ts, t), K)
         /\ w.out # "done" => Safe(w.plc, ts, K)
<1> SUFFICES ASSUME NEW c \in w.plc.coils \ w.plc.adrift
             PROVE  /\ w.out = "done" => DueIn(Append(ts, t), c) \/ c \in K
                    /\ w.out # "done" => DueIn(ts, c) \/ c \in K
  BY DEF Safe
<1>1. (c \in S /\ w.out = "done") \/ c \in p.coils \ p.adrift
  BY WriteFacts
<1>2. c \in Coils
  BY WriteFacts DEF PlcStates
<1>3. CASE c \in S /\ w.out = "done"
  BY <1>2, <1>3, DueFacts
<1>4. CASE c \in p.coils \ p.adrift
  BY <1>2, <1>4, DueFacts DEF Safe
<1> QED BY <1>1, <1>3, <1>4

\* A write of OFF leaves nothing to undo, not even for the timer it is made by.
LEMMA OffKeeps ==
  ASSUME NEW p \in PlcStates, NEW S \in SUBSET Coils, NEW w \in Write(p, S, FALSE),
         NEW ts \in Seq(Tasks), NEW K, Safe(p, ts, K)
  PROVE  /\ Safe(w.plc, ts, K)
         /\ ts # <<>> /\ (\A c \in Coils : Undoes(Head(ts), c) => c \in S)
              => Safe(w.plc, Tail(ts), K)
<1>1. \A c \in w.plc.coils \ w.plc.adrift : c \in p.coils \ p.adrift /\ c \notin S
  BY WriteFacts
<1>2. w.plc.coils \subseteq Coils
  BY WriteFacts DEF PlcStates
<1>3. Safe(w.plc, ts, K)
  BY <1>1 DEF Safe
<1>4. ASSUME ts # <<>>, \A c \in Coils : Undoes(Head(ts), c) => c \in S,
             NEW c \in w.plc.coils \ w.plc.adrift
      PROVE  DueIn(Tail(ts), c) \/ c \in K
  <2>1. c \in Coils /\ ~Undoes(Head(ts), c)
    BY <1>1, <1>2, <1>4
  <2>2. Head(ts) \in Tasks
    BY <1>4
  <2>3. DueIn(ts, c) => DueIn(Tail(ts), c)
    BY <1>4, <2>1, <2>2, DueFacts
  <2> QED BY <1>1, <2>3 DEF Safe
<1> QED BY <1>3, <1>4 DEF Safe

----------------------------------------------------------------------------
(* Steps *)

\* EveryOnCoilIsDue, in the form the lemmas on writes speak of.
LEMMA DueIsSafe ==
  /\ EveryOnCoilIsDue <=> Safe(plc, timers, Kept)
  /\ EveryOnCoilIsDue' <=> Safe(plc', timers', Kept')
BY DEF EveryOnCoilIsDue, Unwatched, KeptOn, Kept, Due, Safe, DueIn

LEMMA InitHolds == Init => IInv
<1> SUFFICES ASSUME Init PROVE IInv
  OBVIOUS
<1>1. plc \in PlcStates /\ EveryOnCoilIsDue
  BY DEF Init, PlcStates, EveryOnCoilIsDue
<1>2. timers \in Seq(Tasks) /\ Len(timers) <= MaxTimers
  BY ConfigAssumption DEF Init
<1>3. heartbeat \in NoSample..StallLimit /\ CountBelowTimeout
  BY ConfigAssumption DEF Init, NoSample, CountBelowTimeout
<1> QED BY <1>1, <1>2, <1>3 DEF Init, IInv, TypeOK, SystemStates

\* Tasks are well formed.
LEMMA TaskTypes ==
  /\ \A c \in Coils : /\ Task("press", c) \in Tasks
                       /\ Task("release", c) \in Tasks
                       /\ Task("release_idle", c) \in Tasks
                       /\ Task("all_off", c) \in Tasks
                       /\ Undoes(Task("press", c), ResetCoil)
                       /\ Undoes(Task("release", c), c)
                       /\ Undoes(Task("release_idle", c), c)
                       /\ \A b \in StartCoils : Undoes(Task("all_off", c), b)
  /\ ResetCoil \in Coils /\ StartCoils \subseteq Coils
  /\ \A s \in SystemStates : Output[s] \in StartCoils
BY ConfigAssumption DEF Task, Tasks, Undoes, Coils

\* A change of state applied to a PLC p with timers ts.
LEMMA ApplyKeeps ==
  ASSUME NEW p \in PlcStates, NEW s \in SystemStates, NEW ts \in Seq(Tasks),
         NEW K, Len(ts) < MaxTimers, Safe(p, ts, K), ApplyState(p, s, ts)
  PROVE  /\ plc' \in PlcStates
         /\ timers' \in Seq(Tasks) /\ Len(timers') <= MaxTimers
         /\ status' \in SystemStates
         /\ Safe(plc', timers', K)
<1> DEFINE t == Task("press", Output[s])
<1>1. t \in Tasks /\ {ResetCoil} \in SUBSET Coils /\ \A c \in {ResetCoil} : Undoes(t, c)
  BY TaskTypes
<1>2. PICK w \in Write(p, {ResetCoil}, TRUE) :
        /\ plc' = w.plc
        /\ timers' = IF w.out = "done" THEN Append(ts, t) ELSE ts
        /\ status' = IF w.out = "done" THEN s ELSE "error"
  BY DEF ApplyState
<1> HIDE DEF t
<1>3. plc' \in PlcStates
  BY <1>1, <1>2, WriteFacts
<1>4. timers' \in Seq(Tasks) /\ Len(timers') <= MaxTimers
  BY <1>1, <1>2, ConfigAssumption
<1>5. Safe(plc', timers', K)
  <2>1. /\ w.out = "done" => Safe(w.plc, Append(ts, t), K)
        /\ w.out # "done" => Safe(w.plc, ts, K)
    <3> DEFINE R == {ResetCoil}
    <3>1. R \in SUBSET Coils /\ w \in Write(p, R, TRUE) /\ (\A c \in R : Undoes(t, c))
      BY <1>1
    <3>2. t \in Tasks
      BY <1>1
    <3> HIDE DEF R
    <3> QED BY <3>1, <3>2, OnKeeps
  <2> QED BY <1>2, <2>1
<1> QED BY <1>2, <1>3, <1>4, <1>5 DEF SystemStates

\* A start of the node, on a PLC whose coils nothing will undo.
LEMMA RestartKeeps == IInv /\ Restart => IInv'
<1> SUFFICES ASSUME IInv, Restart PROVE IInv'
  OBVIOUS
<1> DEFINE p == [plc EXCEPT !.adrift = @ \cup plc.coils]
           q == [p EXCEPT !.connected = TRUE]
<1>1. /\ q \in PlcStates /\ q.coils \subseteq q.adrift
      /\ [p EXCEPT !.connected = FALSE] \in PlcStates
      /\ [p EXCEPT !.connected = FALSE].coils \subseteq [p EXCEPT !.connected = FALSE].adrift
  BY DEF IInv, TypeOK, PlcStates
<1>2. /\ estop' = FALSE /\ watchdog' = FALSE /\ heartbeat' = NoSample
      /\ \/ ApplyState(q, "idle", <<>>)
         \/ /\ plc' = [p EXCEPT !.connected = FALSE]
            /\ timers' = <<>> /\ status' = "error"
  BY DEF Restart, Boot
<1> HIDE DEF p, q
<1>5. heartbeat' \in NoSample..StallLimit /\ CountBelowTimeout'
  BY <1>2, ConfigAssumption DEF NoSample, CountBelowTimeout
<1>3. CASE ApplyState(q, "idle", <<>>)
  <2>1. Safe(q, <<>>, {})
    BY <1>1 DEF Safe
  <2>2. <<>> \in Seq(Tasks) /\ Len(<<>>) < MaxTimers /\ "idle" \in SystemStates
    BY ConfigAssumption DEF SystemStates
  <2>3. /\ plc' \in PlcStates
        /\ timers' \in Seq(Tasks) /\ Len(timers') <= MaxTimers
        /\ status' \in SystemStates
        /\ Safe(plc', timers', {})
    BY <1>1, <1>3, <2>1, <2>2, ApplyKeeps
  <2>4. EveryOnCoilIsDue'
    BY <1>2, <2>3, DueIsSafe DEF Kept
  <2> QED BY <1>2, <1>5, <2>3, <2>4 DEF IInv, TypeOK
<1>4. CASE ~ApplyState(q, "idle", <<>>)
  <2>1. EveryOnCoilIsDue'
    <3>1. plc'.coils \subseteq plc'.adrift
      BY <1>1, <1>2, <1>4
    <3>2. Safe(plc', timers', Kept')
      BY <3>1 DEF Safe
    <3> QED BY <3>2, DueIsSafe
  <2>2. timers' \in Seq(Tasks) /\ Len(timers') <= MaxTimers
    <3>1. timers' = <<>>
      BY <1>2, <1>4
    <3>2. <<>> \in Seq(Tasks) /\ Len(<<>>) <= MaxTimers
      BY ConfigAssumption
    <3> QED BY <3>1, <3>2, Zenon
  <2> QED BY <1>1, <1>2, <1>4, <1>5, <2>1, <2>2 DEF IInv, TypeOK, SystemStates
<1> QED BY <1>3, <1>4

\* A change of state, asked for or made by a reconnection.
LEMMA ApplyStateKeeps ==
  ASSUME IInv, NEW p \in {plc, [plc EXCEPT !.connected = TRUE]}, NEW s \in SystemStates,
         Room, ApplyState(p, s, timers), UNCHANGED <<estop, watchdog, heartbeat>>
  PROVE  IInv'
<1>1. /\ plc \in PlcStates /\ timers \in Seq(Tasks) /\ estop \in BOOLEAN
      /\ Safe(plc, timers, Kept) /\ Len(timers) < MaxTimers
  BY DueIsSafe DEF IInv, TypeOK, Room
<1>2. p \in PlcStates /\ p.coils = plc.coils /\ p.adrift = plc.adrift
  BY <1>1 DEF PlcStates
<1>3. Safe(p, timers, Kept)
  BY <1>1, <1>2 DEF Safe
<1>4. /\ plc' \in PlcStates
      /\ timers' \in Seq(Tasks) /\ Len(timers') <= MaxTimers
      /\ status' \in SystemStates
      /\ Safe(plc', timers', Kept)
  BY <1>1, <1>2, <1>3, ApplyKeeps
<1>5. EveryOnCoilIsDue'
  BY <1>4, DueIsSafe DEF Kept
<1> QED BY <1>4, <1>5 DEF IInv, TypeOK, CountBelowTimeout

\* What every step needs to know of the state it starts from.
LEMMA Now ==
  ASSUME IInv
  PROVE  /\ plc \in PlcStates /\ timers \in Seq(Tasks) /\ Len(timers) <= MaxTimers
         /\ status \in SystemStates
         /\ estop \in BOOLEAN /\ watchdog \in BOOLEAN
         /\ heartbeat \in NoSample..StallLimit /\ (~watchdog => heartbeat < StallLimit)
         /\ Safe(plc, timers, Kept)
BY DueIsSafe DEF IInv, TypeOK, CountBelowTimeout

\* A failed read changes what the client believes, and no coil.
LEMMA UnreadKeeps ==
  ASSUME NEW p \in PlcStates, NEW q \in Unread(p), NEW ts, NEW K, Safe(p, ts, K)
  PROVE  q \in PlcStates /\ Safe(q, ts, K)
<1>1. q \in PlcStates /\ q.coils = p.coils /\ q.adrift = p.adrift
  BY DEF Unread, PlcStates
<1> QED BY <1>1 DEF Safe

\* A command refused under a latch.
LEMMA RefuseKeeps == IInv /\ Refuse => IInv'
<1> SUFFICES ASSUME IInv, Refuse PROVE IInv'
  OBVIOUS
<1>1. EveryOnCoilIsDue'
  BY Now, DueIsSafe DEF Refuse, Kept
<1> QED BY <1>1, Now DEF Refuse, Fault, IInv, TypeOK, CountBelowTimeout, SystemStates

\* The E-stop leaves its own coil on, which is then kept.
LEMMA LatchEStopKeeps == IInv /\ LatchEStop => IInv'
<1> SUFFICES ASSUME IInv, LatchEStop PROVE IInv'
  OBVIOUS
<1> DEFINE S == {Output["e_stop"]}
<1>1. S \in SUBSET Coils /\ Kept' = S /\ Kept \subseteq S
  BY TaskTypes DEF LatchEStop, Kept, SystemStates
<1>2. plc' = plc \/ \E w \in Write(plc, S, TRUE) : plc' = w.plc
  BY DEF LatchEStop
<1> HIDE DEF S
<1>3. plc' \in PlcStates /\ \A c \in plc'.coils \ plc'.adrift : c \in S \/ c \in plc.coils \ plc.adrift
  <2>1. CASE plc' = plc
    BY <2>1, Now
  <2>2. ASSUME NEW w \in Write(plc, S, TRUE), plc' = w.plc
        PROVE  /\ plc' \in PlcStates
               /\ \A c \in plc'.coils \ plc'.adrift : c \in S \/ c \in plc.coils \ plc.adrift
    BY <1>1, <2>2, Now, WriteFacts
  <2> QED BY <1>2, <2>1, <2>2
<1>4. timers' = timers
  BY DEF LatchEStop
<1>5. Safe(plc', timers', Kept')
  BY <1>1, <1>3, <1>4, Now DEF Safe
<1>6. EveryOnCoilIsDue'
  BY <1>5, DueIsSafe
<1> QED BY <1>3, <1>6, Now DEF LatchEStop, IInv, TypeOK, CountBelowTimeout, SystemStates

\* The watchdog's lamp is pressed like any other.
LEMMA AskWatchdogKeeps == IInv /\ AskWatchdog => IInv'
<1> SUFFICES ASSUME IInv, AskWatchdog PROVE IInv'
  OBVIOUS
<1> DEFINE c == Output["watchdog"]
           t == Task("release", c)
           S == {c}
<1>1. t \in Tasks /\ S \in SUBSET Coils /\ \A b \in S : Undoes(t, b)
  BY TaskTypes DEF SystemStates
<1>2. \/ plc' = plc /\ timers' = timers
      \/ \E w \in Write(plc, S, TRUE) :
           plc' = w.plc /\ timers' = IF w.out = "done" THEN Append(timers, t) ELSE timers
  <2>1. PICK w \in IF plc.connected THEN Write(plc, S, TRUE)
                   ELSE {[out |-> "skipped", plc |-> plc]} :
          plc' = w.plc /\ timers' = IF w.out = "done" THEN Append(timers, t) ELSE timers
    BY DEF AskWatchdog
  <2>2. CASE plc.connected
    BY <2>1, <2>2
  <2>3. CASE ~plc.connected
    <3>1. w = [out |-> "skipped", plc |-> plc]
      BY <2>1, <2>3
    <3>2. w.out = "skipped" /\ w.plc = plc
      BY <3>1
    <3>3. timers' = timers
      BY <2>1, <3>2
    <3> QED BY <2>1, <3>2, <3>3
  <2> QED BY <2>2, <2>3
<1> HIDE DEF c, t, S
<1>3. Kept' = Kept
  BY DEF AskWatchdog, LatchWatchdog, Kept
<1>4. /\ plc' \in PlcStates
      /\ timers' \in Seq(Tasks) /\ Len(timers') <= MaxTimers
      /\ Safe(plc', timers', Kept)
  <2>1. CASE plc' = plc /\ timers' = timers
    BY <2>1, Now
  <2>2. ASSUME NEW w \in Write(plc, S, TRUE), plc' = w.plc,
               timers' = IF w.out = "done" THEN Append(timers, t) ELSE timers
        PROVE  /\ plc' \in PlcStates
               /\ timers' \in Seq(Tasks) /\ Len(timers') <= MaxTimers
               /\ Safe(plc', timers', Kept)
    <3>1. plc' \in PlcStates
      BY <1>1, <2>2, Now, WriteFacts
    <3>2. timers' \in Seq(Tasks) /\ Len(timers') <= MaxTimers
      BY <1>1, <2>2, Now, ConfigAssumption DEF AskWatchdog, Room
    <3>3. Safe(plc', timers', Kept)
      BY <1>1, <2>2, Now, OnKeeps
    <3> QED BY <3>1, <3>2, <3>3
  <2> QED BY <1>2, <2>1, <2>2
<1>5. EveryOnCoilIsDue'
  BY <1>3, <1>4, DueIsSafe
<1> QED BY <1>4, <1>5, Now
        DEF AskWatchdog, LatchWatchdog, IInv, TypeOK, CountBelowTimeout, SystemStates

\* A topic's press is due to be undone by the task that comes with it.
LEMMA CommandKeeps ==
  ASSUME IInv, NEW S \in SUBSET Coils, NEW v \in BOOLEAN, NEW t \in Tasks,
         \A c \in S : Undoes(t, c), Command(S, v, t)
  PROVE  IInv'
<1>1. PICK w \in Write(plc, S, v) :
        /\ plc' = w.plc
        /\ status' \in {"error", "moving", "idle"}
        /\ timers' = IF v /\ w.out = "done" THEN Append(timers, t) ELSE timers
  BY DEF Command
<1>2. plc' \in PlcStates
  BY <1>1, Now, WriteFacts
<1>3. timers' \in Seq(Tasks) /\ Len(timers') <= MaxTimers
  BY <1>1, Now, ConfigAssumption DEF Command, Room
<1>4. Safe(plc', timers', Kept)
  <2>1. CASE v
    BY <1>1, <2>1, Now, OnKeeps
  <2>2. CASE ~v
    BY <1>1, <2>2, Now, OffKeeps
  <2> QED BY <2>1, <2>2
<1>5. EveryOnCoilIsDue'
  BY <1>4, DueIsSafe DEF Command, Kept
<1> QED BY <1>1, <1>2, <1>3, <1>5, Now
        DEF Command, IInv, TypeOK, CountBelowTimeout, SystemStates
\* apply_after_reset lets the reset coil go and presses the state's coil.
LEMMA FirePressKeeps ==
  ASSUME IInv, NEW c \in Coils, timers # <<>>, Head(timers) = Task("press", c), FirePress(c),
         UNCHANGED <<estop, watchdog, heartbeat>>
  PROVE  IInv'
<1> DEFINE t == Task("release", c)
           R == {ResetCoil}
           S == {c}
<1>1. /\ t \in Tasks /\ \A b \in S : Undoes(t, b)
      /\ R \in SUBSET Coils /\ S \in SUBSET Coils
  BY TaskTypes
<1>2. \A b \in Coils : Undoes(Head(timers), b) => b \in R
  BY DEF Undoes, Task
<1>0. PICK off \in Write(plc, R, FALSE) :
        \E on \in Write(off.plc, S, TRUE) :
          /\ plc' = on.plc
          /\ timers' = IF on.out = "done" THEN Append(Tail(timers), t) ELSE Tail(timers)
          /\ status' = IF "raised" \in {off.out, on.out} THEN Fault(estop, watchdog) ELSE status
  BY DEF FirePress
<1>3. PICK on \in Write(off.plc, S, TRUE) :
        /\ plc' = on.plc
        /\ timers' = IF on.out = "done" THEN Append(Tail(timers), t) ELSE Tail(timers)
        /\ status' = IF "raised" \in {off.out, on.out} THEN Fault(estop, watchdog) ELSE status
  BY <1>0
<1> HIDE DEF t, R, S
<1>4. off.plc \in PlcStates /\ Safe(off.plc, Tail(timers), Kept)
  BY <1>1, <1>2, <1>3, Now, WriteFacts, OffKeeps
<1>5. Tail(timers) \in Seq(Tasks) /\ Len(Tail(timers)) = Len(timers) - 1
  BY Now
<1>6. plc' \in PlcStates
  BY <1>1, <1>3, <1>4, WriteFacts
<1>7. Safe(plc', timers', Kept)
  BY <1>1, <1>3, <1>4, <1>5, OnKeeps
<1>8. timers' \in Seq(Tasks) /\ Len(timers') <= MaxTimers
  BY <1>1, <1>3, <1>5, Now, ConfigAssumption
<1>9. EveryOnCoilIsDue'
  BY <1>7, DueIsSafe DEF Kept
<1>10. status' \in SystemStates
  BY <1>3, Now DEF Fault, SystemStates
<1> QED BY <1>3, <1>6, <1>8, <1>9, <1>10, Now DEF IInv, TypeOK, CountBelowTimeout

\* A release, of one coil or of all.
LEMMA OffTimerKeeps ==
  ASSUME IInv, NEW S \in SUBSET Coils, NEW w \in Write(plc, S, FALSE), timers # <<>>,
         \A c \in Coils : Undoes(Head(timers), c) => c \in S,
         plc' = w.plc, timers' = Tail(timers), status' \in SystemStates,
         UNCHANGED <<estop, watchdog, heartbeat>>
  PROVE  IInv'
<1>1. plc' \in PlcStates
  BY Now, WriteFacts
<1>2. timers' \in Seq(Tasks) /\ Len(timers') <= MaxTimers
  BY Now, ConfigAssumption
<1>3. Safe(plc', timers', Kept)
  BY Now, OffKeeps
<1>4. EveryOnCoilIsDue'
  BY <1>3, DueIsSafe DEF Kept
<1> QED BY <1>1, <1>2, <1>4, Now DEF IInv, TypeOK, CountBelowTimeout

\* A one-shot timer.
LEMMA FireTimerKeeps == IInv /\ FireTimer => IInv'
<1> SUFFICES ASSUME IInv, FireTimer PROVE IInv'
  OBVIOUS
<1> DEFINE t == Head(timers)
<1>1. /\ timers # <<>> /\ UNCHANGED <<estop, watchdog, heartbeat>>
      /\ \/ t.does = "press" /\ FirePress(t.coil)
         \/ t.does \in {"release", "release_idle"} /\ FireRelease(t.coil, t.does = "release_idle")
         \/ t.does = "all_off" /\ FireAllOff
  BY DEF FireTimer
<1>2. t \in Tasks
  BY <1>1, Now
<1>3. t.coil \in Coils /\ t = Task(t.does, t.coil)
  BY <1>2 DEF Tasks, Task
<1>4. Fault(estop, watchdog) \in SystemStates
  BY DEF Fault, SystemStates
<1> HIDE DEF t
<1>5. CASE t.does = "press" /\ FirePress(t.coil)
  BY <1>1, <1>3, <1>5, FirePressKeeps DEF t
<1>6. CASE t.does \in {"release", "release_idle"} /\ FireRelease(t.coil, t.does = "release_idle")
  <2> DEFINE S == {t.coil}
  <2>1. S \in SUBSET Coils /\ \A c \in Coils : Undoes(Head(timers), c) => c \in S
    BY <1>3, <1>6 DEF t, Undoes
  <2>2. PICK w \in Write(plc, S, FALSE) :
          /\ plc' = w.plc /\ timers' = Tail(timers)
          /\ status' \in {"idle", Fault(estop, watchdog), status}
    BY <1>6 DEF FireRelease
  <2> HIDE DEF S
  <2>3. status' \in SystemStates
    BY <1>4, <2>2, Now DEF SystemStates
  <2> QED BY <1>1, <2>1, <2>2, <2>3, OffTimerKeeps
<1>7. CASE t.does = "all_off" /\ FireAllOff
  <2>1. StartCoils \in SUBSET Coils /\ \A c \in Coils : Undoes(Head(timers), c) => c \in StartCoils
    BY <1>7 DEF t, Undoes, Coils
  <2>2. PICK w \in Write(plc, StartCoils, FALSE) :
          /\ plc' = w.plc /\ timers' = Tail(timers)
          /\ status' = CASE w.out = "done"    -> "idle"
                         [] w.out = "raised"  -> Fault(estop, watchdog)
                         [] w.out = "skipped" -> status
    BY <1>7 DEF FireAllOff
  <2>3. w.out \in {"done", "raised", "skipped"}
    BY <2>1, <2>2, Now, WriteFacts
  <2>4. status' \in SystemStates
    BY <1>4, <2>2, <2>3, Now DEF SystemStates
  <2> QED BY <1>1, <2>1, <2>2, <2>4, OffTimerKeeps
<1> QED BY <1>1, <1>5, <1>6, <1>7
\* A read that raised, the heartbeat's or another.
LEMMA ReadFailsKeeps == IInv /\ ReadFails => IInv'
<1> SUFFICES ASSUME IInv, ReadFails PROVE IInv'
  OBVIOUS
<1>1. plc' \in PlcStates /\ Safe(plc', timers, Kept)
  BY Now, UnreadKeeps DEF ReadFails
<1>2. EveryOnCoilIsDue'
  BY <1>1, DueIsSafe DEF ReadFails, Kept
<1> QED BY <1>1, <1>2, Now DEF ReadFails, Fault, IInv, TypeOK, CountBelowTimeout, SystemStates

\* A sample of the heartbeat.
LEMMA WatchdogTimerKeeps == IInv /\ WatchdogTimer => IInv'
<1> SUFFICES ASSUME IInv, WatchdogTimer PROVE IInv'
  OBVIOUS
<1>1. plc' \in PlcStates /\ Safe(plc', timers, Kept)
  BY Now, UnreadKeeps DEF WatchdogTimer
<1>2. timers' = timers /\ estop' = estop
  BY DEF WatchdogTimer, LatchWatchdog, Sample
<1>3. EveryOnCoilIsDue'
  BY <1>1, <1>2, DueIsSafe DEF Kept
<1>4. /\ heartbeat' \in NoSample..StallLimit /\ CountBelowTimeout'
      /\ watchdog' \in BOOLEAN /\ status' \in SystemStates
  <2>1. CASE UNCHANGED heartbeat /\ status' \in {"e_stop", "watchdog"} /\ watchdog' \in {watchdog, TRUE}
    <3>1. watchdog' \in BOOLEAN /\ status' \in SystemStates
      BY <2>1, Now DEF SystemStates
    <3>2. heartbeat' \in NoSample..StallLimit
      BY <2>1, Now
    <3>3. CASE watchdog' = watchdog
      BY <2>1, <3>1, <3>2, <3>3, Now DEF CountBelowTimeout
    <3>4. CASE watchdog' = TRUE
      BY <3>1, <3>2, <3>4 DEF CountBelowTimeout
    <3> QED BY <2>1, <3>3, <3>4
  <2>2. CASE Sample
    <3>1. heartbeat' \in {0, heartbeat + 1} /\ (heartbeat' >= StallLimit => watchdog')
      BY <2>2, Now, ConfigAssumption DEF Sample, LatchWatchdog
    <3>2. watchdog' \in BOOLEAN /\ status' \in SystemStates
      BY <2>2, Now DEF Sample, LatchWatchdog, SystemStates
    <3>3. watchdog' \/ heartbeat' < StallLimit
      BY <3>1, Now, ConfigAssumption DEF NoSample
    <3>4. watchdog => UNCHANGED heartbeat
      BY DEF WatchdogTimer, Latched
    <3> QED BY <3>1, <3>2, <3>3, <3>4, Now, ConfigAssumption DEF NoSample, CountBelowTimeout
  <2> QED BY <2>1, <2>2 DEF WatchdogTimer, LatchWatchdog
<1> QED BY <1>1, <1>2, <1>3, <1>4, Now DEF IInv, TypeOK

\* A value on /plc/system_state.
LEMMA OnSystemStateKeeps ==
  ASSUME IInv, NEW s \in Requests, OnSystemState(s)
  PROVE  IInv'
<1>1. CASE s = Unsupported
  <2>1. status' \in SystemStates /\ UNCHANGED <<plc, estop, watchdog, heartbeat, timers>>
    BY <1>1 DEF OnSystemState, Unsupported, SystemStates
  <2>2. EveryOnCoilIsDue'
    BY <2>1, Now, DueIsSafe DEF Kept
  <2> QED BY <2>1, <2>2, Now DEF IInv, TypeOK, CountBelowTimeout
<1>2. CASE /\ s \notin {"e_stop", "watchdog", Unsupported} /\ Room
           /\ ApplyState(plc, s, timers) /\ UNCHANGED <<estop, watchdog, heartbeat>>
  <2>1. s \in SystemStates
    BY <1>2, ConfigAssumption
  <2> QED BY <1>2, <2>1, ApplyStateKeeps
<1> QED BY <1>1, <1>2, LatchEStopKeeps, AskWatchdogKeeps, RefuseKeeps DEF OnSystemState

\* Every callback and timer keeps the inductive invariant.
LEMMA StepKeeps == IInv /\ [Next]_vars => IInv'
<1> SUFFICES ASSUME IInv, [Next]_vars PROVE IInv'
  OBVIOUS
<1>1. CASE Restart
  BY <1>1, RestartKeeps
<1>2. CASE Reconnect
  BY <1>2, ApplyStateKeeps DEF Reconnect, SystemStates
<1>3. ASSUME NEW s \in Requests, OnSystemState(s) PROVE IInv'
  BY <1>3, OnSystemStateKeeps
<1>4. ASSUME NEW c \in Coils, NEW v \in BOOLEAN, OnCoilTopic(c, v) PROVE IInv'
  <2>1. CASE Refuse
    BY <2>1, RefuseKeeps
  <2>2. CASE Command({c}, v, Task("release_idle", c))
    <3> DEFINE S == {c}
               t == Task("release_idle", c)
    <3>1. S \in SUBSET Coils /\ t \in Tasks /\ (\A b \in S : Undoes(t, b)) /\ Command(S, v, t)
      BY <2>2, TaskTypes
    <3> HIDE DEF S, t
    <3> QED BY <3>1, CommandKeeps
  <2> QED BY <1>4, <2>1, <2>2 DEF OnCoilTopic
<1>5. ASSUME NEW v \in BOOLEAN, OnAllTopic(v) PROVE IInv'
  <2>1. CASE Refuse
    BY <2>1, RefuseKeeps
  <2>2. CASE Command(StartCoils, v, Task("all_off", ResetCoil))
    <3> DEFINE t == Task("all_off", ResetCoil)
    <3>1. /\ StartCoils \in SUBSET Coils /\ t \in Tasks
          /\ \A b \in StartCoils : Undoes(t, b)
          /\ Command(StartCoils, v, t)
      BY <2>2, TaskTypes
    <3> HIDE DEF t
    <3> QED BY <3>1, CommandKeeps
  <2> QED BY <1>5, <2>1, <2>2 DEF OnAllTopic
<1>6. CASE OnWordTopic
  <2>1. CASE Refuse
    BY <2>1, RefuseKeeps
  <2>2. CASE ~Refuse
    <3>1. /\ plc' = plc \/ plc' \in Unread(plc)
          /\ status' \in {"moving", "error"}
          /\ UNCHANGED <<estop, watchdog, heartbeat, timers>>
      BY <1>6, <2>2 DEF OnWordTopic
    <3>2. plc' \in PlcStates /\ Safe(plc', timers, Kept)
      BY <3>1, Now, UnreadKeeps
    <3>3. EveryOnCoilIsDue'
      BY <3>1, <3>2, DueIsSafe DEF Kept
    <3> QED BY <3>1, <3>2, <3>3, Now DEF IInv, TypeOK, CountBelowTimeout, SystemStates
  <2> QED BY <2>1, <2>2
<1>7. CASE FireTimer
  BY <1>7, FireTimerKeeps
<1>8. CASE ReadTimer
  BY <1>8, ReadFailsKeeps DEF ReadTimer
<1>9. CASE WatchdogTimer
  BY <1>9, WatchdogTimerKeeps
<1>10. CASE EStopPollTimer
  BY <1>10, RefuseKeeps, LatchEStopKeeps, ReadFailsKeeps DEF EStopPollTimer
<1>11. CASE UNCHANGED vars
  BY <1>11 DEF vars, IInv, TypeOK, CountBelowTimeout, EveryOnCoilIsDue, Unwatched, KeptOn, Due
<1> QED BY <1>1, <1>2, <1>3, <1>4, <1>5, <1>6, <1>7, <1>8, <1>9, <1>10, <1>11 DEF Next
----------------------------------------------------------------------------
(* What follows *)

\* Nothing but the fault's own lamp goes on under a latch, and what was pending
\* only runs out.
Frozen ==
  /\ \A c \in plc'.coils \ plc.coils :
       \/ c \in {Output["e_stop"], Output["watchdog"]}
       \/ \E i \in 1..Len(timers) : timers[i] = Task("press", c)
  /\ NoPressAdded(timers, timers')

\* Adding a timer that presses nothing, or firing the first, adds no press.
LEMMA NoPressFacts ==
  ASSUME NEW ts \in Seq(Tasks), NEW t \in Tasks, t.does # "press"
  PROVE  /\ NoPressAdded(ts, ts) /\ NoPressAdded(ts, Append(ts, t))
         /\ ts # <<>> => /\ NoPressAdded(ts, Tail(ts))
                         /\ NoPressAdded(ts, Append(Tail(ts), t))
<1>1. ASSUME NEW qs, NEW d \in {0, 1},
             \A i \in 1..Len(qs) : qs[i].does = "press" => i + d \in 1..Len(ts) /\ qs[i] = ts[i + d]
      PROVE  NoPressAdded(ts, qs)
  BY <1>1 DEF NoPressAdded
<1>2. NoPressAdded(ts, ts)
  <2>1. \A i \in 1..Len(ts) : i + 0 \in 1..Len(ts) /\ ts[i] = ts[i + 0]
    OBVIOUS
  <2> QED BY <1>1, <2>1
<1>3. NoPressAdded(ts, Append(ts, t))
  <2>1. \A i \in 1..Len(Append(ts, t)) :
          Append(ts, t)[i].does = "press" => i + 0 \in 1..Len(ts) /\ Append(ts, t)[i] = ts[i + 0]
    OBVIOUS
  <2> QED BY <1>1, <2>1
<1>4. ASSUME ts # <<>>
      PROVE  NoPressAdded(ts, Tail(ts)) /\ NoPressAdded(ts, Append(Tail(ts), t))
  <2>1. Tail(ts) \in Seq(Tasks) /\ Len(Tail(ts)) = Len(ts) - 1
    BY <1>4
  <2>2. \A i \in 1..Len(Tail(ts)) : i + 1 \in 1..Len(ts) /\ Tail(ts)[i] = ts[i + 1]
    BY <1>4
  <2>3. \A i \in 1..Len(Append(Tail(ts), t)) :
          Append(Tail(ts), t)[i].does = "press"
            => i + 1 \in 1..Len(ts) /\ Append(Tail(ts), t)[i] = ts[i + 1]
    <3> DEFINE u == Tail(ts)
    <3>1. u \in Seq(Tasks) /\ \A i \in 1..Len(u) : i + 1 \in 1..Len(ts) /\ u[i] = ts[i + 1]
      BY <2>1, <2>2
    <3> HIDE DEF u
    <3>2. \A i \in 1..Len(Append(u, t)) :
            Append(u, t)[i].does = "press" => i \in 1..Len(u) /\ Append(u, t)[i] = u[i]
      BY <3>1
    <3> QED BY <3>1, <3>2 DEF u
  <2> QED BY <1>1, <2>2, <2>3
<1> QED BY <1>2, <1>3, <1>4

\* A step that changes neither coils nor timers.
LEMMA StillFrozen ==
  ASSUME IInv, timers' = timers, plc'.coils \subseteq plc.coils
  PROVE  Frozen
<1>1. Task("release", ResetCoil) \in Tasks /\ Task("release", ResetCoil).does # "press"
  BY TaskTypes DEF Task
<1> QED BY <1>1, Now, NoPressFacts DEF Frozen

\* A timer that fires under a latch.
LEMMA FireTimerFreezes == IInv /\ FireTimer => Frozen
<1> SUFFICES ASSUME IInv, FireTimer PROVE Frozen
  OBVIOUS
<1> DEFINE t == Head(timers)
<1>1. timers # <<>> /\ t \in Tasks /\ t = timers[1] /\ 1 \in 1..Len(timers)
  BY Now DEF FireTimer
<1>2. t.coil \in Coils /\ t = Task(t.does, t.coil) /\ {t.coil} \in SUBSET Coils
      /\ {ResetCoil} \in SUBSET Coils /\ StartCoils \in SUBSET Coils
  BY <1>1, TaskTypes DEF Tasks, Task
<1>3. Task("release", t.coil) \in Tasks /\ Task("release", t.coil).does # "press"
  BY <1>2, TaskTypes DEF Task
<1>4. NoPressAdded(timers, Tail(timers)) /\ NoPressAdded(timers, Append(Tail(timers), Task("release", t.coil)))
  BY <1>1, <1>3, Now, NoPressFacts
<1>5. CASE t.does = "press" /\ FirePress(t.coil)
  <2>1. PICK off \in Write(plc, {ResetCoil}, FALSE) :
          \E on \in Write(off.plc, {t.coil}, TRUE) :
            /\ plc' = on.plc
            /\ timers' \in {Append(Tail(timers), Task("release", t.coil)), Tail(timers)}
    BY <1>5 DEF FirePress
  <2>2. PICK on \in Write(off.plc, {t.coil}, TRUE) :
            /\ plc' = on.plc
            /\ timers' \in {Append(Tail(timers), Task("release", t.coil)), Tail(timers)}
    BY <2>1
  <2> DEFINE R == {ResetCoil}
             S == {t.coil}
  <2>3. R \in SUBSET Coils /\ S \in SUBSET Coils
        /\ off \in Write(plc, R, FALSE) /\ on \in Write(off.plc, S, TRUE)
    BY <1>2, <2>1, <2>2
  <2> HIDE DEF R, S
  <2>6. off.plc \in PlcStates /\ off.plc.coils \subseteq plc.coils
    BY <2>3, Now, WriteFacts
  <2>7. on.plc.coils \ off.plc.coils \subseteq S
    BY <2>3, <2>6, WriteFacts
  <2>4. plc'.coils \ plc.coils \subseteq {t.coil}
    BY <2>2, <2>6, <2>7 DEF S
  <2>5. timers[1] = Task("press", t.coil)
    BY <1>1, <1>2, <1>5
  <2> QED BY <1>1, <1>4, <2>2, <2>4, <2>5 DEF Frozen
<1>6. CASE ~(t.does = "press" /\ FirePress(t.coil))
  <2>0. PICK S \in SUBSET Coils :
          \E w \in Write(plc, S, FALSE) : plc' = w.plc /\ timers' = Tail(timers)
    <3>1. \/ \E w \in Write(plc, {t.coil}, FALSE) : plc' = w.plc /\ timers' = Tail(timers)
          \/ \E w \in Write(plc, StartCoils, FALSE) : plc' = w.plc /\ timers' = Tail(timers)
      BY <1>6 DEF FireTimer, FireRelease, FireAllOff
    <3> QED BY <1>2, <3>1
  <2>1. PICK w \in Write(plc, S, FALSE) : plc' = w.plc /\ timers' = Tail(timers)
    BY <2>0
  <2>2. plc'.coils \subseteq plc.coils
    BY <2>1, Now, WriteFacts
  <2> QED BY <1>4, <2>1, <2>2 DEF Frozen
<1> QED BY <1>5, <1>6

\* The latches' own writes.
LEMMA LatchingFreezes == IInv /\ (LatchEStop \/ AskWatchdog) => Frozen
<1> SUFFICES ASSUME IInv, LatchEStop \/ AskWatchdog PROVE Frozen
  OBVIOUS
<1> DEFINE t == Task("release", Output["watchdog"])
<1>1. t \in Tasks /\ t.does # "press"
  BY TaskTypes DEF Task, SystemStates
<1>2. timers' \in {timers, Append(timers, t)}
  BY DEF LatchEStop, AskWatchdog
<1>3. NoPressAdded(timers, timers')
  BY <1>1, <1>2, Now, NoPressFacts
<1>4. PICK s \in {"e_stop", "watchdog"} :
        plc' = plc \/ \E w \in Write(plc, {Output[s]}, TRUE) : plc' = w.plc
  <2>1. CASE LatchEStop
    <3>1. plc' = plc \/ \E w \in Write(plc, {Output["e_stop"]}, TRUE) : plc' = w.plc
      BY <2>1 DEF LatchEStop
    <3> QED BY <3>1
  <2>2. CASE AskWatchdog
    <3>1. PICK w \in IF plc.connected THEN Write(plc, {Output["watchdog"]}, TRUE)
                     ELSE {[out |-> "skipped", plc |-> plc]} : plc' = w.plc
      BY <2>2 DEF AskWatchdog
    <3>2. w \in Write(plc, {Output["watchdog"]}, TRUE) \/ w = [out |-> "skipped", plc |-> plc]
      BY <3>1
    <3>3. CASE w \in Write(plc, {Output["watchdog"]}, TRUE)
      BY <3>1, <3>3
    <3>4. CASE w = [out |-> "skipped", plc |-> plc]
      <4>1. w.plc = plc
        BY <3>4
      <4> QED BY <3>1, <4>1
    <3> QED BY <3>2, <3>3, <3>4
  <2> QED BY <2>1, <2>2
<1>5. {Output[s]} \in SUBSET Coils
  BY TaskTypes DEF SystemStates
<1>6. plc'.coils \ plc.coils \subseteq {Output[s]}
  <2>1. CASE plc' = plc
    BY <2>1
  <2>2. ASSUME NEW w \in Write(plc, {Output[s]}, TRUE), plc' = w.plc
        PROVE  plc'.coils \ plc.coils \subseteq {Output[s]}
    <3>1. plc \in PlcStates
      BY Now
    <3>2. w.plc.coils \subseteq plc.coils \cup {Output[s]}
      BY ZenonT(60), <1>5, <3>1, WriteFacts
    <3> QED BY <2>2, <3>2
  <2> QED BY <1>4, <2>1, <2>2
<1> QED BY <1>3, <1>6 DEF Frozen

\* A step that finds a latch set and leaves one set.
LEMMA StepFreezes == IInv /\ [Next]_vars /\ Latched /\ Latched' => Frozen
<1> SUFFICES ASSUME IInv, [Next]_vars, Latched, Latched' PROVE Frozen
  OBVIOUS
<1>1. CASE Restart
  BY <1>1 DEF Restart, Boot, Latched
<1>2. CASE Refuse \/ UNCHANGED vars
  BY <1>2, StillFrozen DEF Refuse, vars
<1>3. CASE Reconnect
  BY <1>3 DEF Reconnect
<1>4. CASE LatchEStop \/ AskWatchdog
  BY <1>4, LatchingFreezes
<1>5. ASSUME NEW s \in Requests, OnSystemState(s) PROVE Frozen
  <2>1. CASE s = Unsupported
    BY <1>5, <2>1, StillFrozen DEF OnSystemState, Unsupported
  <2> QED BY <1>2, <1>4, <1>5, <2>1 DEF OnSystemState
<1>6. ASSUME NEW c \in Coils, NEW v \in BOOLEAN, OnCoilTopic(c, v) PROVE Frozen
  BY <1>2, <1>6 DEF OnCoilTopic, Command
<1>7. ASSUME NEW v \in BOOLEAN, OnAllTopic(v) PROVE Frozen
  BY <1>2, <1>7 DEF OnAllTopic, Command
<1>8. CASE OnWordTopic
  BY <1>2, <1>8 DEF OnWordTopic
<1>9. CASE FireTimer
  BY <1>9, FireTimerFreezes
<1>10. CASE ReadFails
  <2>1. plc'.coils = plc.coils /\ timers' = timers
    BY <1>10, Now DEF ReadFails, Unread, PlcStates
  <2> QED BY <2>1, StillFrozen
<1>11. CASE WatchdogTimer
  <2>1. plc'.coils = plc.coils /\ timers' = timers
    BY <1>11, Now DEF WatchdogTimer, Unread, PlcStates
  <2> QED BY <2>1, StillFrozen
<1> QED BY <1>1, <1>2, <1>3, <1>4, <1>5, <1>6, <1>7, <1>8, <1>9, <1>10, <1>11
        DEF Next, ReadTimer, EStopPollTimer

\* The inductive invariant.
THEOREM InvariantHolds == Spec => []IInv
BY InitHolds, StepKeeps, PTL DEF Spec

\* The node's state is well formed for any configuration of coils and times.
THEOREM TypeCorrect == Spec => []TypeOK
<1>1. IInv => TypeOK
  BY DEF IInv
<1> QED BY <1>1, InvariantHolds, PTL

\* Whatever overlaps, a coil that is ON and confirmed has its release coming.
THEOREM EveryPressIsReleased == Spec => []EveryOnCoilIsDue
<1>1. IInv => EveryOnCoilIsDue
  BY DEF IInv
<1> QED BY <1>1, InvariantHolds, PTL

\* Under a latch only what was pending before it still reaches the coils.
THEOREM LatchesFreeze == Spec => LatchFreezesOutputs
<1>1. IInv /\ [Next]_vars => [Latched /\ Latched' => Frozen]_vars
  BY StepFreezes
<1> QED BY <1>1, InvariantHolds, PTL DEF Spec, LatchFreezesOutputs, Frozen
=============================================================================

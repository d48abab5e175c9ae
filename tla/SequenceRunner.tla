--------------------------- MODULE SequenceRunner ---------------------------
(***************************************************************************)
(* motion/toolbox_seq_runner.py: a process that runs one sequence of       *)
(* toolbox_motion.py and ends, over the drawers table of the store         *)
(* (db_core/repository.py through db_core/client.py), the topics           *)
(* /motion/is_moving and /plc/e_stop, and the robot.                       *)
(*                                                                         *)
(* Processes are started by an operator, possibly while another runs.  A   *)
(* runner refuses to start when the last is_moving it has heard is true    *)
(* (S-7); it asks the store (S-2), announces itself, runs step after step, *)
(* and on a failure stops the arm, says so in its log and goes home.       *)
(*                                                                         *)
(* The arm, the gripper and the drawers are external: a step that fails    *)
(* may have been carried out, in part, or not at all, and a motion whose   *)
(* answer was not waited for goes on until it is stopped or arrives.       *)
(***************************************************************************)
EXTENDS ToolboxMotion, VisualServoing

CONSTANTS
  Runners,      \* processes alive at the same time
  Launchable,   \* the values of the parameter "sequence" that are tried
  MaxLaunches   \* bounds the model: processes started in all

VARIABLES
  run,        \* per process: its callback's place and its attributes
  moving,     \* per process: the last is_moving it published, "none" before
  inbox,      \* per process: the writers whose last is_moving is on its way to it
  record,     \* drawers table: layer -> is_open
  log,        \* the worst that the logs of the processes say of a sequence: no
              \* failure, one that failed, or one without a way home
  arm,        \* external: the waypoint of the arm
  inflight,   \* external: the target of the motion under way, or Still
  held,       \* external: what the gripper is closed on
  drawer,     \* external: where each drawer's handle is
  tool,       \* external: where the tool is
  launches,   \* processes started so far
  disputed,   \* history: layers whose drawer a run left without saying where
  raced,      \* history: a runner passed the S-7 check with another past it, or
              \* with the robot not as its sequence takes for granted
  unstopped   \* history: a motion may have been left under way, by a move_stop
              \* not acknowledged or not sent, or by the end of the process

world == <<arm, inflight, held, drawer, tool>>
history == <<disputed, raced, unstopped>>
vars == <<run, moving, inbox, record, log, world, launches, history>>

----------------------------------------------------------------------------
VisionDrawer == {"vision_open_0", "vision_open_1", "vision_close_0", "vision_close_1"}
PlainDrawer  == {"open_0", "open_1", "close_0", "close_1",
                 "open_0v2", "open_1v2", "close_0v2", "close_1v2"}
ToolSeqs     == {"vision_fetch", "vision_return", "socket_fetch", "socket_return"}
SeqNames     == VisionDrawer \cup PlainDrawer \cup ToolSeqs \cup {"home"}

ASSUME LaunchableAssumption == Launchable \subseteq SeqNames \cup {"unknown"}

\* Mutant: the vision variants are taken for closing ones.
OpensPlainOnly(name) == name \in {"open_0", "open_1", "open_0v2", "open_1v2"}

Opens(name) ==
  name \in {"vision_open_0", "vision_open_1", "open_0", "open_1", "open_0v2", "open_1v2"}

LayerOf(name) ==
  IF name \in {"vision_open_0", "vision_close_0", "open_0", "close_0", "open_0v2", "close_0v2"}
  THEN "layer0" ELSE "layer1"

Program(name) ==
  CASE name = "home"          -> home_seq
    [] name = "vision_fetch"  -> vision_fetch_seq
    [] name = "vision_return" -> vision_return_seq
    [] name = "socket_fetch"  -> socket_fetch_seq
    [] name = "socket_return" -> socket_return_seq
    [] name \in {"vision_open_0", "vision_open_1"}   -> vision_drawer_open_seq(LayerOf(name))
    [] name \in {"vision_close_0", "vision_close_1"} -> vision_drawer_close_seq(LayerOf(name))
    [] name \in {"open_0", "open_1"}                 -> drawer_open_seq(LayerOf(name))
    [] name \in {"close_0", "close_1"}               -> drawer_close_seq(LayerOf(name))
    [] name \in {"open_0v2", "open_1v2"}             -> drawer_open_seq_v2(LayerOf(name))
    [] name \in {"close_0v2", "close_1v2"}           -> drawer_close_seq_v2(LayerOf(name))

\* From here on the process has announced itself and drives the robot.
Executing == {"between", "checked", "calling", "gripping", "looking", "servo", "nudge"}
Active    == Executing \cup {"tcp", "failing", "recording", "ending"}
Admitted  == Active \cup {"gate", "announce"}      \* past the S-7 check
Places    == Admitted \cup {"off", "waiting"}

Off == [at |-> "off", name |-> "home", step |-> 1, homing |-> FALSE,
        heard |-> FALSE, estop |-> FALSE, pose |-> FALSE, handle |-> FALSE,
        servo |-> NewServo, late |-> 0]

Run == [at : Places, name : SeqNames \cup {"unknown"}, step : Nat,
        homing : BOOLEAN,   \* running home_seq after a failure
        heard : BOOLEAN,    \* _prev_is_moving
        estop : BOOLEAN,    \* _estop_triggered
        pose : BOOLEAN,     \* _latest_tool_gripper.valid
        handle : BOOLEAN,   \* _latest_handle.valid
        servo : Servo,
        late : Nat]         \* history: commands sent since _estop_triggered

Still   == At("free", "still")
Handles == Layers
Waypoints == [place : STRING, spot : STRING]

TypeOK ==
  /\ run \in [Runners -> Run]
  /\ moving \in [Runners -> {"none", "yes", "no"}]
  /\ inbox \in [Runners -> SUBSET Runners]
  /\ record \in [Layers -> BOOLEAN]
  /\ log \in {"clean", "failed", "manual"}
  /\ arm \in Waypoints /\ inflight \in Waypoints
  /\ held \in Handles \cup {"none", "tool"}
  /\ drawer \in [Layers -> {"closed", "open", "open_v2", "ajar"}]
  /\ tool \in {"slot", "staging", "gripper", "dropped"}
  /\ launches \in 0..MaxLaunches
  /\ disputed \subseteq Layers /\ raced \in BOOLEAN /\ unstopped \in BOOLEAN

Init ==
  /\ run = [r \in Runners |-> Off]
  /\ moving = [r \in Runners |-> "none"]
  /\ inbox = [r \in Runners |-> {}]
  /\ record = [l \in Layers |-> FALSE]
  /\ log = "clean"
  /\ arm = Home /\ inflight = Still /\ held = "none"
  /\ drawer = [l \in Layers |-> "closed"]
  /\ tool \in {"slot", "staging"}
  /\ launches = 0
  /\ disputed = {} /\ raced = FALSE /\ unstopped = FALSE

Go(r, place) == run' = [run EXCEPT ![r].at = place]
Exit(r) == run' = [run EXCEPT ![r] = Off]
Live(r) == run[r].at # "off"

----------------------------------------------------------------------------
(* The robot: external *)

\* A handle in the gripper goes where the arm goes.
Dragged(w) ==
  IF held \notin Handles THEN drawer
  ELSE [drawer EXCEPT ![held] =
          IF w.place # held THEN "ajar"
          ELSE CASE w.spot \in {"open", "open_v2"} -> w.spot
                 [] w.spot = "approach" -> "closed"
                 [] OTHER -> @]

HandleHere(l) == \/ arm = At(l, "approach") /\ drawer[l] = "closed"
                 \/ arm = At(l, "opendown") /\ drawer[l] = "open"
                 \/ arm = At(l, "opendown_v2") /\ drawer[l] = "open_v2"

\* What the gripper holds after a stroke, and where the tool then is.
Grasp(stroke) ==
  IF stroke \in {"release", "wide"} THEN "none"
  ELSE IF held # "none" THEN held
  ELSE CASE stroke = "box" /\ \E l \in Layers : HandleHere(l) ->
              CHOOSE l \in Layers : HandleHere(l)
         [] stroke = "tool" /\ arm.spot = "down" /\ arm.place = tool -> "tool"
         [] OTHER -> "none"

ToolAfter(stroke) ==
  IF Grasp(stroke) = "tool" THEN "gripper"
  ELSE IF held # "tool" THEN tool
  ELSE IF arm.spot = "down" /\ arm.place \in {"slot", "staging"} THEN arm.place
  ELSE "dropped"

\* A motion nobody waits for any more arrives all the same.
OrphanArrives ==
  /\ inflight # Still
  /\ \A r \in Runners : run[r].at # "calling"
  /\ arm' = inflight /\ drawer' = Dragged(inflight)
  /\ inflight' = Still
  /\ UNCHANGED <<run, moving, inbox, record, log, held, tool, launches, history>>

\* move_stop: what was under way ends between two waypoints.
Halt == /\ arm' = IF inflight = Still THEN arm ELSE Nowhere
        /\ drawer' = IF inflight = Still THEN drawer ELSE Dragged(Nowhere)
        /\ inflight' = Still
        /\ UNCHANGED <<held, tool>>

----------------------------------------------------------------------------
(* Starting a process, and the topics *)

\* "Before the call the arm must be in its home pose": the operator sees to it
\* when no runner is alive, and puts the robot in order after a failure.
RobotReady == arm \in {Home, CatchHome} /\ held = "none" /\ inflight = Still

Launch(r, name) ==
  /\ ~Live(r)
  /\ launches < MaxLaunches
  /\ (\A q \in Runners : ~Live(q)) => RobotReady
  /\ run' = [run EXCEPT ![r] = [Off EXCEPT !.at = "waiting", !.name = name]]
  /\ inbox' = [q \in Runners |->
                 IF q # r THEN inbox[q] \ {r}
                 ELSE {p \in Runners \ {r} : Live(p) /\ moving[p] # "none"}]
  /\ moving' = [moving EXCEPT ![r] = "none"]
  /\ launches' = launches + 1
  /\ UNCHANGED <<record, log, world, history>>

PutInOrder ==
  /\ \A r \in Runners : ~Live(r)
  /\ ~RobotReady /\ inflight = Still
  /\ arm' = Home /\ held' = "none"
  /\ tool' \in IF tool \in {"gripper", "dropped"} THEN {"slot", "staging"} ELSE {tool}
  /\ UNCHANGED <<run, moving, inbox, record, log, inflight, drawer, launches, history>>

\* __init__: a robot service does not answer within 10 s.
ServiceMissing(r) ==
  /\ run[r].at = "waiting"
  /\ Exit(r)
  /\ inbox' = [inbox EXCEPT ![r] = {}]
  /\ UNCHANGED <<moving, record, log, world, launches, history>>

\* The writer's new value is on its way to the processes that still listen.
Publish(r, value) ==
  /\ moving' = [moving EXCEPT ![r] = value]
  /\ inbox' = [q \in Runners |->
                 IF q # r /\ run[q].at = "waiting" THEN inbox[q] \cup {r} ELSE inbox[q]]

\* _on_is_moving.  Nothing reads the flag after _run_once has begun.
Hear(r, q) ==
  /\ run[r].at = "waiting" /\ q \in inbox[r]
  /\ run' = [run EXCEPT ![r].heard = (moving[q] = "yes")]
  /\ inbox' = [inbox EXCEPT ![r] = @ \ {q}]
  /\ UNCHANGED <<moving, record, log, world, launches, history>>

\* _on_estop, at any time: once per process (no runner reacts to a release of
\* the button); move_stop is asked for and not waited for.
HearEStop(r) ==
  /\ Live(r) /\ ~run[r].estop
  /\ run' = [run EXCEPT ![r].estop = TRUE]
  /\ Halt \/ UNCHANGED world
  /\ UNCHANGED <<moving, inbox, record, log, launches, history>>

\* _on_tool_gripper_pose and _on_handle_pose, when the pose is waited for; a
\* handle seen earlier counts as one seen before the first tick.
SeeTool(r) ==
  /\ run[r].at = "looking" /\ ~run[r].pose
  /\ run' = [run EXCEPT ![r].pose = TRUE]
  /\ UNCHANGED <<moving, inbox, record, log, world, launches, history>>

SeeHandle(r) ==
  /\ run[r].at = "servo" /\ ~run[r].handle
  /\ run' = [run EXCEPT ![r].handle = TRUE]
  /\ UNCHANGED <<moving, inbox, record, log, world, launches, history>>

----------------------------------------------------------------------------
(* _run_once: the checks *)

Disputes(r) ==
  disputed' = IF run[r].name \in VisionDrawer \cup PlainDrawer
              THEN disputed \cup {LayerOf(run[r].name)} ELSE disputed

\* Another runner is past the check that this one passes now, or another has
\* ended meanwhile and left the robot somewhere.
Race(r) ==
  LET race == ~RobotReady \/ \E q \in Runners \ {r} : run[q].at \in Admitted IN
  /\ raced' = (raced \/ race)
  /\ disputed' = IF race THEN Layers ELSE disputed

Begin(r) ==
  /\ run[r].at = "waiting"
  /\ IF run[r].heard \/ run[r].name \notin SeqNames
     THEN Exit(r) /\ UNCHANGED history
     ELSE /\ Go(r, IF run[r].name \in VisionDrawer \cup ToolSeqs THEN "gate" ELSE "announce")
          /\ Race(r) /\ UNCHANGED unstopped
  /\ inbox' = [inbox EXCEPT ![r] = {}]
  /\ UNCHANGED <<moving, record, log, world, launches>>

\* check_drawer_feasibility: only an open drawer is not to be opened.
AlreadyOpen(r) == Opens(run[r].name) /\ record[LayerOf(run[r].name)]

GatePasses(r) ==
  /\ run[r].at = "gate"
  /\ run[r].name \in VisionDrawer => ~AlreadyOpen(r)
  /\ Go(r, "announce")
  /\ UNCHANGED <<moving, inbox, record, log, world, launches, history>>

\* The tool's status forbids it, the store cannot be read, or the parameter
\* tool_id is missing.  set_error of plc_core/client.py only writes a log line.
GateRefuses(r) ==
  /\ run[r].at = "gate"
  /\ Exit(r)
  /\ UNCHANGED <<moving, inbox, record, log, world, launches, history>>

SkipOpenDrawer(r) ==
  /\ run[r].at = "gate" /\ run[r].name \in VisionDrawer /\ AlreadyOpen(r)
  /\ Exit(r)
  /\ moving' = [moving EXCEPT ![r] = "no"]
  /\ inbox' = [q \in Runners |->
                 IF q # r /\ run[q].at = "waiting" THEN inbox[q] \cup {r} ELSE inbox[q]]
  /\ UNCHANGED <<record, log, world, launches, history>>

\* What a plain sequence does to a drawer is not recorded.
Announce(r) ==
  /\ run[r].at = "announce"
  /\ Publish(r, "yes")
  /\ Go(r, "tcp")
  /\ IF run[r].name \in PlainDrawer THEN Disputes(r) /\ UNCHANGED <<raced, unstopped>>
                                    ELSE UNCHANGED history
  /\ UNCHANGED <<record, log, world, launches>>

\* Mutant: the failure of the tool frame is reported as step -1.
SetTcpStepBelow(r) ==
  /\ run[r].at = "tcp"
  /\ \/ Go(r, "between")
     \/ run' = [run EXCEPT ![r].at = "failing", ![r].step = 0 - 1]
  /\ UNCHANGED <<moving, inbox, record, log, world, launches, history>>

\* _set_tcp; a step number of 0 tells _on_sequence_failure not to go home.
SetTcp(r) ==
  /\ run[r].at = "tcp"
  /\ \/ Go(r, "between")
     \/ run' = [run EXCEPT ![r].at = "failing", ![r].step = 0]
  /\ UNCHANGED <<moving, inbox, record, log, world, launches, history>>

----------------------------------------------------------------------------
(* _run_sequence and _exec_step *)

Steps(r) == IF run[r].homing THEN home_seq ELSE Program(run[r].name)
Current(r) == Steps(r)[run[r].step]

NextStep(r) == run' = [run EXCEPT ![r].at = "between", ![r].step = @ + 1]

\* A step fails: of the sequence, or of the way home.
Failed(r) == IF run[r].homing THEN "ending" ELSE "failing"
Fail(r) == Go(r, Failed(r))

\* Mutant: the flag is looked at only while an answer is waited for.
CheckNoFlag(r) ==
  /\ run[r].at = "between"
  /\ IF run[r].step > Len(Steps(r))
     THEN Go(r, IF run[r].homing \/ run[r].name \notin VisionDrawer THEN "ending" ELSE "recording")
     ELSE Go(r, "checked")
  /\ UNCHANGED <<moving, inbox, record, log, world, launches, history>>

Check(r) ==
  /\ run[r].at = "between"
  /\ IF run[r].step > Len(Steps(r))
     THEN Go(r, IF run[r].homing \/ run[r].name \notin VisionDrawer THEN "ending" ELSE "recording")
     ELSE IF run[r].estop THEN Fail(r) ELSE Go(r, "checked")
  /\ UNCHANGED <<moving, inbox, record, log, world, launches, history>>

\* Another actuator command leaves the process.
Send(r, place) ==
  run' = [run EXCEPT ![r].at = place, ![r].late = IF run[r].estop THEN @ + 1 ELSE @]

MoveKinds == {"MOVE_L", "MOVE_J", "MOVE_L_TOP_XY", "MOVE_L_TOOL_XYZ", "MOVE_L_STAGING_XYZ",
              "MOVE_L_SLOT_XY", "MOVE_L_SLOT_XYZ"}
SeenKinds == {"MOVE_L_TOP_XY", "MOVE_L_TOOL_XYZ", "MOVE_L_STAGING_XYZ"}
AimedKinds == SeenKinds \cup {"MOVE_L_SLOT_XY", "MOVE_L_SLOT_XYZ"}

\* _movel and _movej: the call is sent.
CallMove(r) ==
  /\ run[r].at = "checked" /\ Current(r).kind \in MoveKinds
  /\ Current(r).kind \in SeenKinds => run[r].pose
  /\ Send(r, "calling")
  /\ inflight' = Current(r).at
  /\ UNCHANGED <<moving, inbox, record, log, arm, held, drawer, tool, launches, history>>

\* No pose, a pose or a height out of range, or a tool that toolbox.yaml
\* does not know: no call is made.
AimFails(r) ==
  /\ run[r].at = "checked" /\ Current(r).kind \in AimedKinds
  /\ Fail(r)
  /\ UNCHANGED <<moving, inbox, record, log, world, launches, history>>

MoveArrives(r) ==
  /\ run[r].at = "calling" /\ inflight = Current(r).at
  /\ arm' = inflight /\ drawer' = Dragged(inflight)
  /\ inflight' = Still
  /\ NextStep(r)
  /\ UNCHANGED <<moving, inbox, record, log, held, tool, launches, history>>

\* The controller answers that it failed; or, with the motion under way, the
\* answer does not come in time or the E-stop was heard.
MoveFails(r) ==
  /\ run[r].at = "calling"
  /\ Halt \/ UNCHANGED world
  /\ Fail(r)
  /\ UNCHANGED <<moving, inbox, record, log, launches, history>>

CallGrip(r) ==
  /\ run[r].at = "checked" /\ Current(r).kind = "GRIP"
  /\ Send(r, "gripping")
  /\ UNCHANGED <<moving, inbox, record, log, world, launches, history>>

\* _grip: a failure or a timeout leaves open whether the gripper has moved.
GripEnds(r) ==
  /\ run[r].at = "gripping"
  /\ \/ held' = Grasp(Current(r).stroke) /\ tool' = ToolAfter(Current(r).stroke)
        /\ (NextStep(r) \/ Fail(r))
     \/ UNCHANGED <<held, tool>> /\ Fail(r)
  /\ UNCHANGED <<moving, inbox, record, log, arm, inflight, drawer, launches, history>>

\* _exec_wait_vision_gripper_xy: forget the pose, wait 5 s for a new one.
StartLooking(r) ==
  /\ run[r].at = "checked" /\ Current(r).kind = "WAIT_VISION_XY"
  /\ run' = [run EXCEPT ![r].at = "looking", ![r].pose = FALSE]
  /\ UNCHANGED <<moving, inbox, record, log, world, launches, history>>

Looked(r) ==
  /\ run[r].at = "looking"
  /\ Fail(r) \/ (run[r].pose /\ NextStep(r))
  /\ UNCHANGED <<moving, inbox, record, log, world, launches, history>>

\* _exec_visual_servo: a new controller, its loop, and a small relative motion
\* for each velocity it commands.
StartServo(r) ==
  /\ run[r].at = "checked" /\ Current(r).kind = "VISUAL_SERVO_XZ"
  /\ run' = [run EXCEPT ![r].at = "servo", ![r].servo = NewServo]
  /\ UNCHANGED <<moving, inbox, record, log, world, launches, history>>

\* The end of the loop, the E-stop, or an EE pose that cannot be had: out of
\* the loop; otherwise a tick.
ServoTick(r) ==
  /\ run[r].at = "servo"
  /\ IF is_terminal(run[r].servo)
     THEN IF run[r].servo.state = "DONE" THEN NextStep(r) ELSE Fail(r)
     ELSE \/ (run[r].estop \/ run[r].servo.state = "ALIGN") /\ Fail(r)
          \/ \E near \in BOOLEAN :
               run' = [run EXCEPT
                 ![r].servo = tick(@, run[r].estop, FALSE, run[r].handle, near),
                 ![r].at = IF commands(run[r].servo, run[r].estop, FALSE, run[r].handle, near)
                           THEN "nudge" ELSE @]
  /\ UNCHANGED <<moving, inbox, record, log, world, launches, history>>

\* A tick more than timeout_sec after the start.
ServoTimesOut(r) ==
  /\ run[r].at = "servo" /\ ~is_terminal(run[r].servo)
  /\ run' = [run EXCEPT ![r].servo = tick(@, run[r].estop, TRUE, run[r].handle, FALSE)]
  /\ UNCHANGED <<moving, inbox, record, log, world, launches, history>>

\* _movel_delta: 0.45 s for the answer; the arm stays about its waypoint.
Nudge(r) ==
  /\ run[r].at = "nudge"
  /\ Send(r, "servo") \/ Send(r, Failed(r))
  /\ UNCHANGED <<moving, inbox, record, log, world, launches, history>>

----------------------------------------------------------------------------
(* The ends of a run *)

\* The lines a failure leaves in the log: "sequence failed", or, after an E-stop
\* with the tool frame set, "way home left out".  The lamp (set_error of
\* plc_core/client.py) only writes another line, and the row for system_events is
\* of a type the store refuses, which is one more line.
LogFailure(r) ==
  log' = IF log = "manual" \/ (run[r].estop /\ run[r].step # 0) THEN "manual" ELSE "failed"

\* Mutant: the arm is not stopped before it is sent home.
OnFailureNoStop(r) ==
  /\ run[r].at = "failing"
  /\ LogFailure(r)
  /\ Disputes(r) /\ UNCHANGED <<raced, unstopped>>
  /\ run' = [run EXCEPT ![r] =
               IF run[r].step = 0 \/ run[r].estop THEN [@ EXCEPT !.at = "ending"]
               ELSE [@ EXCEPT !.at = "between", !.step = 1, !.homing = TRUE]]
  /\ UNCHANGED <<moving, inbox, record, launches, world>>

\* _on_sequence_failure, and what _run_once does after it.
OnFailure(r) ==
  /\ run[r].at = "failing"
  /\ \/ Halt /\ UNCHANGED unstopped
     \/ UNCHANGED world /\ unstopped' = (unstopped \/ inflight # Still)
  /\ LogFailure(r)
  /\ Disputes(r) /\ UNCHANGED raced
  /\ run' = [run EXCEPT ![r] =
               IF run[r].step = 0 \/ run[r].estop THEN [@ EXCEPT !.at = "ending"]
               ELSE [@ EXCEPT !.at = "between", !.step = 1, !.homing = TRUE]]
  /\ UNCHANGED <<moving, inbox, record, launches>>

\* update_drawer_state, or its failure: "the store disagrees, check by hand".
Record(r) ==
  /\ run[r].at = "recording"
  /\ \/ /\ record' = [record EXCEPT ![LayerOf(run[r].name)] = Opens(run[r].name)]
        /\ UNCHANGED history
     \/ Disputes(r) /\ UNCHANGED <<record, raced, unstopped>>
  /\ Go(r, "ending")
  /\ UNCHANGED <<moving, inbox, log, world, launches>>

\* Mutant: whether the way home succeeded is not looked at.
EndUnchecked(r) ==
  /\ run[r].at = "ending"
  /\ Publish(r, "no")
  /\ Exit(r)
  /\ UNCHANGED <<record, log, world, launches, history>>

\* A way home that failed leaves "manual intervention needed" in the log.
End(r) ==
  /\ run[r].at = "ending"
  /\ Publish(r, "no")
  /\ Exit(r)
  /\ log' = IF run[r].homing /\ run[r].step <= Len(home_seq) THEN "manual" ELSE log
  /\ UNCHANGED <<record, world, launches, history>>

\* The process is killed: nothing is published, a motion goes on.
Kill(r) ==
  /\ Live(r)
  /\ Exit(r)
  /\ inbox' = [inbox EXCEPT ![r] = {}]
  /\ IF run[r].at \in Active THEN Disputes(r) /\ unstopped' = TRUE /\ UNCHANGED raced
                             ELSE UNCHANGED history
  /\ UNCHANGED <<moving, record, log, world, launches>>

----------------------------------------------------------------------------
Work(r) ==
  \/ Begin(r) \/ GatePasses(r) \/ GateRefuses(r) \/ SkipOpenDrawer(r) \/ Announce(r)
  \/ SetTcp(r) \/ Check(r) \/ CallMove(r) \/ AimFails(r) \/ MoveArrives(r)
  \/ MoveFails(r) \/ CallGrip(r) \/ GripEnds(r) \/ StartLooking(r) \/ Looked(r)
  \/ StartServo(r) \/ ServoTick(r) \/ Nudge(r) \/ OnFailure(r) \/ Record(r) \/ End(r)

Next ==
  \/ OrphanArrives \/ PutInOrder
  \/ \E r \in Runners :
       \/ \E name \in Launchable : Launch(r, name)
       \/ \E q \in Runners : Hear(r, q)
       \/ ServiceMissing(r) \/ HearEStop(r) \/ SeeTool(r) \/ SeeHandle(r)
       \/ Work(r) \/ ServoTimesOut(r) \/ Kill(r)

\* Every wait of a process has a timeout; a servo loop looks at the clock in
\* every tick, so once its time is up the next tick ends it.
Fairness == \A r \in Runners : WF_vars(Work(r)) /\ SF_vars(ServoTimesOut(r))

Spec == Init /\ [][Next]_vars /\ Fairness

----------------------------------------------------------------------------
Idle == \A r \in Runners : ~Live(r)

\* The drawers table says where a drawer is, unless a run on that layer failed,
\* was killed or could not be recorded, a sequence that is not recorded moved
\* it, or two runners raced; while a run works on the layer the table may be
\* behind (toolbox_seq_runner.py:529).
RecordIsTrue ==
  \A l \in Layers \ disputed :
    (\A r \in Runners : run[r].at \in Active =>
        run[r].name \notin VisionDrawer \/ LayerOf(run[r].name) # l)
    => drawer[l] = IF record[l] THEN "open" ELSE "closed"

BelongsTo(place, waypoint) == waypoint.place = place

\* The arm never leaves a drawer with its handle in the gripper: on every path,
\* the failures' way home included, the gripper has let go before the arm moves
\* to a place of its own (toolbox_motion.py home_seq).
NeverDragsADrawer ==
  [][held' = held /\ held \in Handles /\ ~raced'
     => arm' \in {arm, Nowhere} \/ BelongsTo(held, arm')]_vars

\* Whenever the E-stop is heard, between a check and a call, while an answer is
\* waited for, in a servo loop or on the way home: at most the command about to
\* be sent still is (S-3, toolbox_seq_runner.py:669).
AtMostOneCommandAfterEStop == \A r \in Runners : run[r].late <= 1

\* The gripper is not moved while the arm is: a motion that timed out has been
\* stopped before the way home opens the gripper (toolbox_seq_runner.py:580),
\* if the controller acknowledged the stop.
GripsAtRest ==
  \A r \in Runners : run[r].at = "gripping" /\ inflight # Still => unstopped \/ raced

\* When all processes have ended, the robot is ready for the next one unless a
\* log says that the way home failed or was left out
\* (toolbox_seq_runner.py:549, 571); and where no log tells of a failure the tool
\* is in its slot or on the staging area: no path, the failures' way home
\* included, ends with the robot elsewhere, or the tool lost, and a log that
\* says less.  The log is all a failure leaves: see LogFailure.
QuietRunsLeaveOrder ==
  Idle /\ ~raced /\ ~unstopped
    => /\ log # "manual" => RobotReady
       /\ log = "clean" => tool \in {"slot", "staging"}

\* A process that was started ends, whatever fails and whatever is not answered.
RunsEnd == \A r \in Runners : run[r].at = "waiting" ~> ~Live(r)
=============================================================================

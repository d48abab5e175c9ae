-------------------------- MODULE ToolActionServer --------------------------
(***************************************************************************)
(* motion/tool_action_server.py: the actions place_at_staging,             *)
(* return_to_slot, place_on_hand and place_on_hand_test, the services      *)
(* home, open_toolbox and close_toolbox, and the E-stop with its reset.    *)
(*                                                                         *)
(* Every request is a callback of its own on a MultiThreadedExecutor; the  *)
(* non-blocking _action_lock lets one of them move the robot.  E-stop and  *)
(* reset run in their own group and never take that lock: they may fall    *)
(* between any two statements of a running sequence, in particular between *)
(* a step's check of the latch and the call that moves the arm.            *)
(*                                                                         *)
(* A sequence (unit_actions/toolbox_motion.py) is the order of its grips,  *)
(* with one "move" for the arm's motions and waits between two of them;    *)
(* "clamp" closes the gripper on the drawer's handle, "grip" on the tool.  *)
(***************************************************************************)
EXTENDS Integers, Sequences, FiniteSets

CONSTANTS
  Jobs,    \* requests handled at the same time (bounds the model)
  NoJob

ASSUME NamesAssumption == NoJob \notin Jobs

VARIABLES
  latch,      \* _estop_latch
  lock,       \* _action_lock: the job that holds it
  jobs,       \* per job: where its callback is
  gripTaken,  \* _grip_taken
  isMoving,   \* /robot/status: the last is_moving published
  plc,        \* /plc/system_state: the last value this node published
  held        \* whether the gripper really is closed on a tool

vars == <<latch, lock, jobs, gripTaken, isMoving, plc, held>>

----------------------------------------------------------------------------
Goals    == {"deliver", "handover", "handover_test"}   \* deliver: both ways
Services == {"home", "toolbox"}
Kinds    == Goals \cup Services
HandOver == {"handover", "handover_test"}

\* The grips of each sequence, and the moves between them.
Plan(kind) ==
  CASE kind = "deliver"       -> <<"release", "move", "clamp", "move", "release", "move",
                                   "grip", "move", "release", "move",
                                   "release", "move", "clamp", "move", "release", "move">>
    [] kind = "handover"      -> <<"move", "release", "move", "release", "move",
                                   "grip", "move", "release", "move">>
    [] kind = "handover_test" -> <<"move", "release">>
    [] kind = "home"          -> <<"release", "move">>
    [] kind = "toolbox"       -> <<"release", "move", "clamp", "move", "release", "move">>

\* A job holds the lock from "between" (two steps) to "releasing".
Running == {"between", "checked", "executing"}
Locked  == Running \cup {"ended", "closing", "releasing"}
Places  == {"free", "accepted"} \cup Locked

Rest == [at |-> "free", kind |-> "home", step |-> 1, ok |-> FALSE,
         cancelled |-> FALSE, disturbed |-> "no", late |-> 0]

Job == [at : Places, kind : Kinds, step : 1..17, ok : BOOLEAN,
        cancelled : BOOLEAN,
        disturbed : {"no", "reset", "stop"},  \* history: what came meanwhile
        late : Nat]  \* history: steps begun since an E-stop, while latched

TypeOK ==
  /\ latch \in BOOLEAN
  /\ lock \in Jobs \cup {NoJob}
  /\ jobs \in [Jobs -> Job]
  /\ gripTaken \in BOOLEAN
  /\ isMoving \in BOOLEAN
  /\ plc \in {"none", "idle", "moving", "error", "e_stop"}
  /\ held \in BOOLEAN

Init ==
  /\ latch = FALSE
  /\ lock = NoJob
  /\ jobs = [j \in Jobs |-> Rest]
  /\ gripTaken = FALSE
  /\ isMoving = FALSE
  /\ plc = "none"
  /\ held = FALSE

Go(j, place) == jobs' = [jobs EXCEPT ![j].at = place]

----------------------------------------------------------------------------
(* A request: accepted, then the lock *)

\* _goal_callback, or the first lines of a service.
Accept(j, kind) ==
  /\ jobs[j].at = "free"
  /\ ~latch
  /\ jobs' = [jobs EXCEPT ![j] = [Rest EXCEPT !.at = "accepted", !.kind = kind]]
  /\ UNCHANGED <<latch, lock, gripTaken, isMoving, plc, held>>

\* "Another motion in progress."
Busy(j) ==
  /\ jobs[j].at = "accepted"
  /\ lock # NoJob
  /\ jobs' = [jobs EXCEPT ![j] = Rest]
  /\ UNCHANGED <<latch, lock, gripTaken, isMoving, plc, held>>

\* place_on_hand_test takes it for granted that a tool is in the gripper.
Start(j) ==
  /\ jobs[j].at = "accepted"
  /\ lock = NoJob
  /\ lock' = j
  /\ isMoving' = TRUE
  /\ plc' = "moving"
  /\ gripTaken' = IF jobs[j].kind \in HandOver THEN jobs[j].kind = "handover_test"
                                               ELSE gripTaken
  /\ Go(j, "between")
  /\ UNCHANGED <<latch, held>>

\* A client of the action asks for its cancellation, which is always accepted.
Cancel(j) ==
  /\ jobs[j].at \in Running \cup {"accepted"}
  /\ jobs[j].kind \in Goals
  /\ jobs' = [jobs EXCEPT ![j].cancelled = TRUE]
  /\ UNCHANGED <<latch, lock, gripTaken, isMoving, plc, held>>

----------------------------------------------------------------------------
(* _run_sequence and _run_sequence_handover *)

StepsLeft(j) == jobs[j].step <= Len(Plan(jobs[j].kind))

\* Mutant: only a cancellation is looked at between two steps.
CheckCancelOnly(j) ==
  /\ jobs[j].at = "between"
  /\ IF ~StepsLeft(j)
     THEN jobs' = [jobs EXCEPT ![j].at = "ended", ![j].ok = TRUE]
     ELSE Go(j, IF jobs[j].cancelled THEN "ended" ELSE "checked")
  /\ UNCHANGED <<latch, lock, gripTaken, isMoving, plc, held>>

\* The head of the loop.
Check(j) ==
  /\ jobs[j].at = "between"
  /\ IF ~StepsLeft(j)
     THEN jobs' = [jobs EXCEPT ![j].at = "ended", ![j].ok = TRUE]
     ELSE Go(j, IF latch \/ jobs[j].cancelled THEN "ended" ELSE "checked")
  /\ UNCHANGED <<latch, lock, gripTaken, isMoving, plc, held>>

\* _exec_step sends its request.
BeginStep(j) ==
  /\ jobs[j].at = "checked"
  /\ jobs' = [jobs EXCEPT ![j].at = "executing",
                          ![j].late = IF latch THEN @ + 1 ELSE @]
  /\ UNCHANGED <<latch, lock, gripTaken, isMoving, plc, held>>

\* The answer is a success.
StepSucceeds(j) ==
  /\ jobs[j].at = "executing"
  /\ LET step == Plan(jobs[j].kind)[jobs[j].step] IN
       /\ held' = CASE step = "grip" -> TRUE
                    [] step = "release" -> FALSE
                    [] OTHER -> held
       /\ gripTaken' = IF jobs[j].kind \in HandOver /\ step # "move"
                       THEN step = "grip" ELSE gripTaken
  /\ jobs' = [jobs EXCEPT ![j].at = "between", ![j].step = @ + 1]
  /\ UNCHANGED <<latch, lock, isMoving, plc>>

\* What the gripper holds when the step in progress did not succeed: a grip
\* or a release whose answer is a failure, or never came, may have moved it.
HeldAfterFailure(j) ==
  IF jobs[j].at # "executing" THEN {held}
  ELSE CASE Plan(jobs[j].kind)[jobs[j].step] = "grip" -> {held, TRUE}
         [] Plan(jobs[j].kind)[jobs[j].step] = "release" -> {held, FALSE}
         [] OTHER -> {held}

\* Mutant: the result of a step is not looked at.
StepFailureIgnored(j) ==
  /\ jobs[j].at = "executing"
  /\ held' \in HeldAfterFailure(j)
  /\ jobs' = [jobs EXCEPT ![j].at = "between", ![j].step = @ + 1]
  /\ UNCHANGED <<latch, lock, gripTaken, isMoving, plc>>

\* Refused, failed, no answer in time, or a wait that saw the latch.
StepFails(j) ==
  /\ jobs[j].at = "executing"
  /\ held' \in HeldAfterFailure(j)
  /\ Go(j, "ended")
  /\ UNCHANGED <<latch, lock, gripTaken, isMoving, plc>>

----------------------------------------------------------------------------
(* The end of a request *)

\* Mutant: the lock is given back before is_moving goes down.
CloseUnlocked(j) ==
  /\ jobs[j].at = "ended"
  /\ lock' = NoJob
  /\ Go(j, "closing")
  /\ UNCHANGED <<latch, gripTaken, isMoving, plc, held>>

\* succeed / canceled / abort and the lamp, which a cancelled goal leaves alone.
Report(j) ==
  /\ jobs[j].at = "ended"
  /\ plc' = CASE jobs[j].cancelled -> plc
              [] jobs[j].ok /\ ~jobs[j].cancelled -> "idle"
              [] OTHER -> "error"
  /\ Go(j, "closing")
  /\ UNCHANGED <<latch, lock, gripTaken, isMoving, held>>

\* An exception anywhere in the body; only _on_home does not touch the lamp.
Raise(j) ==
  /\ jobs[j].at \in Running
  /\ plc' = IF jobs[j].kind = "home" THEN plc ELSE "error"
  /\ held' \in HeldAfterFailure(j)
  /\ Go(j, "closing")
  /\ UNCHANGED <<latch, lock, gripTaken, isMoving>>

\* The finally block.  A hand-over that ends with the tool still taken does
\* not announce the end of the motion.
Close(j) ==
  /\ jobs[j].at = "closing"
  /\ IF jobs[j].kind \in HandOver /\ gripTaken
     THEN plc' = "error" /\ UNCHANGED isMoving
     ELSE isMoving' = FALSE /\ UNCHANGED plc
  /\ gripTaken' = (gripTaken /\ jobs[j].kind \notin HandOver)
  /\ Go(j, "releasing")
  /\ UNCHANGED <<latch, lock, held>>

\* Mutant: returning early, the hand-over that kept the tool keeps the lock.
ReleaseUnlessHeld(j) ==
  /\ jobs[j].at = "releasing"
  /\ ~isMoving
  /\ lock' = NoJob
  /\ jobs' = [jobs EXCEPT ![j] = Rest]
  /\ UNCHANGED <<latch, gripTaken, isMoving, plc, held>>

Release(j) ==
  /\ jobs[j].at = "releasing"
  /\ lock' = NoJob
  /\ jobs' = [jobs EXCEPT ![j] = Rest]
  /\ UNCHANGED <<latch, gripTaken, isMoving, plc, held>>

----------------------------------------------------------------------------
(* E-stop *)

\* Whatever runs has been disturbed, and its late steps are counted afresh.
Disturbed(by) ==
  [j \in Jobs |-> IF jobs[j].at \notin Locked THEN jobs[j]
                  ELSE [jobs[j] EXCEPT !.late = 0,
                          !.disturbed = IF @ = "stop" THEN @ ELSE by]]

\* Mutant: a lamp plc_node does not know.
EStopMisspelt ==
  /\ latch' = TRUE
  /\ isMoving' = FALSE
  /\ plc' = "estop"
  /\ jobs' = Disturbed("stop")
  /\ UNCHANGED <<lock, gripTaken, held>>

\* move_stop is sent and not waited for.
EStop ==
  /\ latch' = TRUE
  /\ isMoving' = FALSE
  /\ plc' = "e_stop"
  /\ jobs' = Disturbed("stop")
  /\ UNCHANGED <<lock, gripTaken, held>>

\* Nothing asks whether the sequence that was stopped has ended.
EStopReset ==
  /\ latch' = FALSE
  /\ gripTaken' = FALSE
  /\ IF gripTaken THEN plc' = "error" /\ UNCHANGED isMoving
                  ELSE plc' = "idle" /\ isMoving' = FALSE
  /\ jobs' = Disturbed("reset")
  /\ UNCHANGED <<lock, held>>

----------------------------------------------------------------------------
JobStep(j) ==
  \/ Busy(j) \/ Start(j)
  \/ Check(j) \/ BeginStep(j) \/ StepSucceeds(j) \/ StepFails(j)
  \/ Report(j) \/ Raise(j) \/ Close(j) \/ Release(j)

Next ==
  \/ \E j \in Jobs, kind \in Kinds : Accept(j, kind)
  \/ \E j \in Jobs : Cancel(j) \/ JobStep(j)
  \/ EStop \/ EStopReset

Spec == Init /\ [][Next]_vars

\* Every wait of a step has a timeout, and the executor runs every callback.
Fairness == \A j \in Jobs : WF_vars(JobStep(j))

FairSpec == Spec /\ Fairness

----------------------------------------------------------------------------
(* Properties *)

\* The announcement other nodes rely on: while a sequence that no operator
\* interfered with is running, the last is_moving published is TRUE, whatever
\* other request begins, is refused or ends around it.
AnnouncedWhileRunning ==
  \A j \in Jobs : jobs[j].at \in Running /\ jobs[j].disturbed = "no" => isMoving

\* The E-stop is never more than one step late: a sequence that has passed its
\* check may begin that one step after the stop was sent, and no other until
\* an operator resets the latch.
AtMostOneStepLate == \A j \in Jobs : jobs[j].late <= 1

\* A sequence that ends with success has left the gripper empty, and knows it,
\* whatever step of an earlier request failed with the tool half gripped.
SuccessMeansEmptyHanded ==
  \A j \in Jobs : jobs[j].at = "ended" /\ jobs[j].ok => ~held /\ ~gripTaken

\* Every request ends and gives the lock back, whatever fails.
JobsEnd == \A j \in Jobs : jobs[j].at # "free" ~> jobs[j].at = "free"
=============================================================================

-------------------------- MODULE VisualServoing ---------------------------
(***************************************************************************)
(* unit_actions/visual_servoing.py: the controllers that align the gripper *)
(* with a drawer's handle (XZ) and with a tool (XY).  They differ in the   *)
(* axes only: DETECT waits for enough valid poses in a row, ALIGN commands *)
(* velocities until the error is below the threshold, DONE and ERROR end.  *)
(*                                                                         *)
(* The pose a controller reads is the caller's cached one: "valid" tells   *)
(* whether one was ever received.  Errors and gains are abstracted to      *)
(* whether the gripper is near enough.                                     *)
(***************************************************************************)
EXTENDS Naturals

CONSTANT StableFrames   \* detect_stable_frames

ASSUME StableFramesAssumption == StableFrames \in Nat \ {0}

ServoStates == {"DETECT", "ALIGN", "DONE", "ERROR"}
Servo == [state : ServoStates, stable : 0..StableFrames]

NewServo == [state |-> "DETECT", stable |-> 0]

is_terminal(s) == s.state \in {"DONE", "ERROR"}

ToError(s) == [s EXCEPT !.state = "ERROR"]

tick_detect(s, valid) ==
  IF ~valid THEN [s EXCEPT !.stable = 0]
  ELSE IF s.stable + 1 >= StableFrames
       THEN [state |-> "ALIGN", stable |-> StableFrames]
       ELSE [s EXCEPT !.stable = @ + 1]

tick_align(s, valid, near) ==
  IF ~valid THEN NewServo
  ELSE IF near THEN [s EXCEPT !.state = "DONE"] ELSE s

\* Mutant: the time is not looked at.
tick_no_clock(s, estop, late, valid, near) ==
  IF estop THEN ToError(s)
  ELSE IF s.state = "DETECT" THEN tick_detect(s, valid)
  ELSE IF s.state = "ALIGN" THEN tick_align(s, valid, near)
  ELSE s

\* The state after a tick; the E-stop is looked at first, then the time.
tick(s, estop, late, valid, near) ==
  IF estop \/ late THEN ToError(s)
  ELSE IF s.state = "DETECT" THEN tick_detect(s, valid)
  ELSE IF s.state = "ALIGN" THEN tick_align(s, valid, near)
  ELSE s

\* Whether that tick commands a velocity.
commands(s, estop, late, valid, near) ==
  ~estop /\ ~late /\ s.state = "ALIGN" /\ valid /\ ~near
=============================================================================

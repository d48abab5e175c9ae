------------------------ MODULE SequenceRunnerProofs ------------------------
(***************************************************************************)
(* What holds of toolbox_seq_runner.py for any number of processes, any    *)
(* number of launches and any setting of the servo loop.                   *)
(*                                                                         *)
(* The first part takes the sequences as they come: a process that has     *)
(* heard the E-stop sends at most the command it was about to send, and no *)
(* gripper is moved while the arm is.                                      *)
(*                                                                         *)
(* The second part looks into the sequences of toolbox_motion.py (Shape)   *)
(* and follows one through its steps (OnCourse): what the gripper holds    *)
(* and where the arm is, step by step.  On it rest that no drawer is       *)
(* dragged, that quiet runs leave the robot and the tool in order, and,    *)
(* with the course of the one drawer a sequence works on (LineOK), that    *)
(* the drawers table is true.                                              *)
(***************************************************************************)
EXTENDS SequenceRunner, TLAPS

RunOK == run \in [Runners -> Run]

FlagsOK == raced \in BOOLEAN /\ unstopped \in BOOLEAN

\* What a process has sent since it heard the E-stop, if anything, was the one
\* command: it is not about to send another.
SpentOnce(x) ==
  /\ x.late \in {0, 1}
  /\ x.late = 1 => x.estop /\ x.at \notin {"checked", "nudge"}

Spent == \A r \in Runners : SpentOnce(run[r])

\* Without a race one process at most is past the S-7 check.
Alone == raced \/ \A p, q \in Runners :
                    run[p].at \in Admitted /\ run[q].at \in Admitted => p = q

\* The places of a process in which the motion it asked for may be under way.
Riding == {"calling", "failing", "ending"}

Rest == \/ unstopped \/ raced \/ inflight = Still
        \/ \A r \in Runners : run[r].at \in Admitted => run[r].at \in Riding

IInv == RunOK /\ FlagsOK /\ Spent /\ Alone /\ Rest

----------------------------------------------------------------------------
LEMMA InitIInv == Init => IInv
<1> SUFFICES ASSUME Init PROVE IInv
  OBVIOUS
<1>1. Off \in Run
  BY StableFramesAssumption
  DEF Off, Run, Places, Admitted, Active, Executing, SeqNames, NewServo, Servo, ServoStates
<1>2. RunOK
  BY <1>1 DEF Init, RunOK
<1>3. FlagsOK
  BY DEF Init, FlagsOK
<1>4. Spent
  BY DEF Init, Spent, SpentOnce, Off
<1>5. Alone
  BY DEF Init, Alone, Off, Admitted, Active, Executing
<1>6. Rest
  BY DEF Init, Rest
<1> QED
  BY <1>2, <1>3, <1>4, <1>5, <1>6 DEF IInv

\* Process r goes on as x: it has not come past the S-7 check with this step,
\* and if a motion stays under way and was r's, it still is.
LEMMA GoesOn ==
  ASSUME IInv, NEW r \in Runners, NEW x \in Run,
         run' = [run EXCEPT ![r] = x],
         SpentOnce(x),
         x.at \in Admitted => run[r].at \in Admitted,
         raced' = raced, unstopped' \in BOOLEAN, unstopped => unstopped',
         \/ inflight' = Still \/ unstopped'
         \/ /\ inflight' = inflight
            /\ run[r].at \in Riding /\ x.at \in Admitted => x.at \in Riding
  PROVE  IInv'
<1>1. RunOK'
  BY DEF IInv, RunOK
<1>2. run'[r] = x /\ \A q \in Runners \ {r} : run'[q] = run[q]
  BY DEF IInv, RunOK
<1>3. FlagsOK'
  BY DEF IInv, FlagsOK
<1>4. Spent'
  BY <1>2 DEF IInv, Spent, SpentOnce
<1>5. Alone'
  BY <1>2 DEF IInv, Alone
<1>6. Rest'
  <2>1. CASE inflight' = Still \/ unstopped' \/ raced
    BY <2>1 DEF Rest
  <2>2. CASE inflight = Still /\ inflight' = inflight
    BY <2>2 DEF Rest
  <2>3. CASE inflight # Still /\ inflight' = inflight /\ ~unstopped' /\ ~raced
    <3>1. \A q \in Runners : run[q].at \in Admitted => run[q].at \in Riding
      BY <2>3 DEF IInv, Rest
    <3>2. x.at \in Admitted => x.at \in Riding
      BY <2>3, <3>1
    <3> QED
      BY <1>2, <3>1, <3>2 DEF Rest
  <2> QED
    BY <2>1, <2>2, <2>3
<1> QED
  BY <1>1, <1>3, <1>4, <1>5, <1>6 DEF IInv

\* The same, for a step that gives r another place and nothing else that
\* matters here.
LEMMA GoesTo ==
  ASSUME IInv, NEW r \in Runners, NEW place \in Places, Go(r, place),
         run[r].at \in Admitted,
         run[r].late = 1 => place \notin {"checked", "nudge"},
         run[r].at \in Riding => place \in Riding \/ place \notin Admitted,
         raced' = raced, unstopped' \in BOOLEAN, unstopped => unstopped',
         inflight' \in {Still, inflight}
  PROVE  IInv'
<1> DEFINE x == [run[r] EXCEPT !.at = place]
<1>1. run[r] \in Run /\ SpentOnce(run[r])
  BY DEF IInv, RunOK, Spent
<1>2. x \in Run
  BY <1>1 DEF Run
<1>3. x.at = place /\ x.late = run[r].late /\ x.estop = run[r].estop
  BY <1>1 DEF Run
<1>4. SpentOnce(x)
  BY <1>1, <1>3 DEF SpentOnce
<1>5. run' = [run EXCEPT ![r] = x]
  BY DEF Go
<1> HIDE DEF x
<1> QED
  BY <1>2, <1>3, <1>4, <1>5, GoesOn

LEMMA ExitKeeps ==
  ASSUME IInv, NEW r \in Runners, Exit(r),
         raced' = raced, unstopped' \in BOOLEAN, unstopped => unstopped',
         inflight' = inflight
  PROVE  IInv'
<1>1. Off \in Run
  BY StableFramesAssumption
  DEF Off, Run, Places, Admitted, Active, Executing, SeqNames, NewServo, Servo, ServoStates
<1>2. SpentOnce(Off) /\ Off.at \notin Admitted
  BY DEF SpentOnce, Off, Admitted, Active, Executing
<1>3. run' = [run EXCEPT ![r] = Off]
  BY DEF Exit
<1> QED
  BY <1>1, <1>2, <1>3, GoesOn

\* A step that moves no process.
LEMMA StandsStill ==
  ASSUME IInv, run' = run, raced' = raced, unstopped' = unstopped,
         inflight' \in {Still, inflight}
  PROVE  IInv'
<1>1. RunOK' /\ FlagsOK' /\ Spent' /\ Alone'
  BY DEF IInv, RunOK, FlagsOK, Spent, SpentOnce, Alone
<1>2. Rest'
  BY DEF IInv, Rest
<1> QED
  BY <1>1, <1>2 DEF IInv

LEMMA NextStepKeeps ==
  ASSUME IInv, NEW r \in Runners, NextStep(r), run[r].at \in Executing,
         raced' = raced, unstopped' = unstopped,
         \/ inflight' = Still
         \/ inflight' = inflight /\ run[r].at # "calling"
  PROVE  IInv'
<1> DEFINE x == [run[r] EXCEPT !.at = "between", !.step = @ + 1]
<1>1. run[r] \in Run /\ SpentOnce(run[r])
  BY DEF IInv, RunOK, Spent
<1>2. x \in Run
  <2>1. "between" \in Places
    BY DEF Places, Admitted, Active, Executing
  <2>2. run[r].step + 1 \in Nat
    BY <1>1 DEF Run
  <2>3. \A n \in Nat, place \in Places :
          [run[r] EXCEPT !.at = place, !.step = n] \in Run
    BY <1>1 DEF Run
  <2> QED
    BY <2>1, <2>2, <2>3
<1>3. x.at = "between" /\ x.late = run[r].late /\ x.estop = run[r].estop
  BY <1>1 DEF Run
<1>4. SpentOnce(x)
  BY <1>1, <1>3 DEF SpentOnce
<1>5. run' = [run EXCEPT ![r] = x]
  BY DEF NextStep
<1>6. run[r].at \in Admitted /\ (run[r].at # "calling" => run[r].at \notin Riding)
  BY DEF Admitted, Active, Executing, Riding
<1>7. unstopped' \in BOOLEAN
  BY DEF IInv, FlagsOK
<1> HIDE DEF x
<1> QED
  BY <1>2, <1>3, <1>4, <1>5, <1>6, <1>7, GoesOn

\* A step fails; the motion it may leave under way is r's still.
LEMMA FailKeeps ==
  ASSUME IInv, NEW r \in Runners, Fail(r), run[r].at \in Executing,
         raced' = raced, unstopped' = unstopped, inflight' \in {Still, inflight}
  PROVE  IInv'
<1>1. Failed(r) \in Places /\ Failed(r) \in Riding
  BY DEF Failed, Places, Admitted, Active, Riding
<1>2. run[r].at \in Admitted
  BY DEF Admitted, Active
<1>3. Failed(r) \notin {"checked", "nudge"}
  BY DEF Failed
<1>4. unstopped' \in BOOLEAN
  BY DEF IInv, FlagsOK
<1> QED
  BY <1>1, <1>2, <1>3, <1>4, GoesTo DEF Fail

\* The command leaves: only from "checked" and "nudge", which a process that
\* has spent its command no longer reaches.
LEMMA SendTypes ==
  ASSUME IInv, NEW r \in Runners, NEW place \in Places, Send(r, place),
         run[r].at \in {"checked", "nudge"}, place \notin {"checked", "nudge"}
  PROVE  \E x \in Run : /\ run' = [run EXCEPT ![r] = x]
                        /\ x.at = place /\ SpentOnce(x)
<1> DEFINE n == IF run[r].estop THEN run[r].late + 1 ELSE run[r].late
           x == [run[r] EXCEPT !.at = place, !.late = n]
<1>1. run[r] \in Run /\ SpentOnce(run[r])
  BY DEF IInv, RunOK, Spent
<1>2. run[r].late = 0
  BY <1>1 DEF SpentOnce
<1>3. n \in {0, 1} /\ (n = 1 => run[r].estop)
  BY <1>2
<1>4. x \in Run
  <2>1. \A k \in Nat : [run[r] EXCEPT !.at = place, !.late = k] \in Run
    BY <1>1 DEF Run
  <2> QED
    BY <1>3, <2>1
<1>5. x.at = place /\ x.late = n /\ x.estop = run[r].estop
  BY <1>1 DEF Run
<1>6. SpentOnce(x)
  BY <1>3, <1>5 DEF SpentOnce
<1>7. run' = [run EXCEPT ![r] = x]
  BY DEF Send
<1> QED
  BY <1>4, <1>5, <1>6, <1>7

LEMMA SendKeeps ==
  ASSUME IInv, NEW r \in Runners, NEW place \in Places, Send(r, place),
         run[r].at \in {"checked", "nudge"}, place \notin {"checked", "nudge"},
         raced' = raced, unstopped' = unstopped, inflight' = inflight
  PROVE  IInv'
<1>1. PICK x \in Run : run' = [run EXCEPT ![r] = x] /\ x.at = place /\ SpentOnce(x)
  BY SendTypes
<1>2. run[r].at \in Admitted /\ run[r].at \notin Riding
  BY DEF Admitted, Active, Executing, Riding
<1>3. unstopped' \in BOOLEAN
  BY DEF IInv, FlagsOK
<1> QED
  BY <1>1, <1>2, <1>3, GoesOn

----------------------------------------------------------------------------
(* Starting a process, and the topics *)

LEMMA LaunchKeeps ==
  ASSUME IInv, NEW r \in Runners, NEW name \in Launchable, Launch(r, name)
  PROVE  IInv'
<1> DEFINE x == [Off EXCEPT !.at = "waiting", !.name = name]
<1>1. Off \in Run
  BY StableFramesAssumption
  DEF Off, Run, Places, Admitted, Active, Executing, SeqNames, NewServo, Servo, ServoStates
<1>2. x \in Run
  <2>1. "waiting" \in Places /\ name \in SeqNames \cup {"unknown"}
    BY LaunchableAssumption DEF Places
  <2>2. \A place \in Places, n \in SeqNames \cup {"unknown"} :
          [Off EXCEPT !.at = place, !.name = n] \in Run
    BY <1>1 DEF Run
  <2> QED
    BY <2>1, <2>2
<1>3. x.at = "waiting" /\ x.late = 0
  BY DEF Off
<1>4. SpentOnce(x) /\ x.at \notin Admitted
  BY <1>3 DEF SpentOnce, Admitted, Active, Executing
<1>5. run' = [run EXCEPT ![r] = x]
  BY DEF Launch
<1>6. inflight' = inflight /\ raced' = raced /\ unstopped' = unstopped
  BY DEF Launch, world, history
<1>7. unstopped' \in BOOLEAN
  BY <1>6 DEF IInv, FlagsOK
<1> HIDE DEF x
<1> QED
  BY <1>2, <1>4, <1>5, <1>6, <1>7, GoesOn

\* A message arrives: places and late commands stay.
LEMMA HearsKeeps ==
  ASSUME IInv, NEW r \in Runners, NEW x \in Run,
         run' = [run EXCEPT ![r] = x],
         x.at = run[r].at, x.late = run[r].late, run[r].estop => x.estop,
         raced' = raced, unstopped' = unstopped, inflight' \in {Still, inflight}
  PROVE  IInv'
<1>1. SpentOnce(x)
  BY DEF IInv, Spent, SpentOnce
<1>2. unstopped' \in BOOLEAN
  BY DEF IInv, FlagsOK
<1> QED
  BY <1>1, <1>2, GoesOn

LEMMA HearKeeps ==
  ASSUME IInv, NEW r \in Runners, NEW q \in Runners, Hear(r, q)
  PROVE  IInv'
<1> DEFINE x == [run[r] EXCEPT !.heard = (moving[q] = "yes")]
<1>1. run[r] \in Run
  BY DEF IInv, RunOK
<1>2. x \in Run /\ x.at = run[r].at /\ x.late = run[r].late /\ x.estop = run[r].estop
  BY <1>1 DEF Run
<1>3. run' = [run EXCEPT ![r] = x]
  BY DEF Hear
<1>4. inflight' = inflight /\ raced' = raced /\ unstopped' = unstopped
  BY DEF Hear, world, history
<1> HIDE DEF x
<1> QED
  BY <1>2, <1>3, <1>4, HearsKeeps

LEMMA HearEStopKeeps ==
  ASSUME IInv, NEW r \in Runners, HearEStop(r)
  PROVE  IInv'
<1> DEFINE x == [run[r] EXCEPT !.estop = TRUE]
<1>1. run[r] \in Run
  BY DEF IInv, RunOK
<1>2. x \in Run /\ x.at = run[r].at /\ x.late = run[r].late /\ x.estop
  BY <1>1 DEF Run
<1>3. run' = [run EXCEPT ![r] = x]
  BY DEF HearEStop
<1>4. inflight' \in {Still, inflight} /\ raced' = raced /\ unstopped' = unstopped
  BY DEF HearEStop, Halt, world, history
<1> HIDE DEF x
<1> QED
  BY <1>2, <1>3, <1>4, HearsKeeps

LEMMA SeeToolKeeps ==
  ASSUME IInv, NEW r \in Runners, SeeTool(r)
  PROVE  IInv'
<1> DEFINE x == [run[r] EXCEPT !.pose = TRUE]
<1>1. run[r] \in Run
  BY DEF IInv, RunOK
<1>2. x \in Run /\ x.at = run[r].at /\ x.late = run[r].late /\ x.estop = run[r].estop
  BY <1>1 DEF Run
<1>3. run' = [run EXCEPT ![r] = x]
  BY DEF SeeTool
<1>4. inflight' = inflight /\ raced' = raced /\ unstopped' = unstopped
  BY DEF SeeTool, world, history
<1> HIDE DEF x
<1> QED
  BY <1>2, <1>3, <1>4, HearsKeeps

LEMMA SeeHandleKeeps ==
  ASSUME IInv, NEW r \in Runners, SeeHandle(r)
  PROVE  IInv'
<1> DEFINE x == [run[r] EXCEPT !.handle = TRUE]
<1>1. run[r] \in Run
  BY DEF IInv, RunOK
<1>2. x \in Run /\ x.at = run[r].at /\ x.late = run[r].late /\ x.estop = run[r].estop
  BY <1>1 DEF Run
<1>3. run' = [run EXCEPT ![r] = x]
  BY DEF SeeHandle
<1>4. inflight' = inflight /\ raced' = raced /\ unstopped' = unstopped
  BY DEF SeeHandle, world, history
<1> HIDE DEF x
<1> QED
  BY <1>2, <1>3, <1>4, HearsKeeps

----------------------------------------------------------------------------
(* The checks, the steps and the ends *)

\* The only step past the S-7 check: it is a race unless nobody else is past
\* it and nothing moves.
LEMMA BeginKeeps ==
  ASSUME IInv, NEW r \in Runners, Begin(r)
  PROVE  IInv'
<1>1. inflight' = inflight /\ unstopped' = unstopped
  BY DEF Begin, world, history
<1>2. unstopped' \in BOOLEAN
  BY <1>1 DEF IInv, FlagsOK
<1>3. CASE Exit(r) /\ raced' = raced
  BY <1>1, <1>2, <1>3, ExitKeeps
<1>4. CASE Race(r) /\ \E place \in {"gate", "announce"} : Go(r, place)
  <2>1. PICK place \in {"gate", "announce"} : Go(r, place)
    BY <1>4
  <2> DEFINE x == [run[r] EXCEPT !.at = place]
  <2>2. run[r] \in Run /\ SpentOnce(run[r])
    BY DEF IInv, RunOK, Spent
  <2>3. place \in Places
    BY DEF Places, Admitted
  <2>4. x \in Run /\ x.at = place /\ x.late = run[r].late /\ x.estop = run[r].estop
    BY <2>2, <2>3 DEF Run
  <2>5. SpentOnce(x)
    BY <2>2, <2>4 DEF SpentOnce
  <2>6. run' = [run EXCEPT ![r] = x]
    BY <2>1 DEF Go
  <2> HIDE DEF x
  <2>7. run'[r] = x /\ \A q \in Runners \ {r} : run'[q] = run[q]
    BY <2>6 DEF IInv, RunOK
  <2>8. RunOK'
    BY <2>4, <2>6 DEF IInv, RunOK
  <2>9. FlagsOK'
    BY <1>2, <1>4 DEF Race, IInv, FlagsOK
  <2>10. Spent'
    BY <2>5, <2>7 DEF IInv, Spent, SpentOnce
  <2>11. \/ raced'
         \/ inflight = Still /\ \A q \in Runners \ {r} : run[q].at \notin Admitted
    BY <1>4 DEF Race, RobotReady
  <2>12. Alone' /\ Rest'
    BY <1>1, <2>7, <2>11 DEF Alone, Rest
  <2> QED
    BY <2>8, <2>9, <2>10, <2>12 DEF IInv
<1>5. \/ Exit(r) /\ raced' = raced
      \/ Race(r) /\ \E place \in {"gate", "announce"} : Go(r, place)
  BY DEF Begin, history
<1> QED
  BY <1>3, <1>4, <1>5

\* The process leaves without having moved the robot, or moves it no more.
LEMMA LeavesKeeps ==
  ASSUME IInv, NEW r \in Runners,
         ServiceMissing(r) \/ GateRefuses(r) \/ SkipOpenDrawer(r) \/ End(r)
  PROVE  IInv'
<1>1. Exit(r) /\ inflight' = inflight /\ raced' = raced /\ unstopped' = unstopped
  BY DEF ServiceMissing, GateRefuses, SkipOpenDrawer, End, world, history
<1>2. unstopped' \in BOOLEAN
  BY <1>1 DEF IInv, FlagsOK
<1> QED
  BY <1>1, <1>2, ExitKeeps

LEMMA KillKeeps ==
  ASSUME IInv, NEW r \in Runners, Kill(r)
  PROVE  IInv'
<1>1. Exit(r) /\ inflight' = inflight /\ raced' = raced
  BY DEF Kill, world, history
<1>2. unstopped' = TRUE \/ unstopped' = unstopped
  BY DEF Kill, history
<1>3. unstopped' \in BOOLEAN /\ (unstopped => unstopped')
  BY <1>2 DEF IInv, FlagsOK
<1> QED
  BY <1>1, <1>3, ExitKeeps

\* The steps that only go on to another place.
LEMMA PlainKeeps ==
  ASSUME IInv, NEW r \in Runners, GatePasses(r) \/ Announce(r) \/ Record(r)
  PROVE  IInv'
<1>1. inflight' = inflight /\ raced' = raced /\ unstopped' = unstopped
  BY DEF GatePasses, Announce, Record, world, history
<1>2. unstopped' \in BOOLEAN
  BY <1>1 DEF IInv, FlagsOK
<1>3. PICK place \in {"announce", "tcp", "ending"} : Go(r, place)
  BY DEF GatePasses, Announce, Record
<1>4. run[r].at \in {"gate", "announce", "recording"}
  BY DEF GatePasses, Announce, Record
<1>5. run[r].at \in Admitted /\ run[r].at \notin Riding /\ place \in Places
  BY <1>4 DEF Places, Admitted, Active, Riding
<1> QED
  BY <1>1, <1>2, <1>3, <1>5, GoesTo

LEMMA SetTcpKeeps ==
  ASSUME IInv, NEW r \in Runners, SetTcp(r)
  PROVE  IInv'
<1>1. inflight' = inflight /\ raced' = raced /\ unstopped' = unstopped
  BY DEF SetTcp, world, history
<1>2. unstopped' \in BOOLEAN
  BY <1>1 DEF IInv, FlagsOK
<1>3. run[r].at \in Admitted /\ run[r].at \notin Riding
  BY DEF SetTcp, Admitted, Active, Riding
<1>4. CASE Go(r, "between")
  <2>1. "between" \in Places
    BY DEF Places, Admitted, Active, Executing
  <2> QED
    BY <1>1, <1>2, <1>3, <1>4, <2>1, GoesTo
<1>5. CASE run' = [run EXCEPT ![r].at = "failing", ![r].step = 0]
  <2> DEFINE x == [run[r] EXCEPT !.at = "failing", !.step = 0]
  <2>1. run[r] \in Run /\ SpentOnce(run[r])
    BY DEF IInv, RunOK, Spent
  <2>2. "failing" \in Places /\ 0 \in Nat
    BY DEF Places, Admitted, Active
  <2>3. x \in Run /\ x.at = "failing" /\ x.late = run[r].late /\ x.estop = run[r].estop
    BY <2>1, <2>2 DEF Run
  <2>4. SpentOnce(x)
    BY <2>1, <2>3 DEF SpentOnce
  <2>5. run' = [run EXCEPT ![r] = x]
    BY <1>5
  <2> HIDE DEF x
  <2> QED
    BY <1>1, <1>2, <1>3, <2>3, <2>4, <2>5, GoesOn
<1> QED
  BY <1>4, <1>5 DEF SetTcp

\* The check in front of a step: with the E-stop heard no command is prepared.
LEMMA CheckKeeps ==
  ASSUME IInv, NEW r \in Runners, Check(r)
  PROVE  IInv'
<1>1. inflight' = inflight /\ raced' = raced /\ unstopped' = unstopped
  BY DEF Check, world, history
<1>2. unstopped' \in BOOLEAN
  BY <1>1 DEF IInv, FlagsOK
<1>3. run[r].at = "between"
  BY DEF Check
<1>4. CASE Fail(r)
  <2>1. run[r].at \in Executing
    BY <1>3 DEF Executing
  <2> QED
    BY <1>1, <1>4, <2>1, FailKeeps
<1>5. CASE Go(r, "checked") /\ ~run[r].estop
  <2>1. run[r].late # 1
    BY <1>5 DEF IInv, Spent, SpentOnce
  <2>2. "checked" \in Places /\ run[r].at \in Admitted /\ run[r].at \notin Riding
    BY <1>3 DEF Places, Admitted, Active, Executing, Riding
  <2> QED
    BY <1>1, <1>2, <1>5, <2>1, <2>2, GoesTo
<1>6. CASE \E place \in {"ending", "recording"} : Go(r, place)
  <2>1. PICK place \in {"ending", "recording"} : Go(r, place)
    BY <1>6
  <2>2. place \in Places /\ run[r].at \in Admitted /\ run[r].at \notin Riding
    BY <1>3 DEF Places, Admitted, Active, Executing, Riding
  <2> QED
    BY <1>1, <1>2, <2>1, <2>2, GoesTo
<1> QED
  BY <1>4, <1>5, <1>6 DEF Check

\* Nothing moves when a motion is asked for: r was the only process past the
\* S-7 check, and not waiting for a motion.
LEMMA CallMoveKeeps ==
  ASSUME IInv, NEW r \in Runners, CallMove(r)
  PROVE  IInv'
<1>1. raced' = raced /\ unstopped' = unstopped
  BY DEF CallMove, history
<1>2. run[r].at = "checked" /\ run[r].at \in Admitted
  BY DEF CallMove, Admitted, Active, Executing
<1>3. "calling" \in Places
  BY DEF Places, Admitted, Active, Executing
<1>4. PICK x \in Run : run' = [run EXCEPT ![r] = x] /\ x.at = "calling" /\ SpentOnce(x)
  BY <1>2, <1>3, SendTypes DEF CallMove
<1>5. run'[r] = x /\ \A q \in Runners \ {r} : run'[q] = run[q]
  BY <1>4 DEF IInv, RunOK
<1>6. RunOK' /\ FlagsOK'
  BY <1>1, <1>4 DEF IInv, RunOK, FlagsOK
<1>7. Spent'
  BY <1>4, <1>5 DEF IInv, Spent, SpentOnce
<1>8. raced \/ \A q \in Runners \ {r} : run[q].at \notin Admitted
  BY <1>2 DEF IInv, Alone
<1>9. Alone'
  BY <1>1, <1>5, <1>8 DEF Alone
<1>10. Rest'
  BY <1>1, <1>4, <1>5, <1>8 DEF Rest, Riding
<1> QED
  BY <1>6, <1>7, <1>9, <1>10 DEF IInv

LEMMA MotionEndsKeeps ==
  ASSUME IInv, NEW r \in Runners, AimFails(r) \/ MoveArrives(r) \/ MoveFails(r)
  PROVE  IInv'
<1>1. run[r].at \in Executing
  BY DEF AimFails, MoveArrives, MoveFails, Executing
<1>2. raced' = raced /\ unstopped' = unstopped
  BY DEF AimFails, MoveArrives, MoveFails, history
<1>3. CASE MoveArrives(r)
  <2>1. inflight' = Still /\ NextStep(r)
    BY <1>3 DEF MoveArrives
  <2> QED
    BY <1>1, <1>2, <2>1, NextStepKeeps
<1>4. CASE AimFails(r) \/ MoveFails(r)
  <2>1. Fail(r) /\ inflight' \in {Still, inflight}
    BY <1>4 DEF AimFails, MoveFails, Halt, world
  <2> QED
    BY <1>1, <1>2, <2>1, FailKeeps
<1> QED
  BY <1>3, <1>4

LEMMA CallGripKeeps ==
  ASSUME IInv, NEW r \in Runners, CallGrip(r)
  PROVE  IInv'
<1>1. inflight' = inflight /\ raced' = raced /\ unstopped' = unstopped
  BY DEF CallGrip, world, history
<1>2. "gripping" \in Places /\ "gripping" \notin {"checked", "nudge"}
  BY DEF Places, Admitted, Active, Executing
<1> QED
  BY <1>1, <1>2, SendKeeps DEF CallGrip

LEMMA NudgeKeeps ==
  ASSUME IInv, NEW r \in Runners, Nudge(r)
  PROVE  IInv'
<1>1. inflight' = inflight /\ raced' = raced /\ unstopped' = unstopped
  BY DEF Nudge, world, history
<1>2. PICK place \in {"servo", "ending", "failing"} : Send(r, place)
  BY DEF Nudge, Failed
<1>3. place \in Places /\ place \notin {"checked", "nudge"}
  BY DEF Places, Admitted, Active, Executing
<1> QED
  BY <1>1, <1>2, <1>3, SendKeeps DEF Nudge

LEMMA StepEndsKeeps ==
  ASSUME IInv, NEW r \in Runners, GripEnds(r) \/ Looked(r)
  PROVE  IInv'
<1>1. run[r].at \in Executing /\ run[r].at # "calling"
  BY DEF GripEnds, Looked, Executing
<1>2. inflight' = inflight /\ raced' = raced /\ unstopped' = unstopped
  BY DEF GripEnds, Looked, world, history
<1>3. CASE NextStep(r)
  BY <1>1, <1>2, <1>3, NextStepKeeps
<1>4. CASE Fail(r)
  BY <1>1, <1>2, <1>4, FailKeeps
<1> QED
  BY <1>3, <1>4 DEF GripEnds, Looked

LEMMA StartLookingKeeps ==
  ASSUME IInv, NEW r \in Runners, StartLooking(r)
  PROVE  IInv'
<1> DEFINE x == [run[r] EXCEPT !.at = "looking", !.pose = FALSE]
<1>1. run[r] \in Run /\ SpentOnce(run[r])
  BY DEF IInv, RunOK, Spent
<1>2. run[r].at \in Admitted /\ run[r].at \notin Riding /\ "looking" \in Places
  BY DEF StartLooking, Places, Admitted, Active, Executing, Riding
<1>3. x \in Run /\ x.at = "looking" /\ x.late = run[r].late /\ x.estop = run[r].estop
  BY <1>1, <1>2 DEF Run
<1>4. SpentOnce(x)
  BY <1>1, <1>3 DEF SpentOnce
<1>5. run' = [run EXCEPT ![r] = x]
  BY DEF StartLooking
<1>6. inflight' = inflight /\ raced' = raced /\ unstopped' = unstopped
  BY DEF StartLooking, world, history
<1>7. unstopped' \in BOOLEAN
  BY <1>6 DEF IInv, FlagsOK
<1> HIDE DEF x
<1> QED
  BY <1>2, <1>3, <1>4, <1>5, <1>6, <1>7, GoesOn

----------------------------------------------------------------------------
(* The servo loop *)

LEMMA TickType ==
  ASSUME NEW s \in Servo, NEW e \in BOOLEAN, NEW l \in BOOLEAN,
         NEW v \in BOOLEAN, NEW n \in BOOLEAN
  PROVE  tick(s, e, l, v, n) \in Servo
<1>1. ToError(s) \in Servo
  BY DEF ToError, Servo, ServoStates
<1>2. s.state = "DETECT" => tick_detect(s, v) \in Servo
  BY StableFramesAssumption DEF tick_detect, Servo, ServoStates
<1>3. tick_align(s, v, n) \in Servo
  BY StableFramesAssumption DEF tick_align, NewServo, Servo, ServoStates
<1> QED
  BY <1>1, <1>2, <1>3 DEF tick

\* Process r stays in its loop with servo state c, or is about to send the
\* velocity, which it is not once the E-stop is heard.
LEMMA ServoGoesOn ==
  ASSUME IInv, NEW r \in Runners, NEW c \in Servo, NEW place \in {"servo", "nudge"},
         run' = [run EXCEPT ![r].servo = c, ![r].at = place],
         run[r].at \in {"checked", "servo"},
         place = "nudge" => ~run[r].estop,
         raced' = raced, unstopped' = unstopped, inflight' = inflight
  PROVE  IInv'
<1> DEFINE x == [run[r] EXCEPT !.servo = c, !.at = place]
<1>1. run[r] \in Run /\ SpentOnce(run[r])
  BY DEF IInv, RunOK, Spent
<1>2. run[r].at \in Admitted /\ run[r].at \notin Riding /\ place \in Places
  BY DEF Places, Admitted, Active, Executing, Riding
<1>3. x \in Run /\ x.at = place /\ x.late = run[r].late /\ x.estop = run[r].estop
  BY <1>1, <1>2 DEF Run
<1>4. SpentOnce(x)
  BY <1>1, <1>3 DEF SpentOnce
<1>5. run' = [run EXCEPT ![r] = x]
  OBVIOUS
<1>6. unstopped' \in BOOLEAN
  BY DEF IInv, FlagsOK
<1> HIDE DEF x
<1> QED
  BY <1>2, <1>3, <1>4, <1>5, <1>6, GoesOn

LEMMA StartServoKeeps ==
  ASSUME IInv, NEW r \in Runners, StartServo(r)
  PROVE  IInv'
<1>1. NewServo \in Servo
  BY StableFramesAssumption DEF NewServo, Servo, ServoStates
<1>2. inflight' = inflight /\ raced' = raced /\ unstopped' = unstopped
  BY DEF StartServo, world, history
<1>3. run' = [run EXCEPT ![r].servo = NewServo, ![r].at = "servo"]
  BY DEF StartServo, IInv, RunOK, Run
<1> QED
  BY <1>1, <1>2, <1>3, ServoGoesOn DEF StartServo

LEMMA ServoTickKeeps ==
  ASSUME IInv, NEW r \in Runners, ServoTick(r)
  PROVE  IInv'
<1>1. inflight' = inflight /\ raced' = raced /\ unstopped' = unstopped
  BY DEF ServoTick, world, history
<1>2. run[r].at = "servo" /\ run[r].at \in Executing
  BY DEF ServoTick, Executing
<1>3. CASE NextStep(r)
  BY <1>1, <1>2, <1>3, NextStepKeeps
<1>4. CASE Fail(r)
  BY <1>1, <1>2, <1>4, FailKeeps
<1>5. ASSUME NEW near \in BOOLEAN,
             run' = [run EXCEPT
                 ![r].servo = tick(@, run[r].estop, FALSE, run[r].handle, near),
                 ![r].at = IF commands(run[r].servo, run[r].estop, FALSE, run[r].handle, near)
                           THEN "nudge" ELSE @]
      PROVE  IInv'
  <2> DEFINE c == tick(run[r].servo, run[r].estop, FALSE, run[r].handle, near)
             go == commands(run[r].servo, run[r].estop, FALSE, run[r].handle, near)
             place == IF go THEN "nudge" ELSE "servo"
  <2>1. run[r] \in Run
    BY DEF IInv, RunOK
  <2>2. c \in Servo
    BY <2>1, TickType DEF Run
  <2>3. run[r].estop => ~go
    BY DEF commands
  <2>4. place \in {"servo", "nudge"} /\ (place = "nudge" => ~run[r].estop)
    BY <2>3
  <2>5. run' = [run EXCEPT ![r].servo = c, ![r].at = place]
    BY <1>2, <1>5, <2>1 DEF Run, IInv, RunOK
  <2> HIDE DEF c, place
  <2> QED
    BY <1>1, <1>2, <2>2, <2>4, <2>5, ServoGoesOn
<1> QED
  BY <1>3, <1>4, <1>5 DEF ServoTick

LEMMA ServoTimesOutKeeps ==
  ASSUME IInv, NEW r \in Runners, ServoTimesOut(r)
  PROVE  IInv'
<1> DEFINE c == tick(run[r].servo, run[r].estop, TRUE, run[r].handle, FALSE)
<1>1. run[r] \in Run /\ run[r].at = "servo"
  BY DEF IInv, RunOK, ServoTimesOut
<1>2. c \in Servo
  BY <1>1, TickType DEF Run
<1>3. run' = [run EXCEPT ![r].servo = c, ![r].at = "servo"]
  BY <1>1 DEF ServoTimesOut, IInv, RunOK, Run
<1>4. inflight' = inflight /\ raced' = raced /\ unstopped' = unstopped
  BY DEF ServoTimesOut, world, history
<1> HIDE DEF c
<1> QED
  BY <1>1, <1>2, <1>3, <1>4, ServoGoesOn

\* What a failure leaves under way is stopped, or noted as not stopped, before
\* the process goes on to the gripper of the way home.
LEMMA OnFailureKeeps ==
  ASSUME IInv, NEW r \in Runners, OnFailure(r)
  PROVE  IInv'
<1> DEFINE x == IF run[r].step = 0 \/ run[r].estop THEN [run[r] EXCEPT !.at = "ending"]
                ELSE [run[r] EXCEPT !.at = "between", !.step = 1, !.homing = TRUE]
<1>1. run[r] \in Run /\ SpentOnce(run[r]) /\ run[r].at = "failing"
  BY DEF IInv, RunOK, Spent, OnFailure
<1>2. "ending" \in Places /\ "between" \in Places /\ run[r].at \in Admitted
  BY <1>1 DEF Places, Admitted, Active, Executing
<1>3. [run[r] EXCEPT !.at = "ending"] \in Run
  BY <1>1, <1>2 DEF Run
<1>4. [run[r] EXCEPT !.at = "between", !.step = 1, !.homing = TRUE] \in Run
  <2>1. \A k \in Nat, b \in BOOLEAN :
          [run[r] EXCEPT !.at = "between", !.step = k, !.homing = b] \in Run
    BY <1>1, <1>2 DEF Run
  <2> QED
    BY <2>1
<1>5. x \in Run
  BY <1>3, <1>4
<1>6. x.at \in {"ending", "between"} /\ x.late = run[r].late /\ x.estop = run[r].estop
  BY <1>1 DEF Run
<1>7. SpentOnce(x)
  BY <1>1, <1>6 DEF SpentOnce
<1>8. run' = [run EXCEPT ![r] = x]
  BY DEF OnFailure
<1>9. raced' = raced
  BY DEF OnFailure
<1>10. /\ unstopped' \in BOOLEAN /\ (unstopped => unstopped')
       /\ inflight' = Still \/ unstopped'
  <2>1. CASE Halt /\ unstopped' = unstopped
    BY <2>1 DEF Halt, IInv, FlagsOK
  <2>2. CASE inflight' = inflight /\ unstopped' = (unstopped \/ inflight # Still)
    BY <2>2 DEF IInv, FlagsOK
  <2> QED
    BY <2>1, <2>2 DEF OnFailure, world
<1> HIDE DEF x
<1> QED
  BY <1>2, <1>5, <1>7, <1>8, <1>9, <1>10, GoesOn

----------------------------------------------------------------------------
LEMMA WorkKeeps ==
  ASSUME IInv, NEW r \in Runners, Work(r)
  PROVE  IInv'
BY BeginKeeps, LeavesKeeps, PlainKeeps, SetTcpKeeps, CheckKeeps, CallMoveKeeps,
   MotionEndsKeeps, CallGripKeeps, StepEndsKeeps, StartLookingKeeps, StartServoKeeps,
   ServoTickKeeps, NudgeKeeps, OnFailureKeeps
DEF Work

LEMMA NextKeeps ==
  ASSUME IInv, [Next]_vars
  PROVE  IInv'
<1>1. CASE UNCHANGED vars
  <2>1. run' = run /\ raced' = raced /\ unstopped' = unstopped /\ inflight' = inflight
    BY <1>1 DEF vars, world, history
  <2> QED
    BY <2>1, StandsStill
<1>2. CASE OrphanArrives \/ PutInOrder
  <2>1. run' = run /\ raced' = raced /\ unstopped' = unstopped
    BY <1>2 DEF OrphanArrives, PutInOrder, history
  <2>2. inflight' \in {Still, inflight}
    BY <1>2 DEF OrphanArrives, PutInOrder
  <2> QED
    BY <2>1, <2>2, StandsStill
<1>3. ASSUME NEW r \in Runners,
             \/ \E name \in Launchable : Launch(r, name)
             \/ \E q \in Runners : Hear(r, q)
             \/ ServiceMissing(r) \/ HearEStop(r) \/ SeeTool(r) \/ SeeHandle(r)
             \/ Work(r) \/ ServoTimesOut(r) \/ Kill(r)
      PROVE  IInv'
  BY <1>3, LaunchKeeps, HearKeeps, LeavesKeeps, HearEStopKeeps, SeeToolKeeps,
     SeeHandleKeeps, WorkKeeps, ServoTimesOutKeeps, KillKeeps
<1> QED
  BY <1>1, <1>2, <1>3 DEF Next

LEMMA Inductive == Spec => []IInv
<1>1. Init => IInv
  BY InitIInv
<1>2. IInv /\ [Next]_vars => IInv'
  BY NextKeeps
<1> QED
  BY <1>1, <1>2, PTL DEF Spec

\* However many processes there are, whatever their programs, and wherever in
\* a step the E-stop is heard: the process sends at most the command that had
\* already passed its check (toolbox_seq_runner.py:669).
THEOREM OneLateCommandAtMost == Spec => []AtMostOneCommandAfterEStop
<1>1. IInv => AtMostOneCommandAfterEStop
  BY DEF IInv, Spent, SpentOnce, AtMostOneCommandAfterEStop
<1> QED
  BY <1>1, Inductive, PTL

\* The gripper is moved with the arm at rest, also on the way home after a
\* motion that was not waited for, unless the stop was not acknowledged or a
\* second process slipped past the S-7 check (toolbox_seq_runner.py:580).
THEOREM GripperMovesAtRest == Spec => []GripsAtRest
<1>1. IInv => GripsAtRest
  BY DEF IInv, Rest, GripsAtRest, Riding, Admitted, Active, Executing
<1> QED
  BY <1>1, Inductive, PTL

----------------------------------------------------------------------------
(* The shape of the sequences *)

\* The sequences of toolbox_motion.py that move a drawer.
Drawers == VisionDrawer \cup PlainDrawer

\* The step of a sequence that closes the gripper, and the one that opens it again
\* (for home, which only opens it, steps that it does not have).
GraspStep(name) == IF name \in PlainDrawer THEN 4
                   ELSE IF name \in VisionDrawer \cup {"socket_fetch", "socket_return"} THEN 5
                   ELSE 8
LetGoStep(name) == IF name \in PlainDrawer THEN 7
                   ELSE IF name \in VisionDrawer THEN 8
                   ELSE IF name \in {"socket_fetch", "socket_return"} THEN 9 ELSE 12
\* What a sequence is there to carry: the handle of its drawer, or the tool.
Load(name) == IF name \in Drawers THEN LayerOf(name) ELSE "tool"

Moves(step) == step.kind \in MoveKinds

\* What holds of every program
GripsInPlace(p, name) ==
  \A k \in 1..Len(p) :
    p[k].kind = "GRIP" =>
      IF k = GraspStep(name)
      THEN p[k].stroke = IF name \in Drawers THEN "box" ELSE "tool"
      ELSE p[k].stroke \in {"release", "wide"}

\* Between the two it only moves; a drawer sequence, about its drawer.
TowsInPlace(p, name) ==
  name # "home" =>
    \A k \in GraspStep(name) + 1 .. LetGoStep(name) - 1 :
      Moves(p[k]) /\ (name \in Drawers => p[k].at.place = LayerOf(name))

\* It lets go of its load before it ends.
LetsGo(p, name) ==
  name # "home" =>
    /\ LetGoStep(name) < Len(p)
    /\ p[LetGoStep(name)].kind = "GRIP"

\* The last step takes the arm home.
EndsAtHome(p) ==
  /\ Len(p) \in Nat /\ Len(p) > 1 /\ Len(p) <= 14
  /\ Moves(p[Len(p)]) /\ p[Len(p)].at \in {Home, CatchHome}

\* The place where the gripper is closed
GraspsAt(p, name) ==
  name \in Drawers =>
    LET g == GraspStep(name) IN
    \/ Moves(p[g - 1]) /\ p[g - 1].at.place = LayerOf(name)
    \/ /\ p[g - 1].kind = "VISUAL_SERVO_XZ" 
       /\ Moves(p[g - 2]) /\ p[g - 2].at.place = LayerOf(name)

\* A tool is let go in its slot or on the staging area.
PutsDown(p, name) ==
  name \in ToolSeqs =>
    LET n == LetGoStep(name) - 1 IN
    Moves(p[n]) /\ p[n].at \in {At("slot", "down"), At("staging", "down")}

\* What a vision sequence does with its drawer.
PullsInPlace(p, name) ==
  name \in VisionDrawer =>
    LET l == LayerOf(name) IN
    /\ Moves(p[3]) /\ p[3].at = At(l, IF Opens(name) THEN "approach" ELSE "opendown")
    /\ p[4].kind = "VISUAL_SERVO_XZ" /\ p[5].kind = "GRIP"
    /\ \A k \in 1..Len(p) : Moves(p[k]) => p[k].at # Still
    /\ p[6].at = At(l, "open")
    /\ p[7].at = At(l, IF Opens(name) THEN "silence" ELSE "approach")

\* What the proofs below know of a sequence of toolbox_motion.py.
Shape(p, name) ==
  /\ GripsInPlace(p, name) /\ TowsInPlace(p, name) /\ LetsGo(p, name) /\ EndsAtHome(p)
  /\ GraspsAt(p, name) /\ PutsDown(p, name) /\ PullsInPlace(p, name)

\* A sequence of 2 to 14 steps that ends with the move home ends at home.
LEMMA AtHomeInTheEnd ==
  ASSUME NEW p, NEW n \in 2..14, Len(p) = n, Moves(p[n]), p[n].at \in {Home, CatchHome}
  PROVE  EndsAtHome(p)
BY DEF EndsAtHome

\* The shape of vision_drawer_open_seq, step by step.
LEMMA OpenShape ==
  ASSUME NEW name \in VisionDrawer, Opens(name), NEW p,
         p = OpenDrawer(LayerOf(name), "open", "silence", "inner", <<SERVO_XZ>>)
  PROVE  Shape(p, name)
<1> DEFINE l == LayerOf(name)
<1>1. /\ Len(p) = 10 /\ p[1] = GRIP_RELEASE /\ p[2] = mj_abs(At(l, "setup_j"))
      /\ p[3] = ml_abs(At(l, "approach")) /\ p[4] = SERVO_XZ /\ p[5] = GRIP_BOX
      /\ p[6] = ml_abs(At(l, "open")) /\ p[7] = ml_abs(At(l, "silence"))
      /\ p[8] = GRIP_RELEASE /\ p[9] = ml_abs(At(l, "inner")) /\ p[10] = JOINT_HOME
  BY DEF OpenDrawer
<1>2. /\ name \in Drawers /\ name \notin ToolSeqs /\ name # "home"
      /\ GraspStep(name) = 5 /\ LetGoStep(name) = 8
  BY DEF GraspStep, LetGoStep, Drawers, VisionDrawer, PlainDrawer, ToolSeqs
<1>3. name \in VisionDrawer
  BY DEF VisionDrawer, PlainDrawer
<1> HIDE DEF l
<1>4. /\ p[1].kind = "GRIP" /\ p[1].stroke = "release" /\ p[2].kind = "MOVE_J"
      /\ p[2].at = At(l, "setup_j") /\ p[3].kind = "MOVE_L" /\ p[3].at = At(l, "approach")
      /\ p[4].kind = "VISUAL_SERVO_XZ" /\ p[5].kind = "GRIP" /\ p[5].stroke = "box"
      /\ p[6].kind = "MOVE_L" /\ p[6].at = At(l, "open") /\ p[7].kind = "MOVE_L"
      /\ p[7].at = At(l, "silence") /\ p[8].kind = "GRIP" /\ p[8].stroke = "release"
      /\ p[9].kind = "MOVE_L" /\ p[9].at = At(l, "inner") /\ p[10].kind = "MOVE_J"
      /\ p[10].at = Home
  BY <1>1 DEF GRIP_RELEASE, GRIP_BOX, grip, Step, mj_abs, ml_abs, SERVO_XZ, JOINT_HOME, At
<1>5. GripsInPlace(p, name)
  BY SMTT(30), <1>1, <1>2, <1>4 DEF GripsInPlace
<1>6. LetsGo(p, name) /\ PutsDown(p, name)
  BY <1>1, <1>2, <1>4 DEF LetsGo, PutsDown
<1>7. EndsAtHome(p)
  <2>1. Moves(p[10]) /\ p[10].at = Home
    BY <1>4 DEF Moves, MoveKinds
  <2> QED
    BY <1>1, <2>1, AtHomeInTheEnd
<1>9. TowsInPlace(p, name)
  <2>1. \A spot : At(l, spot).place = l
    BY DEF At
  <2>2. \A k \in 6 .. 7 : Moves(p[k]) /\ p[k].at.place = l
    BY <1>4, <2>1 DEF Moves, MoveKinds
  <2> QED
    BY <1>2, <2>2 DEF TowsInPlace, l
<1>8. GraspsAt(p, name) /\ PullsInPlace(p, name)
  <2>1. l # "free"
    BY DEF l, LayerOf
  <2>2. \A spot : At(l, spot) # Still
    BY <2>1 DEF At, Still
  <2>3. Home # Still
    BY DEF At, Still, Home
  <2>4. \A k \in 1..Len(p) : Moves(p[k]) => p[k].at # Still
    <3>1. \A k \in 1..10 : Moves(p[k]) => k \in {2, 3, 6, 7, 9, 10}
      BY <1>4 DEF Moves, MoveKinds
    <3>2. /\ p[2].at # Still /\ p[3].at # Still /\ p[6].at # Still /\ p[7].at # Still
          /\ p[9].at # Still /\ p[10].at # Still
      BY <1>4, <2>2, <2>3
    <3> QED
      BY <1>1, <3>1, <3>2
  <2>5. GraspsAt(p, name)
    BY <1>1, <1>2, <1>4 DEF GraspsAt, Moves, MoveKinds, At, l
  <2> QED
    BY <1>1, <1>4, <2>4, <2>5 DEF PullsInPlace, Moves, MoveKinds, l
<1> QED
  BY <1>5, <1>6, <1>7, <1>8, <1>9 DEF Shape

\* The shape of vision_drawer_close_seq.
LEMMA CloseShape ==
  ASSUME NEW name \in VisionDrawer, ~Opens(name), NEW p,
         p = CloseDrawer(LayerOf(name), "opendown", "open", "close_end", <<SERVO_XZ>>)
  PROVE  Shape(p, name)
<1> DEFINE l == LayerOf(name)
<1>1. /\ Len(p) = 10 /\ p[1] = GRIP_RELEASE /\ p[2] = mj_abs(At(l, "close_setup_j"))
      /\ p[3] = ml_abs(At(l, "opendown")) /\ p[4] = SERVO_XZ /\ p[5] = GRIP_BOX
      /\ p[6] = ml_abs(At(l, "open")) /\ p[7] = ml_abs(At(l, "approach"))
      /\ p[8] = GRIP_RELEASE /\ p[9] = ml_abs(At(l, "close_end")) /\ p[10] = JOINT_HOME
  BY DEF CloseDrawer
<1>2. /\ name \in Drawers /\ name \notin ToolSeqs /\ name # "home"
      /\ GraspStep(name) = 5 /\ LetGoStep(name) = 8
  BY DEF GraspStep, LetGoStep, Drawers, VisionDrawer, PlainDrawer, ToolSeqs
<1>3. name \in VisionDrawer
  BY DEF VisionDrawer, PlainDrawer
<1> HIDE DEF l
<1>4. /\ p[1].kind = "GRIP" /\ p[1].stroke = "release" /\ p[2].kind = "MOVE_J"
      /\ p[2].at = At(l, "close_setup_j") /\ p[3].kind = "MOVE_L"
      /\ p[3].at = At(l, "opendown") /\ p[4].kind = "VISUAL_SERVO_XZ" /\ p[5].kind = "GRIP"
      /\ p[5].stroke = "box" /\ p[6].kind = "MOVE_L" /\ p[6].at = At(l, "open")
      /\ p[7].kind = "MOVE_L" /\ p[7].at = At(l, "approach") /\ p[8].kind = "GRIP"
      /\ p[8].stroke = "release" /\ p[9].kind = "MOVE_L" /\ p[9].at = At(l, "close_end")
      /\ p[10].kind = "MOVE_J" /\ p[10].at = Home
  BY <1>1 DEF GRIP_RELEASE, GRIP_BOX, grip, Step, mj_abs, ml_abs, SERVO_XZ, JOINT_HOME, At
<1>5. GripsInPlace(p, name)
  BY SMTT(30), <1>1, <1>2, <1>4 DEF GripsInPlace
<1>6. LetsGo(p, name) /\ PutsDown(p, name)
  BY <1>1, <1>2, <1>4 DEF LetsGo, PutsDown
<1>7. EndsAtHome(p)
  <2>1. Moves(p[10]) /\ p[10].at = Home
    BY <1>4 DEF Moves, MoveKinds
  <2> QED
    BY <1>1, <2>1, AtHomeInTheEnd
<1>9. TowsInPlace(p, name)
  <2>1. \A spot : At(l, spot).place = l
    BY DEF At
  <2>2. \A k \in 6 .. 7 : Moves(p[k]) /\ p[k].at.place = l
    BY <1>4, <2>1 DEF Moves, MoveKinds
  <2> QED
    BY <1>2, <2>2 DEF TowsInPlace, l
<1>8. GraspsAt(p, name) /\ PullsInPlace(p, name)
  <2>1. l # "free"
    BY DEF l, LayerOf
  <2>2. \A spot : At(l, spot) # Still
    BY <2>1 DEF At, Still
  <2>3. Home # Still
    BY DEF At, Still, Home
  <2>4. \A k \in 1..Len(p) : Moves(p[k]) => p[k].at # Still
    <3>1. \A k \in 1..10 : Moves(p[k]) => k \in {2, 3, 6, 7, 9, 10}
      BY <1>4 DEF Moves, MoveKinds
    <3>2. /\ p[2].at # Still /\ p[3].at # Still /\ p[6].at # Still /\ p[7].at # Still
          /\ p[9].at # Still /\ p[10].at # Still
      BY <1>4, <2>2, <2>3
    <3> QED
      BY <1>1, <3>1, <3>2
  <2>5. GraspsAt(p, name)
    BY <1>1, <1>2, <1>4 DEF GraspsAt, Moves, MoveKinds, At, l
  <2> QED
    BY <1>1, <1>4, <2>4, <2>5 DEF PullsInPlace, Moves, MoveKinds, l
<1> QED
  BY <1>5, <1>6, <1>7, <1>8, <1>9 DEF Shape

\* The shape of drawer_open_seq and its v2.
LEMMA PlainOpenShape ==
  ASSUME NEW name \in PlainDrawer, NEW a, NEW b, NEW c, NEW p,
         p = OpenDrawer(LayerOf(name), a, b, c, <<>>)
  PROVE  Shape(p, name)
<1> DEFINE l == LayerOf(name)
<1>1. /\ Len(p) = 9 /\ p[1] = GRIP_RELEASE /\ p[2] = mj_abs(At(l, "setup_j"))
      /\ p[3] = ml_abs(At(l, "approach")) /\ p[4] = GRIP_BOX /\ p[5] = ml_abs(At(l, a))
      /\ p[6] = ml_abs(At(l, b)) /\ p[7] = GRIP_RELEASE /\ p[8] = ml_abs(At(l, c))
      /\ p[9] = JOINT_HOME
  BY DEF OpenDrawer
<1>2. /\ name \in Drawers /\ name \notin ToolSeqs /\ name # "home"
      /\ GraspStep(name) = 4 /\ LetGoStep(name) = 7
  BY DEF GraspStep, LetGoStep, Drawers, VisionDrawer, PlainDrawer, ToolSeqs
<1>3. name \notin VisionDrawer
  BY DEF VisionDrawer, PlainDrawer
<1> HIDE DEF l
<1>4. /\ p[1].kind = "GRIP" /\ p[1].stroke = "release" /\ p[2].kind = "MOVE_J"
      /\ p[2].at = At(l, "setup_j") /\ p[3].kind = "MOVE_L" /\ p[3].at = At(l, "approach")
      /\ p[4].kind = "GRIP" /\ p[4].stroke = "box" /\ p[5].kind = "MOVE_L"
      /\ p[5].at = At(l, a) /\ p[6].kind = "MOVE_L" /\ p[6].at = At(l, b)
      /\ p[7].kind = "GRIP" /\ p[7].stroke = "release" /\ p[8].kind = "MOVE_L"
      /\ p[8].at = At(l, c) /\ p[9].kind = "MOVE_J" /\ p[9].at = Home
  BY <1>1 DEF GRIP_RELEASE, GRIP_BOX, grip, Step, mj_abs, ml_abs, SERVO_XZ, JOINT_HOME, At
<1>5. GripsInPlace(p, name)
  BY <1>1, <1>2, <1>4 DEF GripsInPlace
<1>6. LetsGo(p, name) /\ PutsDown(p, name)
  BY <1>1, <1>2, <1>4 DEF LetsGo, PutsDown
<1>7. EndsAtHome(p)
  <2>1. Moves(p[9]) /\ p[9].at = Home
    BY <1>4 DEF Moves, MoveKinds
  <2> QED
    BY <1>1, <2>1, AtHomeInTheEnd
<1>9. TowsInPlace(p, name)
  <2>1. \A spot : At(l, spot).place = l
    BY DEF At
  <2>2. \A k \in 5 .. 6 : Moves(p[k]) /\ p[k].at.place = l
    BY <1>4, <2>1 DEF Moves, MoveKinds
  <2> QED
    BY <1>2, <2>2 DEF TowsInPlace, l
<1>8. GraspsAt(p, name) /\ PullsInPlace(p, name)
  BY <1>1, <1>2, <1>3, <1>4
  DEF GraspsAt, PullsInPlace, Moves, MoveKinds, At, l
<1> QED
  BY <1>5, <1>6, <1>7, <1>8, <1>9 DEF Shape

\* The shape of drawer_close_seq and its v2.
LEMMA PlainCloseShape ==
  ASSUME NEW name \in PlainDrawer, NEW a, NEW b, NEW c, NEW p,
         p = CloseDrawer(LayerOf(name), a, b, c, <<>>)
  PROVE  Shape(p, name)
<1> DEFINE l == LayerOf(name)
<1>1. /\ Len(p) = 9 /\ p[1] = GRIP_RELEASE /\ p[2] = mj_abs(At(l, "close_setup_j"))
      /\ p[3] = ml_abs(At(l, a)) /\ p[4] = GRIP_BOX /\ p[5] = ml_abs(At(l, b))
      /\ p[6] = ml_abs(At(l, "approach")) /\ p[7] = GRIP_RELEASE /\ p[8] = ml_abs(At(l, c))
      /\ p[9] = JOINT_HOME
  BY DEF CloseDrawer
<1>2. /\ name \in Drawers /\ name \notin ToolSeqs /\ name # "home"
      /\ GraspStep(name) = 4 /\ LetGoStep(name) = 7
  BY DEF GraspStep, LetGoStep, Drawers, VisionDrawer, PlainDrawer, ToolSeqs
<1>3. name \notin VisionDrawer
  BY DEF VisionDrawer, PlainDrawer
<1> HIDE DEF l
<1>4. /\ p[1].kind = "GRIP" /\ p[1].stroke = "release" /\ p[2].kind = "MOVE_J"
      /\ p[2].at = At(l, "close_setup_j") /\ p[3].kind = "MOVE_L" /\ p[3].at = At(l, a)
      /\ p[4].kind = "GRIP" /\ p[4].stroke = "box" /\ p[5].kind = "MOVE_L"
      /\ p[5].at = At(l, b) /\ p[6].kind = "MOVE_L" /\ p[6].at = At(l, "approach")
      /\ p[7].kind = "GRIP" /\ p[7].stroke = "release" /\ p[8].kind = "MOVE_L"
      /\ p[8].at = At(l, c) /\ p[9].kind = "MOVE_J" /\ p[9].at = Home
  BY <1>1 DEF GRIP_RELEASE, GRIP_BOX, grip, Step, mj_abs, ml_abs, SERVO_XZ, JOINT_HOME, At
<1>5. GripsInPlace(p, name)
  BY <1>1, <1>2, <1>4 DEF GripsInPlace
<1>6. LetsGo(p, name) /\ PutsDown(p, name)
  BY <1>1, <1>2, <1>4 DEF LetsGo, PutsDown
<1>7. EndsAtHome(p)
  <2>1. Moves(p[9]) /\ p[9].at = Home
    BY <1>4 DEF Moves, MoveKinds
  <2> QED
    BY <1>1, <2>1, AtHomeInTheEnd
<1>9. TowsInPlace(p, name)
  <2>1. \A spot : At(l, spot).place = l
    BY DEF At
  <2>2. \A k \in 5 .. 6 : Moves(p[k]) /\ p[k].at.place = l
    BY <1>4, <2>1 DEF Moves, MoveKinds
  <2> QED
    BY <1>2, <2>2 DEF TowsInPlace, l
<1>8. GraspsAt(p, name) /\ PullsInPlace(p, name)
  BY <1>1, <1>2, <1>3, <1>4
  DEF GraspsAt, PullsInPlace, Moves, MoveKinds, At, l
<1> QED
  BY <1>5, <1>6, <1>7, <1>8, <1>9 DEF Shape

\* The shape of socket_fetch_seq.
LEMMA SocketFetchShape ==
  ASSUME NEW p, p = socket_fetch_seq
  PROVE  Shape(p, "socket_fetch")
<1>1. /\ Len(p) = 11 /\ p[1] = JOINT_HOME /\ p[2] = GRIP_RELEASE
      /\ p[3] = ml_abs(AboveSocket) /\ p[4] = ml_abs(OnSocket) /\ p[5] = GRIP_TOOL
      /\ p[6] = ml_abs(AboveSocket) /\ p[7] = ml_abs(AboveStaging)
      /\ p[8] = ml_abs(OnStaging) /\ p[9] = GRIP_RELEASE /\ p[10] = ml_abs(AboveStaging)
      /\ p[11] = ml_abs(CatchHome)
  BY DEF socket_fetch_seq
<1>2. /\ "socket_fetch" \notin Drawers /\ "socket_fetch" \notin VisionDrawer
      /\ GraspStep("socket_fetch") = 5 /\ LetGoStep("socket_fetch") = 9
  BY DEF GraspStep, LetGoStep, Drawers, VisionDrawer, PlainDrawer
<1>3. /\ GripsInPlace(p, "socket_fetch") /\ TowsInPlace(p, "socket_fetch")
      /\ LetsGo(p, "socket_fetch") /\ EndsAtHome(p)
  BY <1>1, <1>2
  DEF GripsInPlace, TowsInPlace, LetsGo, EndsAtHome, Moves, MoveKinds, GRIP_RELEASE, GRIP_TOOL,
      grip, Step, mj_abs, ml_abs, JOINT_HOME
<1>4. /\ GraspsAt(p, "socket_fetch") /\ PutsDown(p, "socket_fetch")
      /\ PullsInPlace(p, "socket_fetch")
  BY <1>1, <1>2
  DEF GraspsAt, PutsDown, PullsInPlace, Moves, MoveKinds, Step, ml_abs, OnStaging
<1> QED
  BY <1>3, <1>4 DEF Shape

\* The shape of socket_return_seq.
LEMMA SocketReturnShape ==
  ASSUME NEW p, p = socket_return_seq
  PROVE  Shape(p, "socket_return")
<1>1. /\ Len(p) = 11 /\ p[1] = JOINT_HOME /\ p[2] = GRIP_RELEASE
      /\ p[3] = ml_abs(AboveStaging) /\ p[4] = ml_abs(OnStaging) /\ p[5] = GRIP_TOOL
      /\ p[6] = ml_abs(AboveStaging) /\ p[7] = ml_abs(AboveSocket) /\ p[8] = ml_abs(OnSocket)
      /\ p[9] = GRIP_RELEASE /\ p[10] = ml_abs(AboveSocket) /\ p[11] = JOINT_HOME
  BY DEF socket_return_seq
<1>2. /\ "socket_return" \notin Drawers /\ "socket_return" \notin VisionDrawer
      /\ GraspStep("socket_return") = 5 /\ LetGoStep("socket_return") = 9
  BY DEF GraspStep, LetGoStep, Drawers, VisionDrawer, PlainDrawer
<1>3. /\ GripsInPlace(p, "socket_return") /\ TowsInPlace(p, "socket_return")
      /\ LetsGo(p, "socket_return") /\ EndsAtHome(p)
  BY <1>1, <1>2
  DEF GripsInPlace, TowsInPlace, LetsGo, EndsAtHome, Moves, MoveKinds, GRIP_RELEASE, GRIP_TOOL,
      grip, Step, mj_abs, ml_abs, JOINT_HOME
<1>4. /\ GraspsAt(p, "socket_return") /\ PutsDown(p, "socket_return")
      /\ PullsInPlace(p, "socket_return")
  BY <1>1, <1>2
  DEF GraspsAt, PutsDown, PullsInPlace, Moves, MoveKinds, Step, ml_abs, OnSocket
<1> QED
  BY <1>3, <1>4 DEF Shape

\* The shape of vision_fetch_seq.
LEMMA VisionFetchShape ==
  ASSUME NEW p, p = vision_fetch_seq
  PROVE  Shape(p, "vision_fetch")
<1>1. /\ Len(p) = 14 /\ p[1] = JOINT_HOME /\ p[2] = grip("wide")
      /\ p[3] = mj_abs(At("free", "fetch_scan")) /\ p[4] = WAIT_TOOL /\ p[5] = GRIP_RELEASE
      /\ p[6] = ABOVE_TOOL /\ p[7] = AT_TOOL /\ p[8] = GRIP_TOOL /\ p[9] = ABOVE_TOOL
      /\ p[10] = ml_abs(AboveStaging) /\ p[11] = ml_abs(OnStaging) /\ p[12] = GRIP_RELEASE
      /\ p[13] = ml_abs(AboveStaging) /\ p[14] = JOINT_HOME
  BY DEF vision_fetch_seq, PickSeen
<1>2. /\ "vision_fetch" \notin Drawers /\ "vision_fetch" \notin VisionDrawer
      /\ GraspStep("vision_fetch") = 8 /\ LetGoStep("vision_fetch") = 12
  BY DEF GraspStep, LetGoStep, Drawers, VisionDrawer, PlainDrawer
<1>3. /\ GripsInPlace(p, "vision_fetch") /\ TowsInPlace(p, "vision_fetch")
      /\ LetsGo(p, "vision_fetch") /\ EndsAtHome(p)
  BY <1>1, <1>2
  DEF GripsInPlace, TowsInPlace, LetsGo, EndsAtHome, Moves, MoveKinds, GRIP_RELEASE, GRIP_TOOL,
      grip, Step, mj_abs, ml_abs, JOINT_HOME, ABOVE_TOOL, AT_TOOL, WAIT_TOOL, Vision
<1>4. /\ GraspsAt(p, "vision_fetch") /\ PutsDown(p, "vision_fetch")
      /\ PullsInPlace(p, "vision_fetch")
  BY <1>1, <1>2
  DEF GraspsAt, PutsDown, PullsInPlace, Moves, MoveKinds, Step, ml_abs, OnStaging
<1> QED
  BY <1>3, <1>4 DEF Shape

\* The shape of vision_return_seq.
LEMMA VisionReturnShape ==
  ASSUME NEW p, p = vision_return_seq
  PROVE  Shape(p, "vision_return")
<1>1. /\ Len(p) = 14 /\ p[1] = JOINT_HOME /\ p[2] = grip("wide")
      /\ p[3] = mj_abs(At("free", "return_scan")) /\ p[4] = WAIT_TOOL /\ p[5] = GRIP_RELEASE
      /\ p[6] = ABOVE_TOOL /\ p[7] = AT_STAGED /\ p[8] = GRIP_TOOL /\ p[9] = ABOVE_TOOL
      /\ p[10] = ABOVE_SLOT /\ p[11] = AT_SLOT /\ p[12] = GRIP_RELEASE /\ p[13] = ABOVE_SLOT
      /\ p[14] = JOINT_HOME
  BY DEF vision_return_seq, PickSeen
<1>2. /\ "vision_return" \notin Drawers /\ "vision_return" \notin VisionDrawer
      /\ GraspStep("vision_return") = 8 /\ LetGoStep("vision_return") = 12
  BY DEF GraspStep, LetGoStep, Drawers, VisionDrawer, PlainDrawer
<1>3. /\ GripsInPlace(p, "vision_return") /\ TowsInPlace(p, "vision_return")
      /\ LetsGo(p, "vision_return") /\ EndsAtHome(p)
  BY <1>1, <1>2
  DEF GripsInPlace, TowsInPlace, LetsGo, EndsAtHome, Moves, MoveKinds, GRIP_RELEASE, GRIP_TOOL,
      grip, Step, mj_abs, JOINT_HOME, ABOVE_TOOL, AT_STAGED, ABOVE_SLOT, AT_SLOT, WAIT_TOOL,
      Vision
<1>4. /\ GraspsAt(p, "vision_return") /\ PutsDown(p, "vision_return")
      /\ PullsInPlace(p, "vision_return")
  BY <1>1, <1>2
  DEF GraspsAt, PutsDown, PullsInPlace, Moves, MoveKinds, Step, AT_SLOT, Vision
<1> QED
  BY <1>3, <1>4 DEF Shape

\* The shape of home_seq, which grasps nothing.
LEMMA HomeShape ==
  ASSUME NEW p, p = home_seq
  PROVE  Shape(p, "home")
<1>1. /\ Len(p) = 2 /\ p[1] = GRIP_RELEASE /\ p[2] = JOINT_HOME
  BY DEF home_seq
<1>2. /\ "home" \notin Drawers /\ "home" \notin VisionDrawer
      /\ GraspStep("home") = 8 /\ LetGoStep("home") = 12
  BY DEF GraspStep, LetGoStep, Drawers, VisionDrawer, PlainDrawer
<1>3. GripsInPlace(p, "home") /\ TowsInPlace(p, "home") /\ LetsGo(p, "home") /\ EndsAtHome(p)
  BY <1>1, <1>2
  DEF GripsInPlace, TowsInPlace, LetsGo, EndsAtHome, Moves, MoveKinds, GRIP_RELEASE, grip, Step,
      mj_abs, JOINT_HOME
<1>4. GraspsAt(p, "home") /\ PutsDown(p, "home") /\ PullsInPlace(p, "home")
  BY <1>1, <1>2
  DEF GraspsAt, PutsDown, PullsInPlace, ToolSeqs
<1> QED
  BY <1>3, <1>4 DEF Shape

\* Every sequence a process can be started for has the shape.
LEMMA ProgramShape ==
  ASSUME NEW name \in SeqNames
  PROVE  Shape(Program(name), name)
<1>1. CASE name \in {"vision_open_0", "vision_open_1"}
  <2>1. /\ name \in VisionDrawer /\ Opens(name)
        /\ Program(name) = OpenDrawer(LayerOf(name), "open", "silence", "inner", <<SERVO_XZ>>)
    BY <1>1 DEF VisionDrawer, Opens, Program, vision_drawer_open_seq
  <2> QED
    BY <2>1, OpenShape
<1>2. CASE name \in {"vision_close_0", "vision_close_1"}
  <2>1. /\ name \in VisionDrawer /\ ~Opens(name)
        /\ Program(name) =
             CloseDrawer(LayerOf(name), "opendown", "open", "close_end", <<SERVO_XZ>>)
    BY <1>2 DEF VisionDrawer, Opens, Program, vision_drawer_close_seq
  <2> QED
    BY <2>1, CloseShape
<1>3. CASE name \in {"open_0", "open_1", "open_0v2", "open_1v2"}
  <2>1. name \in PlainDrawer
    BY <1>3 DEF PlainDrawer
  <2>2. PICK a, b, c : Program(name) = OpenDrawer(LayerOf(name), a, b, c, <<>>)
    BY <1>3 DEF Program, drawer_open_seq, drawer_open_seq_v2
  <2> QED
    BY <2>1, <2>2, PlainOpenShape
<1>4. CASE name \in {"close_0", "close_1", "close_0v2", "close_1v2"}
  <2>1. name \in PlainDrawer
    BY <1>4 DEF PlainDrawer
  <2>2. PICK a, b, c : Program(name) = CloseDrawer(LayerOf(name), a, b, c, <<>>)
    BY <1>4 DEF Program, drawer_close_seq, drawer_close_seq_v2
  <2> QED
    BY <2>1, <2>2, PlainCloseShape
<1>5. CASE name \in ToolSeqs \cup {"home"}
  BY <1>5, SocketFetchShape, SocketReturnShape, VisionFetchShape, VisionReturnShape, HomeShape
  DEF ToolSeqs, Program
<1> QED
  BY <1>1, <1>2, <1>3, <1>4, <1>5 DEF SeqNames, VisionDrawer, PlainDrawer

----------------------------------------------------------------------------
(* The course of a process *)

\* A process that waits has not begun its sequence.
Fresh == \A r \in Runners : run[r].at = "waiting" => run[r].step = 1 /\ ~run[r].homing

\* The gripper holds nothing, or the load of the sequence while it is to be carried.
HandOK(x) ==
  \/ held = "none"
  \/ held = Load(x.name) /\ x.step \in GraspStep(x.name) + 1 .. LetGoStep(x.name)

\* The arm rests where the last motion took it; a servo step keeps it about there.
ArmOK(x) ==
  LET p == Program(x.name) IN
  /\ inflight = Still
  /\ x.step > 1 /\ Moves(p[x.step - 1]) => arm = p[x.step - 1].at
  /\ x.step > 2 /\ p[x.step - 1].kind = "VISUAL_SERVO_XZ" /\ Moves(p[x.step - 2])
     => arm = p[x.step - 2].at

\* What a process waits for is what its step asks for.
Fits(place, step) ==
  /\ place = "calling" => Moves(step)
  /\ place = "gripping" => step.kind = "GRIP"
  /\ place = "looking" => step.kind = "WAIT_VISION_XY"
  /\ place \in {"servo", "nudge"} => step.kind = "VISUAL_SERVO_XZ"

\* The number of the step is within the sequence, or one past it between steps.
StepOK(x, p) ==
  /\ x.step \in 1 .. Len(p) + 1
  /\ x.at # "between" => x.step <= Len(p) /\ Fits(x.at, p[x.step])

\* A process in its own sequence; a motion it asked for may have been stopped.
OnTheWay(x) ==
  /\ StepOK(x, Program(x.name))
  /\ HandOK(x)
  /\ IF x.at = "calling" THEN inflight \in {Still, Program(x.name)[x.step].at} ELSE ArmOK(x)

\* A process on its way home after a failure: the first step has let go, the
\* second one has brought the arm home.
OnTheWayHome(x) ==
  /\ StepOK(x, home_seq)
  /\ x.step > 1 => held = "none"
  /\ x.step > 2 => RobotReady
  /\ log # "clean"

\* The way home has not been gone to its end.
LostWay(x) == x.homing /\ x.step <= 2

\* Before the first step the robot is as its operator left it.
AtStart(x) == x.step = 1 /\ ~x.homing /\ RobotReady

\* What is known of the robot while process x is past the S-7 check.
Knows(x) ==
  /\ x.at \in Admitted => x.name \in SeqNames
  /\ x.at \in {"gate", "announce", "tcp"} => AtStart(x)
  /\ x.at \in Executing => IF x.homing THEN OnTheWayHome(x) ELSE OnTheWay(x)
  /\ x.at = "failing" => ~x.homing /\ (x.step = 0 => RobotReady)
  /\ x.at = "recording" => ~x.homing /\ x.name \in VisionDrawer /\ RobotReady
  /\ x.at = "ending" => log = "manual" \/ LostWay(x) \/ RobotReady

\* With a handle in the gripper the arm is under way only about that drawer.
Towed == held \in Handles /\ inflight # Still => inflight.place = held

\* Without a race every process knows where it is.
OnCourse == raced \/ (Towed /\ \A r \in Runners : Knows(run[r]))

----------------------------------------------------------------------------
\* Nothing is claimed for a process that is not past the check.
LEMMA OutsideKnows ==
  ASSUME NEW x, x.at \notin Admitted
  PROVE  Knows(x) /\ Knows(x)'
BY DEF Knows, Admitted, Active

\* What Go, Send and NextStep change of a process.
LEMMA GoFields ==
  ASSUME RunOK, NEW r \in Runners, NEW place, Go(r, place)
  PROVE  /\ run'[r].at = place /\ run'[r].name = run[r].name
         /\ run'[r].step = run[r].step /\ run'[r].homing = run[r].homing
         /\ \A q \in Runners \ {r} : run'[q] = run[q]
BY DEF RunOK, Run, Go

LEMMA SendFields ==
  ASSUME RunOK, NEW r \in Runners, NEW place, Send(r, place)
  PROVE  /\ run'[r].at = place /\ run'[r].name = run[r].name
         /\ run'[r].step = run[r].step /\ run'[r].homing = run[r].homing
         /\ \A q \in Runners \ {r} : run'[q] = run[q]
BY DEF RunOK, Run, Send

LEMMA NextStepFields ==
  ASSUME RunOK, NEW r \in Runners, NextStep(r)
  PROVE  /\ run'[r].at = "between" /\ run'[r].name = run[r].name
         /\ run'[r].step = run[r].step + 1 /\ run'[r].homing = run[r].homing
         /\ \A q \in Runners \ {r} : run'[q] = run[q]
BY DEF RunOK, Run, NextStep

\* It is enough to look at the one process that is past the check.
LEMMA CourseOfOne ==
  ASSUME IInv, OnCourse, NEW r \in Runners, run[r].at \in Admitted,
         \A q \in Runners \ {r} : run'[q] = run[q],
         raced' = raced, raced \/ (Towed' /\ Knows(run[r])')
  PROVE  OnCourse'
<1>1. CASE raced
  BY <1>1 DEF OnCourse
<1>2. CASE ~raced
  <2>1. \A q \in Runners \ {r} : run'[q].at \notin Admitted
    BY <1>2 DEF IInv, Alone
  <2>2. \A q \in Runners \ {r} : Knows(run[q])'
    BY <2>1, OutsideKnows DEF Knows, Admitted, Active
  <2> QED
    BY <1>2, <2>2 DEF OnCourse
<1> QED
  BY <1>1, <1>2

\* What is known of a process stays known when it stays where it is, even if the
\* arm is stopped.
LEMMA KnowsSame ==
  ASSUME NEW x, NEW y, Knows(x),
         y.at = x.at, y.name = x.name, y.step = x.step, y.homing = x.homing,
         held' = held, log' = log, (arm' = arm /\ inflight' = inflight) \/ Halt
  PROVE  Knows(y)'
<1>1. CASE inflight' = inflight /\ arm' = arm
  BY <1>1 DEF Knows, AtStart, RobotReady, OnTheWay, OnTheWayHome, LostWay, StepOK, HandOK, ArmOK
<1>2. CASE inflight # Still /\ inflight' = Still
  <2>1. ~RobotReady
    BY <1>2 DEF RobotReady
  <2>2. OnTheWay(x) => OnTheWay(y)'
    BY <1>2 DEF OnTheWay, StepOK, HandOK, ArmOK
  <2>3. OnTheWayHome(x) => OnTheWayHome(y)'
    BY <2>1 DEF OnTheWayHome, StepOK
  <2> QED
    BY <2>1, <2>2, <2>3 DEF Knows, LostWay, AtStart, Admitted, Active, Executing
<1> QED
  BY <1>1, <1>2 DEF Halt

----------------------------------------------------------------------------
\* The two steps of home_seq.
LEMMA HomeLen == Len(home_seq) = 2 /\ home_seq[1] = GRIP_RELEASE /\ home_seq[2] = JOINT_HOME
BY DEF home_seq

\* A process that comes past the check without a race finds the robot ready.
LEMMA BeginKnows ==
  ASSUME IInv, Fresh, OnCourse, NEW r \in Runners, Begin(r)
  PROVE  OnCourse'
<1>1. world' = world /\ log' = log
  BY DEF Begin
<1>2. CASE raced \/ raced'
  BY <1>2 DEF Begin, Race, history, OnCourse
<1>3. CASE Exit(r) /\ ~raced /\ ~raced'
  <2>1. run' = [run EXCEPT ![r] = Off]
    BY <1>3 DEF Exit
  <2>2. run'[r] = Off /\ \A q \in Runners \ {r} : run'[q] = run[q]
    BY <2>1 DEF IInv, RunOK
  <2>3. Knows(run[r])'
    BY <2>2, OutsideKnows DEF Off, Knows, Admitted, Active, Executing
  <2>4. \A q \in Runners \ {r} : Knows(run[q])'
    BY <1>1, <1>3, <2>2, KnowsSame DEF OnCourse, world
  <2> QED
    BY <1>1, <1>3, <2>3, <2>4 DEF OnCourse, Towed, world
<1>4. ASSUME NEW place \in {"gate", "announce"}, Go(r, place), Race(r), ~raced, ~raced',
             run[r].name \in SeqNames
      PROVE  OnCourse'
  <2>1. RobotReady /\ \A q \in Runners \ {r} : run[q].at \notin Admitted
    BY <1>4 DEF Race
  <2>2. /\ run'[r].at = place /\ run'[r].name \in SeqNames
        /\ run'[r].step = 1 /\ ~run'[r].homing
        /\ \A q \in Runners \ {r} : run'[q] = run[q]
    BY <1>4, GoFields DEF IInv, Fresh, Begin
  <2>3. Knows(run[r])'
    BY <1>1, <2>1, <2>2 DEF Knows, AtStart, RobotReady, world, Executing
  <2>4. \A q \in Runners \ {r} : run'[q].at \notin Admitted
    BY <2>1, <2>2
  <2>5. \A q \in Runners \ {r} : Knows(run[q])'
    BY <2>4, OutsideKnows DEF Knows, Admitted, Active
  <2>6. Towed'
    BY <1>1, <1>4 DEF OnCourse, Towed, world
  <2> QED
    BY <2>3, <2>5, <2>6 DEF OnCourse
<1> QED
  BY <1>2, <1>3, <1>4 DEF Begin

\* Steps of a process outside the check
LEMMA OutsideCourse ==
  ASSUME IInv, OnCourse, NEW r \in Runners,
         \/ \E name \in Launchable : Launch(r, name)
         \/ \E q \in Runners : Hear(r, q)
         \/ ServiceMissing(r) \/ GateRefuses(r) \/ SkipOpenDrawer(r) \/ End(r) \/ Kill(r)
  PROVE  OnCourse'
<1>1. world' = world /\ raced' = raced
  BY DEF Launch, Hear, ServiceMissing, GateRefuses, SkipOpenDrawer, End, Kill, history
<1>2. log' = log \/ run[r].at \in Admitted
  BY DEF Launch, Hear, ServiceMissing, GateRefuses, SkipOpenDrawer, End, Kill, Admitted, Active
<1>3. CASE raced
  BY <1>1, <1>3 DEF OnCourse
<1> SUFFICES ASSUME ~raced PROVE Towed' /\ \A q \in Runners : Knows(run[q])'
  BY <1>3 DEF OnCourse
<1>4. Towed'
  BY <1>1 DEF OnCourse, Towed, world
<1>5. run'[r].at \notin Admitted /\ \A q \in Runners \ {r} : run'[q] = run[q]
  <2>1. PICK x : run' = [run EXCEPT ![r] = x] /\ x.at \notin Admitted
    <3>1. CASE \E name \in Launchable : Launch(r, name)
      <4>1. PICK name \in Launchable : Launch(r, name)
        BY <3>1
      <4>2. [Off EXCEPT !.at = "waiting", !.name = name].at \notin Admitted
        BY DEF Off, Admitted, Active, Executing
      <4> QED
        BY <4>1, <4>2 DEF Launch
    <3>2. CASE \E q \in Runners : Hear(r, q)
      <4>1. PICK q \in Runners : Hear(r, q)
        BY <3>2
      <4>2. [run[r] EXCEPT !.heard = (moving[q] = "yes")].at \notin Admitted
        BY <4>1 DEF Hear, IInv, RunOK, Run, Admitted, Active, Executing
      <4> QED
        BY <4>1, <4>2 DEF Hear
    <3>3. CASE Exit(r)
      <4>1. Off.at \notin Admitted
        BY DEF Off, Admitted, Active, Executing
      <4> QED
        BY <3>3, <4>1 DEF Exit
    <3> QED
      BY <3>1, <3>2, <3>3 DEF ServiceMissing, GateRefuses, SkipOpenDrawer, End, Kill
  <2> QED
    BY <2>1 DEF IInv, RunOK
<1>6. Knows(run[r])'
  BY <1>5, OutsideKnows DEF Knows, Admitted, Active
<1>7. ASSUME NEW q \in Runners \ {r} PROVE Knows(run[q])'
  <2>1. CASE log' = log
    BY <1>1, <1>5, <2>1, KnowsSame DEF OnCourse, world
  <2>2. CASE log' # log
    <3>1. run[r].at \in Admitted
      BY <1>2, <2>2
    <3>2. run'[q].at \notin Admitted
      BY <3>1, <1>5 DEF IInv, Alone
    <3> QED
      BY <3>2, OutsideKnows DEF Knows, Admitted, Active
  <2> QED
    BY <2>1, <2>2
<1> QED
  BY <1>4, <1>6, <1>7

\* The store's answer, the announcement and the tool frame.
LEMMA GateCourse ==
  ASSUME IInv, OnCourse, NEW r \in Runners, GatePasses(r) \/ Announce(r) \/ SetTcp(r)
  PROVE  OnCourse'
<1>1. world' = world /\ raced' = raced /\ log' = log
  BY DEF GatePasses, Announce, SetTcp, history
<1>2. run[r].at \in {"gate", "announce", "tcp"} /\ run[r].at \in Admitted
  BY DEF GatePasses, Announce, SetTcp, Admitted, Active
<1> SUFFICES ASSUME ~raced PROVE OnCourse'
  BY <1>1 DEF OnCourse
<1>3. Towed'
  BY <1>1 DEF OnCourse, Towed, world
<1>4. AtStart(run[r]) /\ run[r].name \in SeqNames
  BY <1>2 DEF OnCourse, Knows
<1>5. CASE \E place \in {"announce", "tcp", "between"} : Go(r, place)
  <2>1. PICK place \in {"announce", "tcp", "between"} : Go(r, place)
    BY <1>5
  <2>2. /\ run'[r].at = place /\ run'[r].name \in SeqNames
        /\ run'[r].step = 1 /\ ~run'[r].homing
        /\ \A q \in Runners \ {r} : run'[q] = run[q]
    BY <2>1, <1>4, GoFields DEF IInv, AtStart
  <2>3. AtStart(run[r])'
    BY <1>1, <1>4, <2>2 DEF AtStart, RobotReady, world
  <2>4. OnTheWay(run[r])'
    <3>1. Len(Program(run'[r].name)) \in Nat /\ Len(Program(run'[r].name)) > 1
      BY <2>2, ProgramShape DEF Shape, EndsAtHome
    <3>2. StepOK(run[r], Program(run[r].name))'
      BY <2>2, <3>1 DEF StepOK, Fits
    <3> QED
      BY <3>2, <2>2, <2>3 DEF OnTheWay, HandOK, ArmOK, AtStart, RobotReady
  <2>5. Knows(run[r])'
    BY <2>2, <2>3, <2>4 DEF Knows, Executing
  <2> QED
    BY <1>1, <1>2, <1>3, <2>2, <2>5, CourseOfOne
<1>6. CASE run' = [run EXCEPT ![r].at = "failing", ![r].step = 0]
  <2>1. /\ run'[r].at = "failing" /\ run'[r].name \in SeqNames /\ ~run'[r].homing
        /\ \A q \in Runners \ {r} : run'[q] = run[q]
    BY <1>4, <1>6 DEF IInv, RunOK, Run, AtStart
  <2>2. RobotReady'
    BY <1>1, <1>4 DEF AtStart, RobotReady, world
  <2>3. Knows(run[r])'
    BY <2>1, <2>2 DEF Knows, Executing
  <2> QED
    BY <1>1, <1>2, <1>3, <2>1, <2>3, CourseOfOne
<1> QED
  BY <1>5, <1>6 DEF GatePasses, Announce, SetTcp

----------------------------------------------------------------------------
\* Between two steps; past the last one the robot is ready again.
LEMMA CheckCourse ==
  ASSUME IInv, OnCourse, NEW r \in Runners, Check(r)
  PROVE  OnCourse'
<1>1. world' = world /\ raced' = raced /\ log' = log
  BY DEF Check, history
<1>2. run[r].at = "between" /\ run[r].at \in Admitted /\ run[r].at \in Executing
  BY DEF Check, Admitted, Active, Executing
<1> SUFFICES ASSUME ~raced PROVE OnCourse'
  BY <1>1 DEF OnCourse
<1>3. Towed'
  BY <1>1 DEF OnCourse, Towed, world
<1>4. Knows(run[r]) /\ run[r].name \in SeqNames
  BY <1>2 DEF OnCourse, Knows
<1> DEFINE p == Steps(r)
           place == IF run[r].step > Len(p)
                    THEN IF run[r].homing \/ run[r].name \notin VisionDrawer
                         THEN "ending" ELSE "recording"
                    ELSE IF run[r].estop THEN Failed(r) ELSE "checked"
<1>5. Go(r, place)
  BY DEF Check, Fail
<1>6. /\ run'[r].at = place /\ run'[r].name = run[r].name
      /\ run'[r].step = run[r].step /\ run'[r].homing = run[r].homing
      /\ \A q \in Runners \ {r} : run'[q] = run[q]
  BY <1>5, GoFields DEF IInv
<1>7. CASE run[r].homing
  <2>1. p = home_seq /\ OnTheWayHome(run[r]) /\ log # "clean"
    BY <1>2, <1>4, <1>7 DEF Steps, Knows, OnTheWayHome
  <2>2. /\ place \in {"ending", "checked"}
        /\ place = "checked" => run[r].step <= Len(home_seq)
        /\ RobotReady \/ run[r].step <= 2
    BY <1>7, <2>1, HomeLen DEF Failed, OnTheWayHome, StepOK
  <2> HIDE DEF place
  <2>3. RobotReady => RobotReady'
    BY <1>1 DEF RobotReady, world
  <2>4. place = "checked" => OnTheWayHome(run[r])'
    BY <1>1, <1>6, <2>1, <2>2, HomeLen DEF OnTheWayHome, StepOK, Fits, world
  <2>5. RobotReady' \/ LostWay(run[r])'
    BY <1>6, <1>7, <2>2, <2>3 DEF LostWay
  <2>6. Knows(run[r])'
    BY <1>4, <1>6, <1>7, <2>2, <2>4, <2>5 DEF Knows, Executing
  <2> QED
    BY <1>1, <1>2, <1>3, <1>6, <2>6, CourseOfOne
<1>8. CASE ~run[r].homing
  <2>1. p = Program(run[r].name) /\ OnTheWay(run[r])
    BY <1>2, <1>4, <1>8 DEF Steps, Knows
  <2>2. Shape(p, run[r].name)
    BY <1>4, <2>1, ProgramShape
  <2>3. run[r].step \in 1 .. Len(p) + 1 /\ HandOK(run[r]) /\ ArmOK(run[r])
    BY <1>2, <2>1 DEF OnTheWay, StepOK
  <2>4. run[r].step > Len(p) => RobotReady
    <3> SUFFICES ASSUME run[r].step > Len(p) PROVE RobotReady
      OBVIOUS
    <3>1. /\ Len(p) \in Nat /\ Len(p) > 1 /\ Len(p) <= 14
          /\ Moves(p[Len(p)]) /\ p[Len(p)].at \in {Home, CatchHome}
      BY <2>2 DEF Shape, EndsAtHome
    <3>2. run[r].step - 1 = Len(p) /\ run[r].step > 1
      BY <2>3, <3>1
    <3>3. inflight = Still /\ arm \in {Home, CatchHome}
      BY <2>1, <2>3, <3>1, <3>2 DEF ArmOK
    <3>4. held = "none"
      <4>1. CASE run[r].name = "home"
        <5>1. Len(p) = 2
          BY <2>1, <4>1, HomeLen DEF Program
        <5>2. GraspStep(run[r].name) = 8
          BY <4>1 DEF GraspStep, PlainDrawer, VisionDrawer
        <5> QED
          BY <2>3, <3>2, <5>1, <5>2 DEF HandOK
      <4>2. CASE run[r].name # "home"
        <5>1. LetGoStep(run[r].name) < Len(p) /\ LetGoStep(run[r].name) \in Nat
          BY <2>2, <4>2 DEF Shape, LetsGo, LetGoStep
        <5> QED
          BY <2>3, <3>1, <3>2, <5>1 DEF HandOK, GraspStep
      <4> QED
        BY <4>1, <4>2
    <3> QED
      BY <3>3, <3>4 DEF RobotReady
  <2>5. /\ place \in {"ending", "recording", "failing", "checked"}
        /\ place = "recording" => run[r].name \in VisionDrawer
        /\ place \in {"recording", "ending"} => RobotReady
        /\ place = "checked" => run[r].step <= Len(p)
        /\ run[r].step # 0
    BY <1>8, <2>3, <2>4, <2>2 DEF Failed, Shape, EndsAtHome
  <2> HIDE DEF place
  <2>6. RobotReady => RobotReady'
    BY <1>1 DEF RobotReady, world
  <2>7. place = "checked" => OnTheWay(run[r])'
    BY <1>1, <1>6, <2>1, <2>3, <2>5 DEF OnTheWay, StepOK, Fits, HandOK, ArmOK, world
  <2>8. Knows(run[r])'
    BY <1>4, <1>6, <1>8, <2>5, <2>6, <2>7 DEF Knows, Executing
  <2> QED
    BY <1>1, <1>2, <1>3, <1>6, <2>8, CourseOfOne
<1> QED
  BY <1>7, <1>8

\* Where a failed step leads
LEMMA FailCourse ==
  ASSUME IInv, OnCourse, NEW r \in Runners, Fail(r), run[r].at \in Executing \ {"between"},
         raced' = raced, log' = log, Towed'
  PROVE  OnCourse'
<1> SUFFICES ASSUME ~raced PROVE OnCourse'
  BY DEF OnCourse
<1>1. run[r].at \in Admitted
  BY DEF Admitted, Active
<1>2. Knows(run[r])
  BY DEF OnCourse
<1>3. /\ run'[r].at = Failed(r) /\ run'[r].name = run[r].name
      /\ run'[r].homing = run[r].homing /\ run'[r].step = run[r].step
      /\ \A q \in Runners \ {r} : run'[q] = run[q]
  BY GoFields DEF IInv, Fail
<1>4. /\ run[r].name \in SeqNames /\ run[r].step # 0
      /\ run[r].homing => run[r].step <= 2
  BY <1>1, <1>2, HomeLen DEF Knows, OnTheWayHome, OnTheWay, StepOK
<1>5. Knows(run[r])'
  BY <1>3, <1>4 DEF Knows, LostWay, Failed, Executing
<1> QED
  BY <1>1, <1>3, <1>5, CourseOfOne

\* A step is done and the gripper and the arm are as it leaves them.
LEMMA NextStepCourse ==
  ASSUME IInv, OnCourse, NEW r \in Runners, NextStep(r), run[r].at \in Executing,
         run[r].at # "between",
         raced' = raced, log' = log, Towed', inflight' = Still,
         run[r].homing => held' = "none" /\ (run[r].step = 2 => RobotReady'),
         ~run[r].homing => HandOK(run[r])',
         ~run[r].homing => ArmOK(run[r])'
  PROVE  OnCourse'
<1> SUFFICES ASSUME ~raced PROVE OnCourse'
  BY DEF OnCourse
<1>1. run[r].at \in Admitted
  BY DEF Admitted, Active
<1>2. Knows(run[r])
  BY DEF OnCourse
<1>3. /\ run'[r].at = "between" /\ run'[r].name = run[r].name
      /\ run'[r].step = run[r].step + 1 /\ run'[r].homing = run[r].homing
      /\ \A q \in Runners \ {r} : run'[q] = run[q]
  BY NextStepFields DEF IInv
<1>4. run[r].name \in SeqNames
  BY <1>1, <1>2 DEF Knows
<1>5. CASE run[r].homing
  <2>1. OnTheWayHome(run[r])
    BY <1>2, <1>5 DEF Knows
  <2>2. StepOK(run[r], home_seq)'
    BY <1>3, <2>1, HomeLen DEF OnTheWayHome, StepOK
  <2>3. run'[r].step > 2 => RobotReady'
    BY <1>3, <1>5, <2>1, HomeLen DEF OnTheWayHome, StepOK
  <2>4. OnTheWayHome(run[r])'
    BY <1>5, <2>1, <2>2, <2>3 DEF OnTheWayHome
  <2>5. Knows(run[r])'
    BY <1>3, <1>4, <1>5, <2>4 DEF Knows, Executing
  <2> QED
    BY <1>1, <1>3, <2>5, CourseOfOne
<1>6. CASE ~run[r].homing
  <2>1. OnTheWay(run[r])
    BY <1>2, <1>6 DEF Knows
  <2>2. Len(Program(run[r].name)) \in Nat
    BY <1>4, ProgramShape DEF Shape, EndsAtHome
  <2>3. StepOK(run[r], Program(run[r].name))'
    BY <1>3, <2>1, <2>2 DEF OnTheWay, StepOK
  <2>4. OnTheWay(run[r])'
    BY <1>3, <1>6, <2>3 DEF OnTheWay
  <2>5. Knows(run[r])'
    BY <1>3, <1>4, <1>6, <2>4 DEF Knows, Executing
  <2> QED
    BY <1>1, <1>3, <2>5, CourseOfOne
<1> QED
  BY <1>5, <1>6

----------------------------------------------------------------------------
\* A process goes on with its step, in another place of it.
LEMMA StayCourse ==
  ASSUME IInv, OnCourse, NEW r \in Runners, NEW place \in Executing \ {"between", "calling"},
         run[r].at \in Executing \ {"between", "calling"},
         run'[r].at = place, run'[r].name = run[r].name,
         run'[r].step = run[r].step, run'[r].homing = run[r].homing,
         \A q \in Runners \ {r} : run'[q] = run[q],
         Fits(place, Current(r)),
         world' = world, raced' = raced, log' = log
  PROVE  OnCourse'
<1> SUFFICES ASSUME ~raced PROVE OnCourse'
  BY DEF OnCourse
<1>1. run[r].at \in Admitted /\ place \in Admitted
  BY DEF Admitted, Active
<1>2. Knows(run[r]) /\ Towed'
  BY DEF OnCourse, Towed, world
<1>3. run[r].name \in SeqNames
  BY <1>1, <1>2 DEF Knows
<1>4. run[r].homing => OnTheWayHome(run[r])'
  BY <1>2, HomeLen DEF Knows, OnTheWayHome, StepOK, RobotReady, Current, Steps, world
<1>5. ~run[r].homing => OnTheWay(run[r])'
  BY <1>2 DEF Knows, OnTheWay, StepOK, HandOK, ArmOK, Current, Steps, world
<1>6. Knows(run[r])'
  BY <1>3, <1>4, <1>5 DEF Knows, Executing
<1> QED
  BY <1>1, <1>2, <1>6, CourseOfOne

\* A step that asks for something else than a motion.
LEMMA AsksCourse ==
  ASSUME IInv, OnCourse, NEW r \in Runners,
         CallGrip(r) \/ StartLooking(r) \/ StartServo(r) \/ ServoTimesOut(r)
  PROVE  OnCourse'
<1>1. world' = world /\ raced' = raced /\ log' = log
  BY DEF CallGrip, StartLooking, StartServo, ServoTimesOut, history
<1>2. PICK place \in {"gripping", "looking", "servo"} :
        /\ run'[r].at = place /\ run'[r].name = run[r].name
        /\ run'[r].step = run[r].step /\ run'[r].homing = run[r].homing
        /\ \A q \in Runners \ {r} : run'[q] = run[q]
        /\ run[r].at = place \/ Fits(place, Current(r))
  <2>1. CASE CallGrip(r)
    BY <2>1, SendFields DEF CallGrip, IInv, Fits
  <2>2. CASE StartLooking(r)
    BY <2>2 DEF StartLooking, IInv, RunOK, Run, Fits
  <2>3. CASE StartServo(r)
    BY <2>3 DEF StartServo, IInv, RunOK, Run, Fits
  <2>4. CASE ServoTimesOut(r)
    BY <2>4 DEF ServoTimesOut, IInv, RunOK, Run
  <2> QED
    BY <2>1, <2>2, <2>3, <2>4
<1>3. run[r].at \in {"checked", "servo"}
  BY DEF CallGrip, StartLooking, StartServo, ServoTimesOut
<1>4. CASE run[r].at = place /\ ~raced
  <2>1. Knows(run[r])'
    BY <1>1, <1>2, <1>4, KnowsSame DEF OnCourse, world
  <2>2. Towed'
    BY <1>1, <1>4 DEF OnCourse, Towed, world
  <2> QED
    BY <1>1, <1>2, <1>3, <2>1, <2>2, CourseOfOne DEF Admitted, Active, Executing
<1>5. CASE raced
  BY <1>1, <1>5 DEF OnCourse
<1>6. CASE Fits(place, Current(r))
  BY <1>1, <1>2, <1>3, <1>6, StayCourse DEF Executing
<1> QED
  BY <1>2, <1>4, <1>5, <1>6

\* The topics, and the E-stop, which may stop the arm at any moment.
LEMMA SeesCourse ==
  ASSUME IInv, OnCourse, NEW r \in Runners, SeeTool(r) \/ SeeHandle(r) \/ HearEStop(r)
  PROVE  OnCourse'
<1>1. raced' = raced /\ log' = log /\ held' = held
  BY DEF SeeTool, SeeHandle, HearEStop, Halt, world, history
<1>2. (arm' = arm /\ inflight' = inflight) \/ Halt
  BY DEF SeeTool, SeeHandle, HearEStop, world
<1>3. \A q \in Runners : /\ run'[q].at = run[q].at /\ run'[q].name = run[q].name
                         /\ run'[q].step = run[q].step /\ run'[q].homing = run[q].homing
  BY DEF SeeTool, SeeHandle, HearEStop, IInv, RunOK, Run
<1>4. CASE raced
  BY <1>1, <1>4 DEF OnCourse
<1>5. CASE ~raced
  <2>1. \A q \in Runners : Knows(run[q])'
    BY <1>1, <1>2, <1>3, <1>5, KnowsSame DEF OnCourse
  <2>2. Towed'
    BY <1>1, <1>2, <1>5 DEF OnCourse, Towed, Halt
  <2> QED
    BY <2>1, <2>2 DEF OnCourse
<1> QED
  BY <1>4, <1>5

\* A motion nobody waits for, and the operator.
LEMMA WorldCourse ==
  ASSUME IInv, OnCourse, OrphanArrives \/ PutInOrder
  PROVE  OnCourse'
<1>1. raced' = raced /\ log' = log /\ run' = run
  BY DEF OrphanArrives, PutInOrder, history
<1> SUFFICES ASSUME ~raced PROVE OnCourse'
  BY <1>1 DEF OnCourse
<1>2. CASE OrphanArrives
  <2>1. Towed'
    BY <1>2 DEF OrphanArrives, Towed
  <2>2. ~RobotReady /\ inflight # Still
    BY <1>2 DEF OrphanArrives, RobotReady
  <2>3. ASSUME NEW q \in Runners PROVE Knows(run[q])'
    <3>1. Knows(run[q]) /\ run[q].at # "calling"
      BY <1>2 DEF OnCourse, OrphanArrives
    <3>2. ~OnTheWay(run[q])
      BY <2>2, <3>1 DEF OnTheWay, ArmOK
    <3>3. OnTheWayHome(run[q]) => OnTheWayHome(run[q])'
      BY <1>1, <1>2, <2>2 DEF OrphanArrives, OnTheWayHome, StepOK
    <3> QED
      BY <1>1, <2>2, <3>1, <3>2, <3>3 DEF Knows, LostWay, AtStart, Admitted, Active, Executing
  <2> QED
    BY <2>1, <2>3 DEF OnCourse
<1>3. CASE PutInOrder
  <2>1. Towed'
    BY <1>3 DEF PutInOrder, Towed, Handles, Layers
  <2>2. \A q \in Runners : run'[q].at \notin Admitted
    BY <1>1, <1>3 DEF PutInOrder, Live, Admitted, Active, Executing
  <2>3. \A q \in Runners : Knows(run[q])'
    BY <2>2, OutsideKnows DEF Knows, Admitted, Active
  <2> QED
    BY <2>1, <2>3 DEF OnCourse
<1> QED
  BY <1>2, <1>3

\* A failure is logged before the arm is sent home; a result is recorded.
LEMMA FailureCourse ==
  ASSUME IInv, OnCourse, NEW r \in Runners, OnFailure(r) \/ Record(r)
  PROVE  OnCourse'
<1>1. raced' = raced
  BY DEF OnFailure, Record, history
<1> SUFFICES ASSUME ~raced PROVE OnCourse'
  BY <1>1 DEF OnCourse
<1>2. run[r].at \in {"failing", "recording"} /\ run[r].at \in Admitted
  BY DEF OnFailure, Record, Admitted, Active
<1>3. Knows(run[r]) /\ run[r].name \in SeqNames
  BY <1>2 DEF OnCourse, Knows
<1>4. Towed'
  BY DEF OnFailure, Record, OnCourse, Towed, Halt, world
<1>5. CASE OnFailure(r)
  <2>1. log' # "clean" /\ (run[r].step # 0 /\ run[r].estop => log' = "manual")
    BY <1>5 DEF OnFailure, LogFailure
  <2>2. \/ run'[r].at = "ending" /\ (run[r].step = 0 \/ run[r].estop)
        \/ run'[r].at = "between" /\ run'[r].step = 1 /\ run'[r].homing
    BY <1>5 DEF OnFailure, IInv, RunOK, Run
  <2>3. /\ run'[r].name = run[r].name
        /\ \A q \in Runners \ {r} : run'[q] = run[q]
    BY <1>5 DEF OnFailure, IInv, RunOK, Run
  <2>4. run[r].step = 0 => RobotReady'
    BY <1>3, <1>5 DEF Knows, OnFailure, Halt, RobotReady, world
  <2>5. Knows(run[r])'
    BY <1>3, <2>1, <2>2, <2>3, <2>4, HomeLen DEF Knows, OnTheWayHome, StepOK, Executing
  <2> QED
    BY <1>1, <1>2, <1>4, <2>3, <2>5, CourseOfOne
<1>6. CASE Record(r)
  <2>1. Go(r, "ending") /\ world' = world
    BY <1>6 DEF Record
  <2>2. /\ run'[r].at = "ending" /\ run'[r].name = run[r].name
        /\ \A q \in Runners \ {r} : run'[q] = run[q]
    BY <2>1, GoFields DEF IInv
  <2>3. RobotReady'
    BY <1>3, <1>6, <2>1 DEF Knows, Record, RobotReady, world
  <2>4. Knows(run[r])'
    BY <1>3, <2>2, <2>3 DEF Knows, Executing
  <2> QED
    BY <1>1, <1>2, <1>4, <2>2, <2>4, CourseOfOne
<1> QED
  BY <1>5, <1>6

----------------------------------------------------------------------------
\* What the course says of a step that is being done.
LEMMA InStep ==
  ASSUME IInv, OnCourse, ~raced, NEW r \in Runners,
         run[r].at \in Executing \ {"between"}
  PROVE  /\ run[r].name \in SeqNames /\ Fits(run[r].at, Current(r))
         /\ run[r].homing =>
              /\ Steps(r) = home_seq /\ log # "clean" /\ run[r].step \in {1, 2}
              /\ run[r].step = 2 => held = "none"
         /\ ~run[r].homing =>
              /\ Steps(r) = Program(run[r].name) /\ Shape(Steps(r), run[r].name)
              /\ run[r].step \in 1 .. Len(Steps(r)) /\ HandOK(run[r])
              /\ IF run[r].at = "calling" THEN inflight \in {Still, Current(r).at}
                                          ELSE ArmOK(run[r])
<1>1. Knows(run[r]) /\ run[r].name \in SeqNames
  BY DEF OnCourse, Knows, Admitted, Active
<1>2. CASE run[r].homing
  BY <1>1, <1>2, HomeLen DEF Knows, OnTheWayHome, StepOK, Current, Steps
<1>3. CASE ~run[r].homing
  <2>1. OnTheWay(run[r]) /\ Steps(r) = Program(run[r].name)
    BY <1>1, <1>3 DEF Knows, Steps
  <2>2. Shape(Steps(r), run[r].name)
    BY <1>1, <2>1, ProgramShape
  <2>3. Len(Steps(r)) \in Nat
    BY <2>2 DEF Shape, EndsAtHome
  <2> QED
    BY <1>1, <1>3, <2>1, <2>2, <2>3 DEF OnTheWay, StepOK, Current
<1> QED
  BY <1>2, <1>3

\* A step that is no stroke of the gripper changes nothing of its load.
LEMMA HandStays ==
  ASSUME IInv, OnCourse, ~raced, NEW r \in Runners, run[r].at \in Executing \ {"between"},
         ~run[r].homing, Current(r).kind # "GRIP", NextStep(r), held' = held
  PROVE  HandOK(run[r])'
<1>1. /\ Shape(Steps(r), run[r].name) /\ HandOK(run[r]) /\ run[r].step \in Nat
      /\ Current(r) = Steps(r)[run[r].step]
  BY InStep DEF Current
<1>2. run'[r].name = run[r].name /\ run'[r].step = run[r].step + 1
  BY NextStepFields DEF IInv
<1>3. run[r].name # "home" => run[r].step # LetGoStep(run[r].name)
  BY <1>1 DEF Shape, LetsGo
<1>4. run[r].name = "home" => run[r].step < 9
  <2> SUFFICES ASSUME run[r].name = "home" PROVE run[r].step < 9
    OBVIOUS
  <2>1. Len(Steps(r)) = 2
    BY HomeLen, InStep DEF Program
  <2>2. run[r].step \in 1 .. Len(Steps(r))
    BY InStep
  <2> QED
    BY <2>1, <2>2
<1>5. CASE held = "none"
  BY <1>5 DEF HandOK
<1>6. CASE held # "none"
  <2>1. /\ held = Load(run[r].name)
        /\ run[r].step \in GraspStep(run[r].name) + 1 .. LetGoStep(run[r].name)
    BY <1>1, <1>6 DEF HandOK
  <2>2. run[r].name # "home"
    BY <1>4, <2>1 DEF GraspStep, PlainDrawer, VisionDrawer
  <2>3. GraspStep(run[r].name) \in Nat /\ LetGoStep(run[r].name) \in Nat
    BY DEF GraspStep, LetGoStep
  <2>4. run'[r].step \in GraspStep(run[r].name) + 1 .. LetGoStep(run[r].name)
    BY <1>1, <1>2, <1>3, <2>1, <2>2, <2>3
  <2> QED
    BY <1>2, <2>1, <2>4 DEF HandOK
<1> QED
  BY <1>5, <1>6

\* With a handle in the gripper a sequence asks only for waypoints of that drawer.
LEMMA TowsOnlyItsOwn ==
  ASSUME IInv, OnCourse, ~raced, NEW r \in Runners, run[r].at \in Executing \ {"between"},
         Moves(Current(r)), held \in Handles
  PROVE  Current(r).at.place = held
<1> DEFINE name == run[r].name
<1>1. Current(r).kind # "GRIP" /\ held # "none" /\ held # "tool"
  BY DEF Moves, MoveKinds, Handles, Layers
<1>2. ~run[r].homing
  BY <1>1, InStep, HomeLen DEF Current, GRIP_RELEASE, grip, Step
<1>3. /\ Shape(Steps(r), name) /\ run[r].step \in Nat
      /\ HandOK(run[r]) /\ Current(r) = Steps(r)[run[r].step]
  BY <1>2, InStep DEF Current
<1>4. held = Load(name) /\ run[r].step \in GraspStep(name) + 1 .. LetGoStep(name)
  BY <1>1, <1>3 DEF HandOK
<1>5. name \in Drawers /\ held = LayerOf(name) /\ name # "home"
  BY <1>1, <1>4 DEF Load, Drawers, VisionDrawer, PlainDrawer
<1>6. run[r].step # LetGoStep(name)
  BY <1>1, <1>3, <1>5 DEF Shape, LetsGo
<1>7. GraspStep(name) \in Nat /\ LetGoStep(name) \in Nat
  BY DEF GraspStep, LetGoStep
<1>8. run[r].step \in GraspStep(name) + 1 .. LetGoStep(name) - 1
  BY <1>3, <1>4, <1>6, <1>7
<1> QED
  BY <1>3, <1>5, <1>8 DEF Shape, TowsInPlace

\* A motion is asked for.
LEMMA CallMoveCourse ==
  ASSUME IInv, OnCourse, NEW r \in Runners, CallMove(r)
  PROVE  OnCourse'
<1>1. raced' = raced /\ log' = log /\ held' = held /\ inflight' = Current(r).at
  BY DEF CallMove, history
<1> SUFFICES ASSUME ~raced PROVE OnCourse'
  BY <1>1 DEF OnCourse
<1>2. /\ run[r].at = "checked" /\ run[r].at \in Executing \ {"between"}
      /\ run[r].at \in Admitted /\ Moves(Current(r))
  BY DEF CallMove, Moves, Executing, Admitted, Active
<1>3. /\ run'[r].at = "calling" /\ run'[r].name = run[r].name
      /\ run'[r].step = run[r].step /\ run'[r].homing = run[r].homing
      /\ \A q \in Runners \ {r} : run'[q] = run[q]
  BY SendFields DEF IInv, CallMove
<1>4. Current(r).kind # "GRIP"
  BY <1>2 DEF Moves, MoveKinds
<1>5. run[r].name \in SeqNames
  BY <1>2, InStep
<1>6. CASE run[r].homing
  <2>1. run[r].step = 2 /\ held = "none" /\ log # "clean"
    BY <1>2, <1>4, <1>6, InStep, HomeLen DEF Current, GRIP_RELEASE, grip, Step
  <2>2. Towed'
    BY <1>1, <2>1 DEF Towed, Handles, Layers
  <2>3. Moves(home_seq[2])
    BY HomeLen DEF Moves, MoveKinds, JOINT_HOME, mj_abs, Step
  <2>4. OnTheWayHome(run[r])'
    BY <1>1, <1>3, <2>1, <2>3, HomeLen DEF OnTheWayHome, StepOK, Fits
  <2>5. Knows(run[r])'
    BY <1>3, <1>5, <1>6, <2>4 DEF Knows, Executing
  <2> QED
    BY <1>1, <1>2, <1>3, <2>2, <2>5, CourseOfOne
<1>7. CASE ~run[r].homing
  <2>1. /\ Steps(r) = Program(run[r].name) /\ Shape(Steps(r), run[r].name)
        /\ run[r].step \in 1 .. Len(Steps(r)) /\ HandOK(run[r])
        /\ Current(r) = Steps(r)[run[r].step]
    BY <1>2, <1>7, InStep DEF Current
  <2>2. Towed'
    BY <1>1, <1>2, TowsOnlyItsOwn DEF Towed
  <2>3. Len(Steps(r)) \in Nat
    BY <2>1 DEF Shape, EndsAtHome
  <2>4. OnTheWay(run[r])'
    BY <1>1, <1>2, <1>3, <2>1, <2>3 DEF OnTheWay, StepOK, Fits, HandOK
  <2>5. Knows(run[r])'
    BY <1>3, <1>5, <1>7, <2>4 DEF Knows, Executing
  <2> QED
    BY <1>1, <1>2, <1>3, <2>2, <2>5, CourseOfOne
<1> QED
  BY <1>6, <1>7

\* A motion is not asked for, or fails.
LEMMA MotionFailsCourse ==
  ASSUME IInv, OnCourse, NEW r \in Runners, AimFails(r) \/ MoveFails(r)
  PROVE  OnCourse'
<1>1. raced' = raced /\ log' = log /\ Fail(r) /\ run[r].at \in Executing \ {"between"}
  BY DEF AimFails, MoveFails, history, Executing
<1>2. CASE raced
  BY <1>1, <1>2 DEF OnCourse
<1>3. CASE ~raced
  <2>1. Towed'
    BY <1>3 DEF AimFails, MoveFails, Halt, OnCourse, Towed, world
  <2> QED
    BY <1>1, <2>1, FailCourse
<1> QED
  BY <1>2, <1>3

\* A motion arrives.
LEMMA MoveArrivesCourse ==
  ASSUME IInv, OnCourse, NEW r \in Runners, MoveArrives(r)
  PROVE  OnCourse'
<1>1. /\ raced' = raced /\ log' = log /\ held' = held /\ NextStep(r)
      /\ arm' = inflight /\ inflight = Current(r).at /\ inflight' = Still
  BY DEF MoveArrives, history
<1>2. run[r].at = "calling" /\ run[r].at \in Executing \ {"between"}
  BY DEF MoveArrives, Executing
<1> SUFFICES ASSUME ~raced PROVE OnCourse'
  BY <1>1 DEF OnCourse
<1>3. Towed'
  BY <1>1 DEF Towed
<1>4. Moves(Current(r)) /\ Current(r).kind # "GRIP" /\ Current(r).kind # "VISUAL_SERVO_XZ"
  BY <1>2, InStep DEF Fits, Moves, MoveKinds
<1>5. run[r].homing => held' = "none" /\ RobotReady'
  <2> SUFFICES ASSUME run[r].homing PROVE held' = "none" /\ RobotReady'
    OBVIOUS
  <2>1. run[r].step = 2 /\ held = "none" /\ Current(r) = JOINT_HOME
    BY <1>2, <1>4, InStep, HomeLen DEF Current, GRIP_RELEASE, grip, Step
  <2>2. Current(r).at = Home
    BY <2>1 DEF JOINT_HOME, mj_abs, Step
  <2> QED
    BY <1>1, <2>1, <2>2 DEF RobotReady
<1>6. ~run[r].homing => HandOK(run[r])'
  BY <1>1, <1>2, <1>4, HandStays
<1>7. ~run[r].homing => ArmOK(run[r])'
  <2> SUFFICES ASSUME ~run[r].homing PROVE ArmOK(run[r])'
    OBVIOUS
  <2>1. run'[r].name = run[r].name /\ run'[r].step = run[r].step + 1
    BY <1>1, NextStepFields DEF IInv
  <2>2. run'[r].step - 1 = run[r].step /\ Current(r) = Program(run[r].name)[run[r].step]
    BY <1>2, <2>1, InStep DEF Current
  <2> QED
    BY <1>1, <1>4, <2>1, <2>2 DEF ArmOK
<1> QED
  BY <1>1, <1>2, <1>3, <1>5, <1>6, <1>7, NextStepCourse

----------------------------------------------------------------------------
\* An opening stroke leaves nothing in the gripper.
LEMMA Releases ==
  ASSUME NEW stroke \in {"release", "wide"}
  PROVE  Grasp(stroke) = "none"
BY DEF Grasp

\* The tool has been seen, or not in time.
LEMMA LookedCourse ==
  ASSUME IInv, OnCourse, NEW r \in Runners, Looked(r)
  PROVE  OnCourse'
<1>1. world' = world /\ raced' = raced /\ log' = log
  BY DEF Looked, history
<1>2. run[r].at = "looking" /\ run[r].at \in Executing \ {"between", "calling"}
  BY DEF Looked, Executing
<1> SUFFICES ASSUME ~raced PROVE OnCourse'
  BY <1>1 DEF OnCourse
<1>3. Towed'
  BY <1>1 DEF OnCourse, Towed, world
<1>4. CASE Fail(r)
  BY <1>1, <1>2, <1>3, <1>4, FailCourse
<1>5. CASE NextStep(r)
  <2>1. Current(r).kind = "WAIT_VISION_XY"
    BY <1>2, InStep DEF Fits
  <2>2. ~run[r].homing
    BY <1>2, <2>1, InStep, HomeLen DEF Current, GRIP_RELEASE, grip, JOINT_HOME, mj_abs, Step
  <2>3. HandOK(run[r])'
    BY <1>1, <1>2, <1>5, <2>1, <2>2, HandStays DEF world
  <2>4. ArmOK(run[r])'
    <3>1. run'[r].name = run[r].name /\ run'[r].step = run[r].step + 1 /\ run[r].step \in Nat
      BY <1>5, NextStepFields DEF IInv, RunOK, Run
    <3>2. run'[r].step - 1 = run[r].step /\ Current(r) = Program(run[r].name)[run[r].step]
      BY <1>2, <2>2, <3>1, InStep DEF Current
    <3>3. inflight' = Still
      BY <1>1, <1>2, <2>2, InStep DEF ArmOK, world
    <3> QED
      BY <2>1, <3>1, <3>2, <3>3 DEF ArmOK, Moves, MoveKinds
  <2>5. inflight' = Still
    BY <2>4 DEF ArmOK
  <2> QED
    BY <1>1, <1>2, <1>3, <1>5, <2>2, <2>3, <2>4, <2>5, NextStepCourse
<1> QED
  BY <1>4, <1>5 DEF Looked

\* A tick of the servo loop.
LEMMA ServoTickCourse ==
  ASSUME IInv, OnCourse, NEW r \in Runners, ServoTick(r)
  PROVE  OnCourse'
<1>1. world' = world /\ raced' = raced /\ log' = log
  BY DEF ServoTick, history
<1>2. run[r].at = "servo" /\ run[r].at \in Executing \ {"between", "calling"}
  BY DEF ServoTick, Executing
<1> SUFFICES ASSUME ~raced PROVE OnCourse'
  BY <1>1 DEF OnCourse
<1>3. Towed'
  BY <1>1 DEF OnCourse, Towed, world
<1>4. Current(r).kind = "VISUAL_SERVO_XZ"
  BY <1>2, InStep DEF Fits
<1>5. ~run[r].homing
  BY <1>2, <1>4, InStep, HomeLen DEF Current, GRIP_RELEASE, grip, JOINT_HOME, mj_abs, Step
<1>6. CASE Fail(r)
  BY <1>1, <1>2, <1>3, <1>6, FailCourse
<1>7. CASE NextStep(r)
  <2>3. HandOK(run[r])'
    BY <1>1, <1>2, <1>4, <1>5, <1>7, HandStays DEF world
  <2>4. ArmOK(run[r])'
    <3>1. run'[r].name = run[r].name /\ run'[r].step = run[r].step + 1 /\ run[r].step \in Nat
      BY <1>7, NextStepFields DEF IInv, RunOK, Run
    <3>2. /\ run'[r].step - 1 = run[r].step /\ Current(r) = Program(run[r].name)[run[r].step]
          /\ run'[r].step - 2 = run[r].step - 1 /\ ArmOK(run[r])
      BY <1>2, <1>5, <3>1, InStep DEF Current
    <3>3. inflight' = inflight /\ arm' = arm
      BY <1>1 DEF world
    <3> QED
      BY <1>4, <3>1, <3>2, <3>3 DEF ArmOK, Moves, MoveKinds
  <2>5. inflight' = Still
    BY <2>4 DEF ArmOK
  <2> QED
    BY <1>1, <1>2, <1>3, <1>5, <1>7, <2>3, <2>4, <2>5, NextStepCourse
<1>8. ASSUME NEW near \in BOOLEAN,
             run' = [run EXCEPT
                 ![r].servo = tick(@, run[r].estop, FALSE, run[r].handle, near),
                 ![r].at = IF commands(run[r].servo, run[r].estop, FALSE, run[r].handle, near)
                           THEN "nudge" ELSE @]
      PROVE  OnCourse'
  <2> DEFINE place == IF commands(run[r].servo, run[r].estop, FALSE, run[r].handle, near)
                      THEN "nudge" ELSE "servo"
  <2>1. /\ run'[r].at = place /\ run'[r].name = run[r].name
        /\ run'[r].step = run[r].step /\ run'[r].homing = run[r].homing
        /\ \A q \in Runners \ {r} : run'[q] = run[q]
    BY <1>2, <1>8 DEF IInv, RunOK, Run
  <2>2. place \in Executing \ {"between", "calling"} /\ Fits(place, Current(r))
    BY <1>4 DEF Executing, Fits
  <2> HIDE DEF place
  <2> QED
    BY <1>1, <1>2, <2>1, <2>2, StayCourse
<1> QED
  BY <1>6, <1>7, <1>8 DEF ServoTick

\* A small motion of the servo loop.
LEMMA NudgeCourse ==
  ASSUME IInv, OnCourse, NEW r \in Runners, Nudge(r)
  PROVE  OnCourse'
<1>1. world' = world /\ raced' = raced /\ log' = log
  BY DEF Nudge, history
<1>2. /\ run[r].at = "nudge" /\ run[r].at \in Admitted
      /\ run[r].at \in Executing \ {"between", "calling"}
  BY DEF Nudge, Executing, Admitted, Active
<1> SUFFICES ASSUME ~raced PROVE OnCourse'
  BY <1>1 DEF OnCourse
<1>3. Current(r).kind = "VISUAL_SERVO_XZ"
  BY <1>2, InStep DEF Fits
<1>4. PICK place \in {"servo", Failed(r)} : Send(r, place)
  BY DEF Nudge
<1>5. /\ run'[r].at = place /\ run'[r].name = run[r].name
      /\ run'[r].step = run[r].step /\ run'[r].homing = run[r].homing
      /\ \A q \in Runners \ {r} : run'[q] = run[q]
  BY <1>4, SendFields DEF IInv
<1>6. CASE place = "servo"
  BY <1>1, <1>2, <1>3, <1>5, <1>6, StayCourse DEF Executing, Fits
<1>7. CASE place = Failed(r)
  <2>1. /\ run[r].name \in SeqNames /\ run[r].step # 0
        /\ run[r].homing => run[r].step \in {1, 2}
    BY <1>2, InStep
  <2>2. Knows(run[r])'
    BY <1>5, <1>7, <2>1 DEF Knows, LostWay, Failed, Executing
  <2>3. Towed'
    BY <1>1 DEF OnCourse, Towed, world
  <2> QED
    BY <1>1, <1>2, <1>5, <2>2, <2>3, CourseOfOne
<1> QED
  BY <1>4, <1>6, <1>7

\* What the gripper may hold after a stroke of the sequence.
LEMMA GraspResult ==
  ASSUME IInv, OnCourse, ~raced, NEW r \in Runners, run[r].at = "gripping", ~run[r].homing
  PROVE  LET name == run[r].name  g == Grasp(Current(r).stroke) IN
         \/ g = "none"
         \/ g = Load(name) /\ run[r].step = GraspStep(name)
<1>1. /\ Current(r) = Steps(r)[run[r].step] /\ Current(r).kind = "GRIP"
      /\ Shape(Steps(r), run[r].name) /\ run[r].step \in 1 .. Len(Steps(r))
      /\ HandOK(run[r]) /\ ArmOK(run[r]) /\ Steps(r) = Program(run[r].name)
      /\ run[r].name \in SeqNames
  BY InStep DEF Current, Fits, Executing
<1> DEFINE name == run[r].name  stroke == Current(r).stroke
<1>2. CASE stroke \in {"release", "wide"}
  BY <1>2, Releases
<1>3. CASE stroke \notin {"release", "wide"}
  <2>1. run[r].step = GraspStep(name) /\ stroke = IF name \in Drawers THEN "box" ELSE "tool"
    BY <1>1, <1>3 DEF Shape, GripsInPlace
  <2>2. held = "none"
    BY <1>1, <2>1 DEF HandOK, GraspStep
  <2>3. CASE name \in Drawers
    <3>1. arm.place = LayerOf(name)
      <4>1. GraspStep(name) \in {4, 5}
        BY <2>3 DEF GraspStep, Drawers, VisionDrawer, PlainDrawer
      <4> QED
        BY <1>1, <2>1, <2>3, <4>1 DEF ArmOK, Shape, GraspsAt
    <3>2. \A l \in Layers : HandleHere(l) => l = LayerOf(name)
      BY <3>1 DEF HandleHere, At
    <3>3. CASE \E l \in Layers : HandleHere(l)
      <4>1. Grasp(stroke) = CHOOSE l \in Layers : HandleHere(l)
        BY <2>1, <2>2, <2>3, <3>3 DEF Grasp
      <4>2. Grasp(stroke) = LayerOf(name)
        BY <3>2, <3>3, <4>1
      <4> QED
        BY <2>1, <2>3, <4>2 DEF Load
    <3>4. CASE ~ \E l \in Layers : HandleHere(l)
      BY <2>1, <2>2, <2>3, <3>4 DEF Grasp
    <3> QED
      BY <3>3, <3>4
  <2>4. CASE name \notin Drawers
    <3>1. stroke = "tool" /\ Load(name) = "tool"
      BY <2>1, <2>4 DEF Load
    <3>2. Grasp(stroke) \in {"tool", "none"}
      BY <2>2, <3>1 DEF Grasp
    <3> QED
      BY <2>1, <3>1, <3>2
  <2> QED
    BY <2>3, <2>4
<1> QED
  BY <1>2, <1>3

\* A stroke of the gripper ends, or fails with the gripper moved or not.
LEMMA GripEndsCourse ==
  ASSUME IInv, OnCourse, NEW r \in Runners, GripEnds(r)
  PROVE  OnCourse'
<1>1. /\ raced' = raced /\ log' = log /\ arm' = arm /\ inflight' = inflight
      /\ (held' = Grasp(Current(r).stroke) \/ (held' = held /\ Fail(r)))
      /\ (NextStep(r) \/ Fail(r))
  BY DEF GripEnds, history
<1>2. run[r].at = "gripping" /\ run[r].at \in Executing \ {"between", "calling"}
  BY DEF GripEnds, Executing
<1> SUFFICES ASSUME ~raced PROVE OnCourse'
  BY <1>1 DEF OnCourse
<1>3. Current(r).kind = "GRIP"
  BY <1>2, InStep DEF Fits
<1>4. run[r].homing => run[r].step = 1 /\ Grasp(Current(r).stroke) = "none"
  <2> SUFFICES ASSUME run[r].homing PROVE run[r].step = 1 /\ Grasp(Current(r).stroke) = "none"
    OBVIOUS
  <2>1. Current(r) = home_seq[run[r].step] /\ run[r].step \in {1, 2}
    BY <1>2, InStep DEF Current
  <2>2. run[r].step = 1 /\ Current(r).stroke = "release"
    BY <1>3, <2>1, HomeLen DEF GRIP_RELEASE, grip, JOINT_HOME, mj_abs, Step
  <2> QED
    BY <2>2, Releases
<1>5. ~run[r].homing => inflight = Still /\ ArmOK(run[r])
  BY <1>2, InStep DEF ArmOK
<1>6. Towed'
  <2>1. CASE ~run[r].homing
    BY <1>1, <1>5, <2>1 DEF Towed
  <2>2. CASE run[r].homing
    BY <1>1, <1>4, <2>2 DEF OnCourse, Towed, Handles, Layers
  <2> QED
    BY <2>1, <2>2
<1>7. CASE Fail(r)
  BY <1>1, <1>2, <1>6, <1>7, FailCourse
<1>8. CASE NextStep(r) /\ held' = Grasp(Current(r).stroke) /\ ~run[r].homing
  <2>1. run'[r].name = run[r].name /\ run'[r].step = run[r].step + 1 /\ run[r].step \in Nat
    BY <1>8, NextStepFields DEF IInv, RunOK, Run
  <2>2. HandOK(run[r])'
    BY <1>2, <1>8, <2>1, GraspResult DEF HandOK, GraspStep, LetGoStep
  <2>3. run'[r].step - 1 = run[r].step /\ Current(r) = Program(run[r].name)[run[r].step]
    BY <1>2, <1>8, <2>1, InStep DEF Current
  <2>4. ArmOK(run[r])'
    BY <1>1, <1>3, <1>5, <1>8, <2>1, <2>3 DEF ArmOK, Moves, MoveKinds
  <2> QED
    BY <1>1, <1>2, <1>5, <1>6, <1>8, <2>2, <2>4, NextStepCourse
<1>9. CASE NextStep(r) /\ held' = Grasp(Current(r).stroke) /\ run[r].homing
  <2>1. log # "clean" /\ held' = "none"
    BY <1>2, <1>4, <1>9, InStep
  <2>2. /\ run'[r].at = "between" /\ run'[r].name = run[r].name
        /\ run'[r].step = 2 /\ run'[r].homing
        /\ \A q \in Runners \ {r} : run'[q] = run[q]
    BY <1>4, <1>9, NextStepFields DEF IInv
  <2>3. run[r].name \in SeqNames
    BY <1>2, InStep
  <2>4. OnTheWayHome(run[r])'
    BY <1>1, <2>1, <2>2, HomeLen DEF OnTheWayHome, StepOK
  <2>5. Knows(run[r])'
    BY <2>2, <2>3, <2>4 DEF Knows, Executing
  <2> QED
    BY <1>1, <1>2, <1>6, <2>2, <2>5, CourseOfOne DEF Admitted, Active
<1> QED
  BY <1>1, <1>7, <1>8, <1>9

----------------------------------------------------------------------------
\* A process that works neither begins anew nor touches another.
LEMMA WorkGoesOn ==
  ASSUME RunOK, NEW r \in Runners, run[r].at # "waiting", Work(r) \/ ServoTimesOut(r)
  PROVE  /\ run'[r].at # "waiting" /\ run'[r].name \in {run[r].name, "home"}
         /\ \A q \in Runners \ {r} : run'[q] = run[q]
<1>1. CASE Exit(r)
  BY <1>1 DEF Exit, Off, RunOK
<1>2. ASSUME NEW place, place # "waiting", Go(r, place) \/ Send(r, place)
      PROVE  /\ run'[r].at # "waiting" /\ run'[r].name \in {run[r].name, "home"}
             /\ \A q \in Runners \ {r} : run'[q] = run[q]
  BY <1>2, GoFields, SendFields
<1>3. CASE NextStep(r)
  BY <1>3, NextStepFields
<1>4. CASE Fail(r)
  BY <1>2, <1>4 DEF Fail, Failed
<1>5. CASE GatePasses(r) \/ GateRefuses(r) \/ SkipOpenDrawer(r) \/ Announce(r)
  BY <1>1, <1>2, <1>5 DEF GatePasses, GateRefuses, SkipOpenDrawer, Announce
<1>6. CASE SetTcp(r)
  BY <1>2, <1>6 DEF SetTcp, RunOK, Run
<1>7. CASE Check(r) \/ AimFails(r) \/ MoveArrives(r) \/ MoveFails(r) \/ GripEnds(r) \/ Looked(r)
  BY <1>2, <1>3, <1>4, <1>7 DEF Check, AimFails, MoveArrives, MoveFails, GripEnds, Looked
<1>8. CASE CallMove(r) \/ CallGrip(r) \/ Nudge(r) \/ Record(r)
  BY <1>2, <1>8 DEF CallMove, CallGrip, Nudge, Record, Failed
<1>9. CASE StartLooking(r) \/ StartServo(r)
  BY <1>9 DEF StartLooking, StartServo, RunOK, Run
<1>10. CASE ServoTick(r)
  BY ZenonT(60), <1>3, <1>4, <1>10 DEF ServoTick, RunOK, Run
<1>11. CASE ServoTimesOut(r)
  BY <1>11 DEF ServoTimesOut, RunOK, Run
<1>12. CASE OnFailure(r)
  BY <1>12 DEF OnFailure, RunOK, Run
<1>13. CASE End(r)
  BY <1>1, <1>13 DEF End
<1> QED
  BY <1>5, <1>6, <1>7, <1>8, <1>9, <1>10, <1>11, <1>12, <1>13 DEF Work, Begin

\* A process waits only from its start on.
LEMMA FreshKept ==
  ASSUME IInv, Fresh, [Next]_vars
  PROVE  Fresh'
<1>1. CASE run' = run
  BY <1>1 DEF Fresh
<1>2. ASSUME NEW r \in Runners, NEW x, run' = [run EXCEPT ![r] = x],
             x.at = "waiting" => x.step = 1 /\ ~x.homing
      PROVE  Fresh'
  BY <1>2 DEF Fresh, IInv, RunOK
<1>3. ASSUME NEW r \in Runners, NEW name \in Launchable, Launch(r, name)
      PROVE  Fresh'
  <2>1. [Off EXCEPT !.at = "waiting", !.name = name].step = 1
        /\ ~[Off EXCEPT !.at = "waiting", !.name = name].homing
    BY DEF Off
  <2> QED
    BY <1>2, <1>3, <2>1 DEF Launch
<1>4. ASSUME NEW r \in Runners, NEW q \in Runners, Hear(r, q)
      PROVE  Fresh'
  <2> DEFINE x == [run[r] EXCEPT !.heard = (moving[q] = "yes")]
  <2>1. x.step = run[r].step /\ x.homing = run[r].homing /\ run[r].at = "waiting"
    BY <1>4 DEF Hear, IInv, RunOK, Run
  <2>2. run' = [run EXCEPT ![r] = x]
    BY <1>4 DEF Hear
  <2> HIDE DEF x
  <2> QED
    BY <1>2, <1>4, <2>1, <2>2 DEF Fresh
<1>5. ASSUME NEW r \in Runners, Exit(r)
      PROVE  Fresh'
  <2>1. Off.at # "waiting"
    BY DEF Off
  <2> QED
    BY <1>2, <1>5, <2>1 DEF Exit
<1>6. ASSUME NEW r \in Runners, NEW place \in Places \ {"waiting"}, Go(r, place)
      PROVE  Fresh'
  BY <1>6, GoFields DEF IInv, Fresh
<1>7. ASSUME NEW r \in Runners, HearEStop(r) \/ SeeTool(r) \/ SeeHandle(r)
      PROVE  Fresh'
  BY <1>7 DEF HearEStop, SeeTool, SeeHandle, IInv, RunOK, Run, Fresh
<1>8. ASSUME NEW r \in Runners, run[r].at # "waiting", Work(r) \/ ServoTimesOut(r)
      PROVE  Fresh'
  <2>1. run'[r].at # "waiting" /\ \A q \in Runners \ {r} : run'[q] = run[q]
    BY <1>8, WorkGoesOn DEF IInv
  <2> QED
    BY <2>1 DEF Fresh
<1>9. ASSUME NEW r \in Runners, Begin(r)
      PROVE  Fresh'
  BY <1>5, <1>6, <1>9 DEF Begin, Places, Admitted
<1>10. ASSUME NEW r \in Runners, Work(r) \/ ServoTimesOut(r)
       PROVE  Fresh'
  <2>1. run[r].at = "waiting" => Begin(r)
    BY <1>10 DEF Work, ServoTimesOut, GatePasses, GateRefuses, SkipOpenDrawer, Announce,
       SetTcp, Check, CallMove, AimFails, MoveArrives, MoveFails, CallGrip, GripEnds,
       StartLooking, Looked, StartServo, ServoTick, Nudge, OnFailure, Record, End
  <2> QED
    BY <1>8, <1>9, <1>10, <2>1
<1> QED
  BY <1>1, <1>3, <1>4, <1>5, <1>7, <1>10
  DEF Next, vars, OrphanArrives, PutInOrder, ServiceMissing, Kill

----------------------------------------------------------------------------
\* The invariant behind the three theorems that follow.
CourseInv == IInv /\ Fresh /\ OnCourse

\* It holds in the initial states,
LEMMA CourseInit == Init => CourseInv
<1> SUFFICES ASSUME Init PROVE CourseInv
  OBVIOUS
<1>1. Fresh
  BY DEF Init, Fresh, Off
<1>2. Towed
  BY DEF Init, Towed
<1>3. Off.at \notin Admitted
  BY DEF Off, Admitted, Active, Executing
<1>4. \A r \in Runners : Knows(run[r])
  BY <1>3, OutsideKnows DEF Init
<1> QED
  BY <1>1, <1>2, <1>4, InitIInv DEF CourseInv, OnCourse

\* every step keeps it,
LEMMA CourseKept ==
  ASSUME CourseInv, [Next]_vars
  PROVE  CourseInv'
<1>1. IInv /\ Fresh /\ OnCourse
  BY DEF CourseInv
<1>2. IInv' /\ Fresh'
  BY <1>1, NextKeeps, FreshKept
<1>3. ASSUME UNCHANGED vars PROVE OnCourse'
  <2>1. run' = run /\ raced' = raced /\ log' = log /\ world' = world
    BY <1>3 DEF vars, history
  <2>2. ~raced => \A q \in Runners : Knows(run[q])'
    BY <1>1, <2>1, KnowsSame DEF OnCourse, world
  <2> QED
    BY <1>1, <2>1, <2>2 DEF OnCourse, Towed, world
<1>4. ASSUME NEW r \in Runners, Work(r)
      PROVE  OnCourse'
  BY <1>1, <1>4, BeginKnows, GateCourse, OutsideCourse, CheckCourse, CallMoveCourse,
     MotionFailsCourse, MoveArrivesCourse, AsksCourse, GripEndsCourse, LookedCourse,
     ServoTickCourse, NudgeCourse, FailureCourse
  DEF Work
<1>5. ASSUME NEW r \in Runners,
             \/ \E name \in Launchable : Launch(r, name)
             \/ \E q \in Runners : Hear(r, q)
             \/ ServiceMissing(r) \/ HearEStop(r) \/ SeeTool(r) \/ SeeHandle(r)
             \/ ServoTimesOut(r) \/ Kill(r)
      PROVE  OnCourse'
  BY <1>1, <1>5, OutsideCourse, SeesCourse, AsksCourse
<1>6. ASSUME OrphanArrives \/ PutInOrder PROVE OnCourse'
  BY <1>1, <1>6, WorldCourse
<1>7. OnCourse'
  BY <1>3, <1>4, <1>5, <1>6 DEF Next
<1> QED
  BY <1>2, <1>7 DEF CourseInv

\* and so it holds in every state.
LEMMA CourseAlways == Spec => []CourseInv
<1>1. Init => CourseInv
  BY CourseInit
<1>2. CourseInv /\ [Next]_vars => CourseInv'
  BY CourseKept
<1> QED
  BY <1>1, <1>2, PTL DEF Spec

\* The arm moves where it was sent, or stops between two waypoints.
LEMMA WhoMovesTheArm ==
  ASSUME Next, arm' # arm
  PROVE  \/ OrphanArrives \/ \E r \in Runners : MoveArrives(r)
         \/ arm' = Nowhere \/ held' = "none"
<1>1. CASE OrphanArrives \/ PutInOrder
  BY <1>1 DEF PutInOrder
<1>2. ASSUME NEW r \in Runners, Work(r)
      PROVE  MoveArrives(r) \/ arm' = Nowhere
  <2>1. MoveArrives(r) \/ MoveFails(r) \/ OnFailure(r)
    BY <1>2 DEF Work, Begin, GatePasses, GateRefuses, SkipOpenDrawer, Announce,
       SetTcp, Check, CallMove, AimFails, CallGrip, GripEnds,
       StartLooking, Looked, StartServo, ServoTick, Nudge, Record, End, world
  <2> QED
    BY <2>1 DEF MoveFails, OnFailure, Halt, world
<1>3. ASSUME NEW r \in Runners,
             \/ \E name \in Launchable : Launch(r, name)
             \/ \E q \in Runners : Hear(r, q)
             \/ ServiceMissing(r) \/ HearEStop(r) \/ SeeTool(r) \/ SeeHandle(r)
             \/ ServoTimesOut(r) \/ Kill(r)
      PROVE  arm' = Nowhere
  BY <1>3 DEF Launch, Hear, ServiceMissing, HearEStop, SeeTool, SeeHandle, ServoTimesOut, Kill,
     Halt, world
<1> QED
  BY <1>1, <1>2, <1>3 DEF Next

\* Without a race the arm never leaves a drawer with its handle in the gripper:
\* whatever step fails, the gripper has let go before the arm moves to a place that
\* is not the drawer's (home_seq opens it first, toolbox_motion.py).
THEOREM NoDrawerIsDragged == Spec => NeverDragsADrawer
<1>1. CourseInv /\ [Next]_vars =>
        [held' = held /\ held \in Handles /\ ~raced'
           => arm' \in {arm, Nowhere} \/ BelongsTo(held, arm')]_vars
  <2> SUFFICES ASSUME CourseInv, Next, held' = held, held \in Handles, ~raced', arm' # arm,
                      arm' # Nowhere
               PROVE  BelongsTo(held, arm')
    OBVIOUS
  <2>1. CASE OrphanArrives
    BY <2>1 DEF OrphanArrives, CourseInv, OnCourse, Towed, BelongsTo, history
  <2>2. ASSUME NEW r \in Runners, MoveArrives(r)
        PROVE  BelongsTo(held, arm')
    <3>1. ~raced /\ arm' = Current(r).at /\ run[r].at = "calling"
      BY <2>2 DEF MoveArrives, history
    <3>2. Moves(Current(r)) /\ run[r].at \in Executing \ {"between"}
      BY <3>1, InStep DEF CourseInv, Fits, Executing
    <3> QED
      BY <3>1, <3>2, TowsOnlyItsOwn DEF CourseInv, BelongsTo
  <2> QED
    BY <2>1, <2>2, WhoMovesTheArm DEF Handles, Layers
<1> QED
  BY <1>1, CourseAlways, PTL DEF Spec, NeverDragsADrawer

----------------------------------------------------------------------------
(* The order that quiet runs leave *)

\* The processes that have the arm or the gripper in hand, or have still to say
\* how they leave them.
Busy(x) == x.at \in Executing \cup {"failing", "ending"}

\* With no failure in a log, the tool is in the gripper, or where a tool belongs.
ToolKnown ==
  log # "clean" \/ raced \/ IF held = "tool" THEN tool = "gripper" ELSE tool \in {"slot", "staging"}

\* With no log that asks for the operator, the robot is ready or a process has it
\* in hand.
HomeKnown == log = "manual" \/ raced \/ unstopped \/ RobotReady \/ \E r \in Runners : Busy(run[r])

\* A step takes nothing back of what a log says.
LogStays == (log # "clean" => log' # "clean") /\ (log = "manual" => log' = "manual")

\* The invariant behind OrderAfterQuietRuns.
OrderInv == CourseInv /\ ToolKnown /\ HomeKnown

\* What a log says stays said, and so does what a history variable says.
LEMMA NothingIsForgotten ==
  ASSUME FlagsOK, Next
  PROVE  LogStays /\ (raced => raced') /\ (unstopped => unstopped')
<1>1. CASE OrphanArrives \/ PutInOrder
  BY <1>1 DEF OrphanArrives, PutInOrder, history, LogStays
<1>2. ASSUME NEW r \in Runners, Work(r)
      PROVE  LogStays /\ (raced => raced') /\ (unstopped => unstopped')
  <2>1. CASE Begin(r)
    BY <2>1 DEF Begin, Race, history, LogStays
  <2>2. CASE GatePasses(r) \/ GateRefuses(r) \/ SkipOpenDrawer(r) \/ Announce(r) \/ SetTcp(r)
    BY <2>2 DEF GatePasses, GateRefuses, SkipOpenDrawer, Announce, SetTcp, history, LogStays
  <2>3. CASE Check(r) \/ CallMove(r) \/ AimFails(r) \/ MoveArrives(r) \/ MoveFails(r)
    BY <2>3 DEF Check, CallMove, AimFails, MoveArrives, MoveFails, history, LogStays
  <2>4. CASE CallGrip(r) \/ GripEnds(r) \/ StartLooking(r) \/ Looked(r) \/ StartServo(r)
             \/ ServoTick(r) \/ Nudge(r) \/ End(r)
    <3>1. log' \in {log, "manual"} /\ history' = history
      BY <2>4 DEF CallGrip, GripEnds, StartLooking, Looked, StartServo, ServoTick, Nudge, End
    <3> QED
      BY <3>1 DEF history, LogStays
  <2>5. CASE OnFailure(r) \/ Record(r)
    <3>1. LogStays /\ raced' = raced
      BY <2>5 DEF OnFailure, LogFailure, LogStays, Record, history
    <3>2. unstopped => unstopped'
      BY <2>5 DEF OnFailure, Record, history
    <3> QED
      BY <3>1, <3>2
  <2> QED
    BY <1>2, <2>1, <2>2, <2>3, <2>4, <2>5 DEF Work
<1>3. ASSUME NEW r \in Runners,
             \/ \E name \in Launchable : Launch(r, name)
             \/ \E q \in Runners : Hear(r, q)
             \/ ServiceMissing(r) \/ HearEStop(r) \/ SeeTool(r) \/ SeeHandle(r)
             \/ ServoTimesOut(r) \/ Kill(r)
      PROVE  LogStays /\ (raced => raced') /\ (unstopped => unstopped')
  <2>1. log' = log
    BY <1>3 DEF Launch, Hear, ServiceMissing, HearEStop, SeeTool, SeeHandle, ServoTimesOut, Kill
  <2>2. history' = history \/ (raced' = raced /\ unstopped' = TRUE)
    BY <1>3 DEF Launch, Hear, ServiceMissing, HearEStop, SeeTool, SeeHandle, ServoTimesOut, Kill
  <2>3. raced' = raced /\ (unstopped' = unstopped \/ unstopped' = TRUE)
    BY <2>2 DEF history
  <2> QED
    BY <2>1, <2>3 DEF LogStays
<1> QED
  BY <1>1, <1>2, <1>3 DEF Next

\* Only a stroke of the gripper and the operator change what it holds.
LEMMA HandsOff ==
  ASSUME Next
  PROVE  \/ PutInOrder \/ \E r \in Runners : GripEnds(r)
         \/ held' = held /\ tool' = tool
<1>1. CASE OrphanArrives
  BY <1>1 DEF OrphanArrives
<1>2. ASSUME NEW r \in Runners, Work(r)
      PROVE  GripEnds(r) \/ (held' = held /\ tool' = tool)
  BY <1>2 DEF Work, Begin, GatePasses, GateRefuses, SkipOpenDrawer, Announce,
       SetTcp, Check, CallMove, AimFails, MoveArrives, MoveFails, CallGrip, OnFailure,
       StartLooking, Looked, StartServo, ServoTick, Nudge, Record, End, Halt, world
<1>3. ASSUME NEW r \in Runners,
             \/ \E name \in Launchable : Launch(r, name)
             \/ \E q \in Runners : Hear(r, q)
             \/ ServiceMissing(r) \/ HearEStop(r) \/ SeeTool(r) \/ SeeHandle(r)
             \/ ServoTimesOut(r) \/ Kill(r)
      PROVE  held' = held /\ tool' = tool
  BY <1>3 DEF Launch, Hear, ServiceMissing, HearEStop, SeeTool, SeeHandle, ServoTimesOut, Kill,
     Halt, world
<1> QED
  BY <1>1, <1>2, <1>3 DEF Next

\* A sequence opens the gripper on a tool where it puts tools down.
LEMMA PutDownInPlace ==
  ASSUME IInv, OnCourse, ~raced, NEW r \in Runners, run[r].at = "gripping", ~run[r].homing,
         held = "tool"
  PROVE  arm.spot = "down" /\ arm.place \in {"slot", "staging"}
<1> DEFINE name == run[r].name
<1>1. /\ Current(r) = Steps(r)[run[r].step] /\ Current(r).kind = "GRIP"
      /\ Shape(Steps(r), name) /\ run[r].step \in 1 .. Len(Steps(r))
      /\ HandOK(run[r]) /\ ArmOK(run[r]) /\ Steps(r) = Program(name)
      /\ name \in SeqNames
  BY InStep DEF Current, Fits, Executing
<1>2. held = Load(name) /\ run[r].step \in GraspStep(name) + 1 .. LetGoStep(name)
  BY <1>1 DEF HandOK
<1>3. name \notin Drawers
  BY <1>2 DEF Load, LayerOf
<1>4. name # "home"
  <2> SUFFICES ASSUME name = "home" PROVE FALSE
    OBVIOUS
  <2>1. Len(Steps(r)) = 2
    BY <1>1, HomeLen DEF Program
  <2>2. GraspStep(name) = 8
    BY DEF GraspStep, PlainDrawer, VisionDrawer
  <2> QED
    BY <1>1, <1>2, <2>1, <2>2 DEF LetGoStep
<1>5. name \in ToolSeqs
  BY <1>1, <1>3, <1>4 DEF SeqNames, Drawers
<1>6. GraspStep(name) \in Nat \ {0} /\ LetGoStep(name) \in Nat
  BY DEF GraspStep, LetGoStep
<1>7. run[r].step = LetGoStep(name)
  <2>1. ~Moves(Steps(r)[run[r].step])
    BY <1>1 DEF Moves, MoveKinds
  <2>2. run[r].step \notin GraspStep(name) + 1 .. LetGoStep(name) - 1
    BY <1>1, <1>4, <2>1 DEF Shape, TowsInPlace
  <2> QED
    BY <1>1, <1>2, <1>6, <2>2
<1>8. arm \in {At("slot", "down"), At("staging", "down")}
  <2>1. run[r].step > 1
    BY <1>2, <1>6
  <2> QED
    BY <1>1, <1>5, <1>7, <2>1 DEF Shape, PutsDown, ArmOK
<1> QED
  BY <1>8 DEF At

\* Only a stroke of the gripper moves the tool, and it puts it down in its place.
LEMMA ToolKept ==
  ASSUME IInv, OnCourse, ToolKnown, Next
  PROVE  ToolKnown'
<1>1. (log # "clean" => log' # "clean") /\ (raced => raced')
  BY NothingIsForgotten DEF IInv, LogStays
<1> SUFFICES ASSUME log = "clean", ~raced PROVE ToolKnown'
  BY <1>1 DEF ToolKnown
<1>2. CASE held' = held /\ tool' = tool
  BY <1>2 DEF ToolKnown
<1>3. CASE PutInOrder
  BY <1>3 DEF ToolKnown, PutInOrder
<1>4. ASSUME NEW r \in Runners, GripEnds(r) PROVE ToolKnown'
  <2> DEFINE stroke == Current(r).stroke
  <2>1. run[r].at = "gripping" /\ ~run[r].homing
    BY <1>4, InStep DEF GripEnds, Executing
  <2>2. CASE held' = Grasp(stroke) /\ tool' = ToolAfter(stroke)
    <3>1. CASE Grasp(stroke) = "tool"
      BY <2>2, <3>1 DEF ToolAfter, ToolKnown
    <3>2. CASE Grasp(stroke) # "tool" /\ held # "tool"
      BY <2>2, <3>2 DEF ToolAfter, ToolKnown
    <3>3. CASE Grasp(stroke) # "tool" /\ held = "tool"
      BY <2>1, <2>2, <3>3, PutDownInPlace DEF ToolAfter, ToolKnown
    <3> QED
      BY <3>1, <3>2, <3>3
  <2> QED
    BY <1>2, <1>4, <2>2 DEF GripEnds
<1> QED
  BY <1>2, <1>3, <1>4, HandsOff

\* A process that has the robot in hand gives it up at home, or says so.
LEMMA BusyGoesOn ==
  ASSUME IInv, OnCourse, ~raced, NEW r \in Runners, Busy(run[r]), Next
  PROVE  \/ log' = "manual" \/ unstopped' \/ RobotReady'
         \/ run'[r].at \in Executing \cup {"failing", "recording", "ending"}
<1> DEFINE goal == \/ log' = "manual" \/ unstopped' \/ RobotReady'
                   \/ run'[r].at \in Executing \cup {"failing", "recording", "ending"}
<1>1. ASSUME NEW q \in Runners, q # r, \A p \in Runners \ {q} : run'[p] = run[p]
      PROVE  goal
  BY <1>1 DEF Busy
<1>2. CASE OrphanArrives \/ PutInOrder
  BY <1>2 DEF OrphanArrives, PutInOrder, Busy
<1>3. ASSUME NEW q \in Runners,
             \/ \E name \in Launchable : Launch(q, name)
             \/ \E p \in Runners : Hear(q, p)
             \/ ServiceMissing(q) \/ HearEStop(q) \/ SeeTool(q) \/ SeeHandle(q)
             \/ ServoTimesOut(q) \/ Kill(q)
      PROVE  goal
  <2>1. \A p \in Runners \ {q} : run'[p] = run[p]
    BY <1>3 DEF IInv, RunOK, Launch, Hear, ServiceMissing, HearEStop, SeeTool, SeeHandle,
       ServoTimesOut, Kill, Exit
  <2>2. ASSUME q = r PROVE goal
    <3>1. run[r].at \notin {"off", "waiting"}
      BY DEF Busy, Executing
    <3>2. CASE Kill(r)
      BY <3>2 DEF Kill, Busy, Active
    <3>3. CASE HearEStop(r) \/ SeeTool(r) \/ SeeHandle(r) \/ ServoTimesOut(r)
      <4>1. run'[r].at = run[r].at
        BY <3>3 DEF HearEStop, SeeTool, SeeHandle, ServoTimesOut, IInv, RunOK, Run
      <4> QED
        BY <4>1 DEF Busy
    <3> QED
      BY <1>3, <2>2, <3>1, <3>2, <3>3 DEF Launch, Hear, ServiceMissing, Live
  <2> QED
    BY <1>1, <2>1, <2>2
<1>4. ASSUME NEW q \in Runners, Work(q), q # r PROVE goal
  <2>1. run[q].at \notin Admitted
    BY <1>4 DEF IInv, Alone, Busy, Admitted, Active
  <2>2. Begin(q)
    BY <1>4, <2>1 DEF Work, GatePasses, GateRefuses, SkipOpenDrawer, Announce,
       SetTcp, Check, CallMove, AimFails, MoveArrives, MoveFails, CallGrip, GripEnds,
       StartLooking, Looked, StartServo, ServoTick, Nudge, OnFailure, Record, End,
       Admitted, Active, Executing
  <2>3. \A p \in Runners \ {q} : run'[p] = run[p]
    BY <2>2 DEF Begin, Exit, Go, IInv, RunOK
  <2> QED
    BY <1>1, <1>4, <2>3
<1>5. ASSUME Work(r) PROVE goal
  <2>1. ASSUME NEW place \in Executing \cup {"failing", "recording", "ending"},
               Go(r, place) \/ Send(r, place)
        PROVE  goal
    BY <2>1, GoFields, SendFields DEF IInv
  <2>2. CASE NextStep(r)
    BY <2>2, NextStepFields DEF IInv, Executing
  <2>3. CASE Fail(r)
    BY <2>1, <2>3 DEF Fail, Failed
  <2>4. CASE Check(r) \/ CallMove(r) \/ CallGrip(r)
    BY <2>1, <2>3, <2>4 DEF Check, CallMove, CallGrip, Executing
  <2>5. CASE AimFails(r) \/ MoveArrives(r) \/ MoveFails(r) \/ GripEnds(r) \/ Looked(r)
    BY <2>2, <2>3, <2>5 DEF AimFails, MoveArrives, MoveFails, GripEnds, Looked
  <2>6. CASE StartLooking(r) \/ StartServo(r)
    BY <2>6 DEF StartLooking, StartServo, IInv, RunOK, Run, Executing
  <2>7. CASE ServoTick(r)
    BY <2>2, <2>3, <2>7 DEF ServoTick, IInv, RunOK, Run, Executing
  <2>8. CASE Nudge(r)
    BY <2>1, <2>8 DEF Nudge, Failed, Executing
  <2>9. CASE OnFailure(r)
    BY <2>9 DEF OnFailure, IInv, RunOK, Run, Executing
  <2>10. CASE End(r)
    <3>1. log = "manual" \/ LostWay(run[r]) \/ RobotReady
      BY <2>10 DEF OnCourse, Knows, End
    <3> QED
      BY <2>10, <3>1, HomeLen DEF End, LostWay, RobotReady, world
  <2> QED
    BY <1>5, <2>4, <2>5, <2>6, <2>7, <2>8, <2>9, <2>10
    DEF Work, Begin, GatePasses, GateRefuses, SkipOpenDrawer, Announce, SetTcp, Record,
        Busy, Executing
<1> QED
  BY <1>2, <1>3, <1>4, <1>5 DEF Next

\* A robot that is ready stays so, until a process takes it in hand.
LEMMA ReadyUntilTaken ==
  ASSUME IInv, RobotReady, Next
  PROVE  RobotReady' \/ \E r \in Runners : Busy(run[r]) \/ Busy(run'[r])
<1>1. CASE OrphanArrives \/ PutInOrder
  BY <1>1 DEF OrphanArrives, PutInOrder, RobotReady
<1>2. world' = world => RobotReady'
  BY DEF world, RobotReady
<1>3. Halt => RobotReady'
  BY DEF Halt, RobotReady
<1>4. ASSUME NEW r \in Runners, Work(r), ~Busy(run[r]), ~Busy(run'[r])
      PROVE  RobotReady'
  <2>1. run[r].at \notin Executing \cup {"failing", "ending"}
    BY <1>4 DEF Busy
  <2>2. \/ Begin(r) \/ GatePasses(r) \/ GateRefuses(r) \/ SkipOpenDrawer(r) \/ Announce(r)
        \/ SetTcp(r) \/ Record(r)
    BY <1>4, <2>1
    DEF Work, Check, CallMove, AimFails, MoveArrives, MoveFails, CallGrip, GripEnds,
       StartLooking, Looked, StartServo, ServoTick, Nudge, OnFailure, End, Executing
  <2>3. world' = world
    BY <2>2 DEF Begin, GatePasses, GateRefuses, SkipOpenDrawer, Announce, SetTcp, Record
  <2> QED
    BY <1>2, <2>3
<1>5. ASSUME NEW r \in Runners,
             \/ \E name \in Launchable : Launch(r, name)
             \/ \E q \in Runners : Hear(r, q)
             \/ ServiceMissing(r) \/ HearEStop(r) \/ SeeTool(r) \/ SeeHandle(r)
             \/ ServoTimesOut(r) \/ Kill(r)
      PROVE  RobotReady'
  <2>1. world' = world \/ Halt
    BY <1>5 DEF Launch, Hear, ServiceMissing, HearEStop, SeeTool, SeeHandle, ServoTimesOut, Kill
  <2> QED
    BY <1>2, <1>3, <2>1
<1> QED
  BY <1>1, <1>4, <1>5 DEF Next

\* Whoever has the robot in hand gives it up at home, or leaves a log that asks for
\* the operator.
LEMMA HomeKept ==
  ASSUME CourseInv, CourseInv', HomeKnown, Next
  PROVE  HomeKnown'
<1>1. IInv /\ OnCourse /\ OnCourse'
  BY DEF CourseInv
<1>2. (log = "manual" => log' = "manual") /\ (raced => raced') /\ (unstopped => unstopped')
  BY <1>1, NothingIsForgotten DEF IInv, LogStays
<1> SUFFICES ASSUME log' # "manual", ~raced', ~unstopped' PROVE HomeKnown'
  BY DEF HomeKnown
<1>3. ASSUME NEW r \in Runners, Busy(run[r]) PROVE HomeKnown'
  <2>1. RobotReady' \/ run'[r].at \in Executing \cup {"failing", "recording", "ending"}
    BY <1>1, <1>2, <1>3, BusyGoesOn
  <2>2. Knows(run[r])'
    BY <1>1 DEF OnCourse
  <2> QED
    BY <2>1, <2>2 DEF Knows, HomeKnown, Busy
<1>4. CASE RobotReady
  BY <1>1, <1>3, <1>4, ReadyUntilTaken DEF HomeKnown
<1> QED
  BY <1>2, <1>3, <1>4 DEF HomeKnown

\* When all processes have ended, no two raced and no motion was left under way,
\* the robot is ready for the next process unless a log says that the way home
\* failed or was left out, and the tool is in its slot or on the staging area
\* unless a log tells of a failure (_run_once and _on_sequence_failure).
THEOREM OrderAfterQuietRuns == Spec => []QuietRunsLeaveOrder
<1>1. Init => OrderInv
  BY CourseInit DEF Init, OrderInv, ToolKnown, HomeKnown, RobotReady
<1>2. OrderInv /\ [Next]_vars => OrderInv'
  <2> SUFFICES ASSUME OrderInv, [Next]_vars PROVE OrderInv'
    OBVIOUS
  <2>1. CourseInv'
    BY CourseKept DEF OrderInv
  <2>2. CASE Next
    BY <2>1, <2>2, ToolKept, HomeKept DEF OrderInv, CourseInv
  <2>3. CASE UNCHANGED vars
    BY <2>1, <2>3 DEF OrderInv, ToolKnown, HomeKnown, RobotReady, Busy, vars, world, history
  <2> QED
    BY <2>2, <2>3
<1>3. OrderInv => QuietRunsLeaveOrder
  BY DEF OrderInv, QuietRunsLeaveOrder, ToolKnown, HomeKnown, RobotReady, Idle, Live, Busy,
     Executing
<1> QED
  BY <1>1, <1>2, <1>3, PTL DEF Spec

----------------------------------------------------------------------------
(* The drawers table *)

\* The drawers table and the drawers are functions on the layers.
TablesOK ==
  /\ record \in [Layers -> BOOLEAN]
  /\ drawer \in [Layers -> {"closed", "open", "open_v2", "ajar"}]

\* What a plain sequence does is disputed from the moment it has announced itself.
HandedOver ==
  \A r \in Runners :
    run[r].at \in Active /\ run[r].name \in PlainDrawer => LayerOf(run[r].name) \in disputed

\* A race leaves no drawer undisputed.
RaceDisputes == raced => Layers \subseteq disputed

\* Every sequence's layer is one of the two.
LEMMA LayerOfIsOne == ASSUME NEW name PROVE LayerOf(name) \in Layers
BY DEF LayerOf, Layers

\* A dispute is not settled, and a race brings all of them.
LEMMA DisputesStay ==
  ASSUME FlagsOK, RaceDisputes, Next
  PROVE  disputed \cap Layers \subseteq disputed' /\ RaceDisputes'
<1> DEFINE goal == disputed \cap Layers \subseteq disputed' /\ RaceDisputes'
<1>1. CASE history' = history
  BY <1>1 DEF history, RaceDisputes
<1>2. ASSUME NEW r \in Runners, Disputes(r), raced' = raced PROVE goal
  BY <1>2 DEF Disputes, RaceDisputes
<1>3. ASSUME NEW r \in Runners, Race(r) PROVE goal
  BY <1>3 DEF Race, RaceDisputes, FlagsOK
<1>4. ASSUME NEW r \in Runners, Work(r) PROVE goal
  <2>1. CASE Begin(r) \/ Announce(r) \/ OnFailure(r) \/ Record(r)
    BY <1>1, <1>2, <1>3, <2>1 DEF Begin, Announce, OnFailure, Record
  <2>2. CASE \/ GatePasses(r) \/ GateRefuses(r) \/ SkipOpenDrawer(r) \/ SetTcp(r) \/ Check(r)
             \/ CallMove(r) \/ AimFails(r) \/ MoveArrives(r) \/ MoveFails(r) \/ CallGrip(r)
             \/ GripEnds(r) \/ StartLooking(r) \/ Looked(r) \/ StartServo(r) \/ ServoTick(r)
             \/ Nudge(r) \/ End(r)
    <3>1. history' = history
      BY <2>2 DEF GatePasses, GateRefuses, SkipOpenDrawer, SetTcp, Check, CallMove, AimFails,
         MoveArrives, MoveFails, CallGrip, GripEnds, StartLooking, Looked, StartServo,
         ServoTick, Nudge, End
    <3> QED
      BY <1>1, <3>1
  <2> QED
    BY <1>4, <2>1, <2>2 DEF Work
<1>5. ASSUME NEW r \in Runners,
             \/ \E name \in Launchable : Launch(r, name)
             \/ \E q \in Runners : Hear(r, q)
             \/ ServiceMissing(r) \/ HearEStop(r) \/ SeeTool(r) \/ SeeHandle(r)
             \/ ServoTimesOut(r) \/ Kill(r)
      PROVE  goal
  <2>1. history' = history \/ (Disputes(r) /\ raced' = raced)
    BY <1>5 DEF Launch, Hear, ServiceMissing, HearEStop, SeeTool, SeeHandle, ServoTimesOut, Kill
  <2> QED
    BY <1>1, <1>2, <2>1
<1>6. CASE OrphanArrives \/ PutInOrder
  BY <1>1, <1>6 DEF OrphanArrives, PutInOrder
<1> QED
  BY <1>4, <1>5, <1>6 DEF Next

\* A drawer that is dragged ends in one of its positions.
LEMMA DraggedType ==
  ASSUME TablesOK, NEW w
  PROVE  Dragged(w) \in [Layers -> {"closed", "open", "open_v2", "ajar"}]
BY DEF TablesOK, Dragged

\* Every step keeps the two tables functions on the layers.
LEMMA TablesKept ==
  ASSUME TablesOK, Next
  PROVE  TablesOK'
<1>1. CASE record' = record /\ drawer' = drawer
  BY <1>1 DEF TablesOK
<1>2. ASSUME NEW w, record' = record, drawer' = Dragged(w) PROVE TablesOK'
  BY <1>2, DraggedType DEF TablesOK
<1>3. CASE record' = record /\ (world' = world \/ Halt)
  BY <1>1, <1>2, <1>3 DEF Halt, world
<1>4. ASSUME NEW r \in Runners, Work(r) PROVE TablesOK'
  <2>1. CASE CallMove(r) \/ GripEnds(r) \/ MoveArrives(r)
    BY <1>1, <1>2, <2>1 DEF CallMove, GripEnds, MoveArrives
  <2>2. CASE Record(r)
    <3>1. Opens(run[r].name) \in BOOLEAN
      BY DEF Opens
    <3>2. \/ record' = record
          \/ record' = [record EXCEPT ![LayerOf(run[r].name)] = Opens(run[r].name)]
      BY <2>2 DEF Record
    <3>3. record' \in [Layers -> BOOLEAN]
      BY <3>1, <3>2 DEF TablesOK
    <3> QED
      BY <2>2, <3>3 DEF TablesOK, Record, world
  <2>3. CASE \/ Begin(r) \/ GatePasses(r) \/ GateRefuses(r) \/ SkipOpenDrawer(r) \/ Announce(r)
             \/ SetTcp(r) \/ Check(r) \/ AimFails(r) \/ MoveFails(r) \/ CallGrip(r)
             \/ StartLooking(r) \/ Looked(r) \/ StartServo(r) \/ ServoTick(r) \/ Nudge(r)
             \/ OnFailure(r) \/ End(r)
    <3>1. record' = record /\ (world' = world \/ Halt)
      BY <2>3 DEF Begin, GatePasses, GateRefuses, SkipOpenDrawer, Announce, SetTcp, Check,
         AimFails, MoveFails, CallGrip, StartLooking, Looked, StartServo, ServoTick, Nudge,
         OnFailure, End
    <3> QED
      BY <1>3, <3>1
  <2> QED
    BY <1>4, <2>1, <2>2, <2>3 DEF Work
<1>5. ASSUME NEW r \in Runners,
             \/ \E name \in Launchable : Launch(r, name)
             \/ \E q \in Runners : Hear(r, q)
             \/ ServiceMissing(r) \/ HearEStop(r) \/ SeeTool(r) \/ SeeHandle(r)
             \/ ServoTimesOut(r) \/ Kill(r)
      PROVE  record' = record /\ (world' = world \/ Halt)
  BY <1>5 DEF Launch, Hear, ServiceMissing, HearEStop, SeeTool, SeeHandle, ServoTimesOut, Kill
<1>6. CASE OrphanArrives \/ PutInOrder
  BY <1>1, <1>2, <1>6 DEF OrphanArrives, PutInOrder
<1> QED
  BY <1>3, <1>4, <1>5, <1>6 DEF Next

\* A process comes among the active ones by announcing itself, under its own name.
LEMMA ActiveSinceAnnounced ==
  ASSUME RunOK, Next, NEW r \in Runners, run'[r].at \in Active
  PROVE  Announce(r) \/ (run[r].at \in Active /\ run'[r].name = run[r].name)
<1> DEFINE goal == Announce(r) \/ (run[r].at \in Active /\ run'[r].name = run[r].name)
<1>1. CASE run'[r] = run[r]
  BY <1>1
<1>2. ASSUME NEW q \in Runners, Exit(q) PROVE goal
  BY <1>1, <1>2 DEF Exit, Off, Active, Executing, RunOK
<1>3. CASE OrphanArrives \/ PutInOrder
  BY <1>1, <1>3 DEF OrphanArrives, PutInOrder
<1>4. ASSUME NEW q \in Runners,
             \/ \E name \in Launchable : Launch(q, name)
             \/ \E p \in Runners : Hear(q, p)
             \/ ServiceMissing(q) \/ HearEStop(q) \/ SeeTool(q) \/ SeeHandle(q)
             \/ ServoTimesOut(q) \/ Kill(q)
      PROVE  goal
  <2>1. ASSUME NEW name \in Launchable, Launch(q, name) PROVE goal
    BY <1>1, <2>1 DEF Launch, Off, Active, Executing, RunOK
  <2>2. ASSUME NEW p \in Runners, Hear(q, p) PROVE goal
    BY <2>2 DEF Hear, RunOK, Run
  <2>3. CASE HearEStop(q) \/ SeeTool(q) \/ SeeHandle(q) \/ ServoTimesOut(q)
    <3>1. CASE q = r
      <4>1. run'[q].at = run[q].at
        BY <2>3 DEF HearEStop, SeeTool, SeeHandle, ServoTimesOut, RunOK, Run
      <4>2. run'[q].name = run[q].name
        BY <2>3 DEF HearEStop, SeeTool, SeeHandle, ServoTimesOut, RunOK, Run
      <4> QED
        BY <3>1, <4>1, <4>2
    <3>2. CASE q # r
      <4>1. run'[r] = run[r]
        BY <2>3, <3>2 DEF HearEStop, SeeTool, SeeHandle, ServoTimesOut, RunOK
      <4> QED
        BY <1>1, <4>1
    <3> QED
      BY <3>1, <3>2
  <2> QED
    BY <1>2, <1>4, <2>1, <2>2, <2>3 DEF ServiceMissing, Kill
<1>5. ASSUME NEW q \in Runners, Work(q), q # r PROVE goal
  <2>1. CASE run[q].at = "waiting"
    <3>1. Begin(q)
      BY <1>5, <2>1 DEF Work, GatePasses, GateRefuses, SkipOpenDrawer, Announce,
         SetTcp, Check, CallMove, AimFails, MoveArrives, MoveFails, CallGrip, GripEnds,
         StartLooking, Looked, StartServo, ServoTick, Nudge, OnFailure, Record, End
    <3> QED
      BY <1>1, <1>2, <1>5, <3>1, GoFields DEF Begin
  <2>2. CASE run[q].at # "waiting"
    BY <1>1, <1>5, <2>2, WorkGoesOn
  <2> QED
    BY <2>1, <2>2
<1>6. ASSUME Work(r) PROVE goal
  <2>1. ASSUME NEW place, Go(r, place) \/ Send(r, place), run[r].at \in Active PROVE goal
    BY <2>1, GoFields, SendFields
  <2>2. CASE NextStep(r) /\ run[r].at \in Active
    BY <2>2, NextStepFields
  <2>3. CASE Fail(r) /\ run[r].at \in Active
    BY <2>1, <2>3 DEF Fail
  <2>4. ASSUME run[r].at \notin Active PROVE goal
    <3>1. \/ Begin(r) \/ GatePasses(r) \/ GateRefuses(r) \/ SkipOpenDrawer(r) \/ Announce(r)
      BY <1>6, <2>4 DEF Work, SetTcp, Check, CallMove, AimFails, MoveArrives, MoveFails,
         CallGrip, GripEnds, StartLooking, Looked, StartServo, ServoTick, Nudge, OnFailure,
         Record, End, Active, Executing
    <3>2. CASE Begin(r) \/ GatePasses(r)
      BY <1>2, <3>2, GoFields DEF Begin, GatePasses, Active, Executing
    <3> QED
      BY <1>2, <3>1, <3>2 DEF GateRefuses, SkipOpenDrawer
  <2>5. ASSUME run[r].at \in Active PROVE goal
    <3>1. CASE Check(r) \/ CallMove(r) \/ CallGrip(r) \/ Nudge(r) \/ Record(r)
      BY <2>1, <2>3, <2>5, <3>1 DEF Check, CallMove, CallGrip, Nudge, Record
    <3>2. CASE AimFails(r) \/ MoveArrives(r) \/ MoveFails(r) \/ GripEnds(r) \/ Looked(r)
      BY <2>2, <2>3, <2>5, <3>2 DEF AimFails, MoveArrives, MoveFails, GripEnds, Looked
    <3>3. CASE StartLooking(r) \/ StartServo(r) \/ SetTcp(r)
      BY <2>5, <3>3 DEF StartLooking, StartServo, SetTcp, Go, RunOK, Run
    <3>4. CASE ServoTick(r)
      BY ZenonT(60), <2>2, <2>3, <2>5, <3>4 DEF ServoTick, RunOK, Run
    <3>5. CASE OnFailure(r)
      BY <2>5, <3>5 DEF OnFailure, RunOK, Run
    <3> QED
      BY <1>2, <1>6, <2>5, <3>1, <3>2, <3>3, <3>4, <3>5
      DEF Work, Begin, GatePasses, GateRefuses, SkipOpenDrawer, End, Active, Executing
  <2> QED
    BY <2>4, <2>5
<1> QED
  BY <1>3, <1>4, <1>5, <1>6 DEF Next

\* A plain sequence disputes its layer when it announces itself, and for good.
LEMMA HandedKept ==
  ASSUME RunOK, FlagsOK, RaceDisputes, HandedOver, Next
  PROVE  HandedOver'
<1> SUFFICES ASSUME NEW r \in Runners, run'[r].at \in Active, run'[r].name \in PlainDrawer
             PROVE  LayerOf(run'[r].name) \in disputed'
  BY DEF HandedOver
<1>1. disputed \cap Layers \subseteq disputed'
  BY DisputesStay
<1>2. CASE run[r].at \in Active /\ run'[r].name = run[r].name
  BY <1>1, <1>2, LayerOfIsOne DEF HandedOver
<1>3. CASE Announce(r)
  <2>1. run'[r].name = run[r].name
    BY <1>3, GoFields DEF Announce
  <2> QED
    BY <1>3, <2>1, LayerOfIsOne DEF Announce, Disputes
<1> QED
  BY <1>2, <1>3, ActiveSinceAnnounced

----------------------------------------------------------------------------
\* A vision sequence on drawer l; while it works, the table may be behind.
Concerned(x, l) == x.name \in VisionDrawer /\ LayerOf(x.name) = l
Working(x, l) == Concerned(x, l) /\ x.at \in Executing \cup {"failing", "recording"}

\* Where the table says the drawer is; and it is there, with nobody's hand on it.
WasAt(l) == IF record[l] THEN "open" ELSE "closed"
Parked(l) == drawer[l] = WasAt(l) /\ held # l

\* How far a sequence that goes well has brought its drawer, step by step.
Pulls(x, l) ==
  IF Opens(x.name)
  THEN /\ drawer[l] = IF x.step <= 6 THEN "closed" ELSE "open"
       /\ x.step \in 6..8 => held = l
  ELSE /\ drawer[l] = IF x.step <= 7 THEN WasAt(l) ELSE "closed"
       /\ x.step \in 6..8 => held = IF record[l] THEN l ELSE "none"

\* How far the table may be behind while a sequence on l is past its gate.
TableBehind(x, l) ==
  /\ x.at \notin {"off", "waiting", "gate", "ending", "failing"} /\ Opens(x.name) => ~record[l]
  /\ x.at \in Executing => ~x.homing /\ ((x.at = "calling" /\ inflight = Still) \/ Pulls(x, l))
  /\ x.at = "recording" => drawer[l] = IF Opens(x.name) THEN "open" ELSE "closed"

\* The line of the table for layer l is true, or a process is at work on it.
LineOK(l) ==
  /\ (\E r \in Runners : Working(run[r], l)) \/ Parked(l)
  /\ \A r \in Runners : Concerned(run[r], l) => TableBehind(run[r], l)

\* A process that is past the check is the only one that matters to a drawer.
LEMMA LineOfOne ==
  ASSUME IInv, ~raced, NEW l, NEW r \in Runners, run[r].at \in Admitted,
         \A q \in Runners \ {r} : run'[q] = run[q],
         Concerned(run'[r], l) => TableBehind(run[r], l)',
         Working(run'[r], l) \/ Parked(l)'
  PROVE  LineOK(l)'
<1>1. \A q \in Runners \ {r} : run'[q].at \in {"off", "waiting"}
  BY DEF IInv, Alone, RunOK, Run, Places
<1>2. \A q \in Runners \ {r} : TableBehind(run[q], l)'
  BY <1>1 DEF TableBehind, Executing
<1>3. (\E q \in Runners : Working(run[q], l))' \/ Parked(l)'
  BY DEF Working, Concerned
<1> QED
  BY <1>2, <1>3 DEF LineOK, Concerned

\* A process that is not at work on the drawer, before and after the step.
LEMMA LineOutside ==
  ASSUME RunOK, NEW l, LineOK(l), NEW r \in Runners, ~Working(run[r], l),
         \A q \in Runners \ {r} : run'[q] = run[q],
         Concerned(run'[r], l) => run'[r].at \in {"off", "waiting", "gate"},
         world' = world, record' = record
  PROVE  LineOK(l)'
<1>1. held' = held /\ drawer' = drawer /\ inflight' = inflight
  BY DEF world
<1>2. ASSUME NEW q \in Runners, Concerned(run'[q], l) PROVE TableBehind(run[q], l)'
  <2>1. CASE q = r
    BY <1>2, <2>1 DEF TableBehind, Executing
  <2>2. CASE q # r
    <3>1. TableBehind(run[q], l) /\ run'[q] = run[q]
      BY <1>2, <2>2 DEF LineOK
    <3> QED
      BY <1>1, <3>1 DEF TableBehind, Pulls, WasAt
  <2> QED
    BY <2>1, <2>2
<1>3. (\E q \in Runners : Working(run[q], l))' \/ Parked(l)'
  <2>1. CASE Parked(l)
    BY <1>1, <2>1 DEF Parked, WasAt
  <2>2. ASSUME NEW q \in Runners, Working(run[q], l) PROVE Working(run'[q], l)
    BY <2>2
  <2> QED
    BY <2>1, <2>2 DEF LineOK
<1> QED
  BY <1>2, <1>3 DEF LineOK

\* The processes stay where they are, and the drawer too.
LEMMA LineSame ==
  ASSUME NEW l, LineOK(l),
         \A q \in Runners : /\ run'[q].at = run[q].at /\ run'[q].name = run[q].name
                            /\ run'[q].step = run[q].step /\ run'[q].homing = run[q].homing,
         held' = held, drawer'[l] = drawer[l], record' = record, inflight' \in {Still, inflight}
  PROVE  LineOK(l)'
<1>1. ASSUME NEW q \in Runners, Concerned(run'[q], l) PROVE TableBehind(run[q], l)'
  <2>1. TableBehind(run[q], l)
    BY <1>1 DEF LineOK, Concerned
  <2>2. Pulls(run[q], l) => Pulls(run[q], l)'
    BY DEF Pulls, WasAt
  <2> QED
    BY <2>1, <2>2 DEF TableBehind
<1>2. \A q \in Runners : Working(run[q], l) => Working(run'[q], l)
  BY DEF Working, Concerned
<1>3. Parked(l) => Parked(l)'
  BY DEF Parked, WasAt
<1> QED
  BY <1>1, <1>2, <1>3 DEF LineOK

\* The handle is in the gripper, and the motion with it ends somewhere: the
\* process that asked for it is still to be told, or has given it up.
LEMMA LineInTow ==
  ASSUME IInv, OnCourse, ~raced, NEW l \in Layers, LineOK(l), held = l, inflight # Still,
         \A q \in Runners : /\ run'[q].at = run[q].at /\ run'[q].name = run[q].name
                            /\ run'[q].step = run[q].step /\ run'[q].homing = run[q].homing,
         record' = record, inflight' = Still
  PROVE  LineOK(l)'
<1>1. PICK r \in Runners : Working(run[r], l)
  BY DEF LineOK, Parked
<1>2. run[r].at \in Admitted /\ Knows(run[r])
  BY <1>1 DEF Working, Admitted, Active, OnCourse
<1>3. TableBehind(run[r], l)
  BY <1>1 DEF Working, LineOK
<1>4. run[r].at \in {"calling", "failing"}
  <2>1. run[r].at # "recording"
    BY <1>2 DEF Knows, RobotReady
  <2>2. run[r].at \in Executing => run[r].at = "calling"
    BY <1>2, <1>3 DEF TableBehind, Knows, OnTheWay, ArmOK
  <2> QED
    BY <1>1, <2>1, <2>2 DEF Working
<1>5. TableBehind(run[r], l)'
  BY <1>3, <1>4 DEF TableBehind, Executing
<1>6. ASSUME NEW q \in Runners, q # r PROVE TableBehind(run[q], l)'
  <2>1. run'[q].at \in {"off", "waiting"}
    BY <1>2, <1>6 DEF IInv, Alone, RunOK, Run, Places
  <2> QED
    BY <2>1 DEF TableBehind, Executing
<1>7. Working(run'[r], l)
  BY <1>1 DEF Working, Concerned
<1> QED
  BY <1>5, <1>6, <1>7 DEF LineOK

\* A motion that ends changes no drawer but the one it drags.
LEMMA OthersStay ==
  ASSUME TablesOK, NEW l \in Layers, NEW w, held # l
  PROVE  Dragged(w)[l] = drawer[l]
BY DEF TablesOK, Dragged

\* The arm is stopped, or arrives unattended.
LEMMA LineHalted ==
  ASSUME IInv, OnCourse, ~raced, TablesOK, NEW l \in Layers, LineOK(l),
         \A q \in Runners : /\ run'[q].at = run[q].at /\ run'[q].name = run[q].name
                            /\ run'[q].step = run[q].step /\ run'[q].homing = run[q].homing,
         record' = record, world' = world \/ Halt \/ OrphanArrives
  PROVE  LineOK(l)'
<1>1. CASE world' = world
  BY <1>1, LineSame DEF world
<1>2. CASE inflight' = Still /\ held' = held /\ held = l /\ inflight # Still
  BY <1>2, LineInTow
<1>3. CASE /\ held' = held /\ inflight' = Still
           /\ \/ drawer' = drawer
              \/ held # l /\ \E w \in {Nowhere, inflight} : drawer' = Dragged(w)
  <2>1. drawer'[l] = drawer[l]
    BY <1>3, OthersStay
  <2> QED
    BY <1>3, <2>1, LineSame
<1> QED
  BY <1>1, <1>2, <1>3 DEF Halt, OrphanArrives

----------------------------------------------------------------------------
\* A sequence that is about another drawer, or about none, leaves this one alone.
LEMMA LineElsewhere ==
  ASSUME IInv, OnCourse, ~raced, HandedOver, TablesOK, NEW l \in Layers \ disputed, LineOK(l),
         NEW r \in Runners, run[r].at \in Admitted, ~Concerned(run[r], l), Work(r)
  PROVE  LineOK(l)'
<1>1. /\ run'[r].name \in {run[r].name, "home"} /\ \A q \in Runners \ {r} : run'[q] = run[q]
      /\ run[r].at # "waiting"
  <2>1. run[r].at # "waiting"
    BY DEF Admitted, Active, Executing
  <2> QED
    BY <2>1, WorkGoesOn DEF IInv
<1>2. ~Concerned(run'[r], l)
  BY <1>1 DEF Concerned, VisionDrawer
<1>3. Parked(l)
  <2>1. \A q \in Runners \ {r} : run[q].at \in {"off", "waiting"}
    BY DEF IInv, Alone, RunOK, Run, Places
  <2>2. \A q \in Runners : ~Working(run[q], l)
    BY <2>1 DEF Working, Executing
  <2> QED
    BY <2>2 DEF LineOK
<1>4. ASSUME record'[l] = record[l], held' # l, drawer'[l] = drawer[l] PROVE LineOK(l)'
  <2>1. Parked(l)'
    BY <1>3, <1>4 DEF Parked, WasAt
  <2> QED
    BY <1>1, <1>2, <2>1, LineOfOne
<1>5. ASSUME NEW w, record' = record, held' = held, drawer' = Dragged(w) PROVE LineOK(l)'
  <2>1. held # l
    BY <1>3 DEF Parked
  <2>2. drawer'[l] = drawer[l]
    BY <1>5, <2>1, OthersStay
  <2> QED
    BY <1>4, <1>5, <2>1, <2>2
<1>6. ASSUME record' = record, held' = held, drawer' = drawer PROVE LineOK(l)'
  BY <1>3, <1>4, <1>6 DEF Parked
<1>7. CASE record' = record /\ world' = world
  BY <1>6, <1>7 DEF world
<1>8. CASE record' = record /\ Halt
  BY <1>5, <1>6, <1>8 DEF Halt
<1>9. CASE CallMove(r) \/ MoveArrives(r)
  BY <1>5, <1>6, <1>9 DEF CallMove, MoveArrives
<1>10. CASE GripEnds(r)
  <2>1. run[r].at = "gripping" /\ record' = record /\ drawer' = drawer /\ held # l
    BY <1>3, <1>10 DEF GripEnds, Parked
  <2>2. ASSUME held' = Grasp(Current(r).stroke) PROVE held' # l
    <3>1. "none" # l
      BY DEF Layers
    <3>2. CASE run[r].homing
      <4>1. /\ Current(r).kind = "GRIP" /\ Current(r) = home_seq[run[r].step]
            /\ run[r].step \in {1, 2}
        BY <2>1, <3>2, InStep DEF Fits, Executing, Current
      <4>2. Current(r).stroke = "release"
        BY <4>1, HomeLen DEF GRIP_RELEASE, grip, JOINT_HOME, mj_abs, Step
      <4> QED
        BY <2>2, <3>1, <4>2, Releases
    <3>3. CASE ~run[r].homing
      <4>1. held' = "none" \/ held' = Load(run[r].name)
        BY <2>1, <2>2, <3>3, GraspResult
      <4>2. Load(run[r].name) # l
        <5>1. run[r].name \in PlainDrawer => LayerOf(run[r].name) # l
          BY <2>1 DEF HandedOver, Active, Executing
        <5>2. run[r].name \in VisionDrawer => LayerOf(run[r].name) # l
          BY DEF Concerned
        <5> QED
          BY <5>1, <5>2 DEF Load, Drawers, Layers
      <4> QED
        BY <3>1, <4>1, <4>2
    <3> QED
      BY <3>2, <3>3
  <2>3. held' # l
    BY <1>10, <2>1, <2>2 DEF GripEnds
  <2> QED
    BY <1>4, <2>1, <2>3
<1>11. CASE Record(r)
  <2>1. CASE record' = record
    BY <1>7, <1>11, <2>1 DEF Record
  <2>2. CASE record' = [record EXCEPT ![LayerOf(run[r].name)] = Opens(run[r].name)]
    <3>1. run[r].name \in VisionDrawer
      BY <1>11 DEF Record, OnCourse, Knows
    <3>2. LayerOf(run[r].name) # l
      BY <3>1 DEF Concerned
    <3>3. record'[l] = record[l]
      BY <2>2, <3>2 DEF TablesOK
    <3>4. held' = held /\ drawer' = drawer /\ held # l
      BY <1>3, <1>11 DEF Record, world, Parked
    <3> QED
      BY <1>4, <3>3, <3>4
  <2> QED
    BY <1>11, <2>1, <2>2 DEF Record
<1>12. CASE \/ GatePasses(r) \/ GateRefuses(r) \/ SkipOpenDrawer(r) \/ Announce(r)
            \/ SetTcp(r) \/ Check(r) \/ AimFails(r) \/ MoveFails(r) \/ CallGrip(r)
            \/ StartLooking(r) \/ Looked(r) \/ StartServo(r) \/ ServoTick(r) \/ Nudge(r)
            \/ OnFailure(r) \/ End(r)
  <2>1. record' = record /\ (world' = world \/ Halt)
    BY <1>12 DEF GatePasses, GateRefuses, SkipOpenDrawer, Announce, SetTcp, Check,
       AimFails, MoveFails, CallGrip, StartLooking, Looked, StartServo, ServoTick, Nudge,
       OnFailure, End
  <2> QED
    BY <1>7, <1>8, <2>1
<1> QED
  BY <1>1, <1>9, <1>10, <1>11, <1>12 DEF Work, Begin

----------------------------------------------------------------------------
\* A sequence at work on the drawer fails: from now on the layer will be disputed.
LEMMA LineFails ==
  ASSUME IInv, ~raced, NEW l, LineOK(l), NEW r \in Runners, Concerned(run[r], l),
         run[r].at \in Executing, Fail(r)
  PROVE  LineOK(l)'
<1>1. ~run[r].homing /\ run[r].at \in Admitted
  BY DEF LineOK, TableBehind, Admitted, Active
<1>2. /\ run'[r].at = "failing" /\ run'[r].name = run[r].name
      /\ \A q \in Runners \ {r} : run'[q] = run[q]
  BY <1>1, GoFields DEF Fail, Failed, IInv
<1>3. TableBehind(run[r], l)'
  BY <1>2 DEF TableBehind, Executing
<1>4. Working(run'[r], l)
  BY <1>2 DEF Working, Concerned
<1> QED
  BY <1>1, <1>2, <1>3, <1>4, LineOfOne

\* It goes on with its step, or to the next, with its drawer where it should be.
LEMMA LineGoesOn ==
  ASSUME IInv, ~raced, NEW l, LineOK(l), NEW r \in Runners, Concerned(run[r], l),
         run[r].at \in Executing, run'[r].at \in Executing,
         run'[r].name = run[r].name, run'[r].homing = run[r].homing,
         \A q \in Runners \ {r} : run'[q] = run[q],
         record' = record, Pulls(run[r], l)'
  PROVE  LineOK(l)'
<1>1. run[r].at \in Admitted /\ TableBehind(run[r], l)
  BY DEF LineOK, Admitted, Active
<1>2. (Opens(run[r].name) => ~record[l]) /\ ~run[r].homing
  BY <1>1 DEF TableBehind, Executing
<1>3. TableBehind(run[r], l)'
  BY <1>2 DEF TableBehind, Executing
<1>4. Working(run'[r], l)
  BY DEF Working, Concerned
<1> QED
  BY <1>1, <1>3, <1>4, LineOfOne

\* It goes on with its step and nothing has moved.
LEMMA LineStays ==
  ASSUME IInv, ~raced, NEW l, LineOK(l), NEW r \in Runners, Concerned(run[r], l),
         run[r].at \in Executing \ {"calling"}, run'[r].at \in Executing,
         run'[r].name = run[r].name, run'[r].homing = run[r].homing, run'[r].step = run[r].step,
         \A q \in Runners \ {r} : run'[q] = run[q],
         record' = record, held' = held, drawer' = drawer
  PROVE  LineOK(l)'
<1>1. Pulls(run[r], l)
  BY DEF LineOK, TableBehind
<1>2. Pulls(run[r], l)'
  BY <1>1 DEF Pulls, WasAt
<1> QED
  BY <1>2, LineGoesOn

----------------------------------------------------------------------------
\* What is known of a vision sequence while it does a step.
LEMMA PullStep ==
  ASSUME IInv, OnCourse, ~raced, NEW l, LineOK(l), NEW r \in Runners, Concerned(run[r], l),
         run[r].at \in Executing \ {"between"}
  PROVE  /\ ~run[r].homing /\ Steps(r) = Program(run[r].name)
         /\ run[r].step \in Nat /\ run[r].step >= 1
         /\ Current(r) = Steps(r)[run[r].step] /\ Fits(run[r].at, Current(r))
         /\ run[r].step \in {6, 7} => Moves(Current(r))
         /\ run[r].step \in {5, 8} => Current(r).kind = "GRIP"
         /\ run[r].step = 6 => Current(r).at = At(l, "open")
         /\ run[r].step = 7 =>
              Current(r).at = At(l, IF Opens(run[r].name) THEN "silence" ELSE "approach")
         /\ run[r].step = 5 =>
              /\ Current(r).stroke = "box"
              /\ ArmOK(run[r]) =>
                   arm = At(l, IF Opens(run[r].name) THEN "approach" ELSE "opendown")
         /\ Moves(Current(r)) => Current(r).at # Still
         /\ run[r].step \notin 6 .. 8 => held = "none"
<1> DEFINE name == run[r].name  p == Steps(r)
<1>1. ~run[r].homing
  BY DEF LineOK, TableBehind
<1>2. /\ Steps(r) = Program(name) /\ Shape(p, name) /\ run[r].step \in 1 .. Len(p)
      /\ Current(r) = p[run[r].step] /\ HandOK(run[r]) /\ Fits(run[r].at, Current(r))
  BY <1>1, InStep DEF Current
<1>3. Len(p) \in Nat
  BY <1>2 DEF Shape, EndsAtHome
<1>4. /\ GraspStep(name) = 5 /\ LetGoStep(name) = 8 /\ name # "home" /\ name \in VisionDrawer
      /\ name \in Drawers /\ LayerOf(name) = l
  BY DEF Concerned, GraspStep, LetGoStep, Drawers, VisionDrawer, PlainDrawer
<1>5. Moves(p[6]) /\ Moves(p[7]) /\ p[8].kind = "GRIP"
  BY <1>2, <1>4 DEF Shape, TowsInPlace, LetsGo
<1>6. /\ Moves(p[3]) /\ p[3].at = At(l, IF Opens(name) THEN "approach" ELSE "opendown")
      /\ p[4].kind = "VISUAL_SERVO_XZ" /\ p[5].kind = "GRIP"
      /\ \A k \in 1..Len(p) : Moves(p[k]) => p[k].at # Still
      /\ p[6].at = At(l, "open")
      /\ p[7].at = At(l, IF Opens(name) THEN "silence" ELSE "approach")
  BY <1>2, <1>4 DEF Shape, PullsInPlace
<1>7. run[r].step = 5 => Current(r).stroke = "box"
  BY <1>2, <1>4, <1>6 DEF Shape, GripsInPlace
<1>8. run[r].step = 5 /\ ArmOK(run[r]) => arm = p[3].at
  BY <1>2, <1>6 DEF ArmOK
<1>9. run[r].step \notin 6 .. 8 => held = "none"
  BY <1>2, <1>4 DEF HandOK
<1>10. run[r].step \in Nat /\ run[r].step >= 1
  BY <1>2, <1>3
<1> HIDE DEF p, name
<1> QED
  BY <1>1, <1>2, <1>5, <1>6, <1>7, <1>8, <1>9, <1>10 DEF p, name

\* The next step leaves the drawer as it was.
LEMMA LineNext ==
  ASSUME IInv, OnCourse, ~raced, NEW l, LineOK(l), NEW r \in Runners, Concerned(run[r], l),
         run[r].at \in Executing \ {"between", "calling"}, NextStep(r),
         Current(r).kind \in {"WAIT_VISION_XY", "VISUAL_SERVO_XZ"},
         record' = record, world' = world
  PROVE  LineOK(l)'
<1>1. /\ run'[r].at = "between" /\ run'[r].name = run[r].name
      /\ run'[r].step = run[r].step + 1 /\ run'[r].homing = run[r].homing
      /\ \A q \in Runners \ {r} : run'[q] = run[q]
  BY NextStepFields DEF IInv
<1>2. run[r].step \in Nat /\ run[r].step \notin 5 .. 8
  BY PullStep DEF Moves, MoveKinds
<1>3. run'[r].step \in Nat /\ run'[r].step \notin 6 .. 9
  BY <1>1, <1>2
<1>4. Pulls(run[r], l)
  BY DEF LineOK, TableBehind
<1>5. Pulls(run[r], l)'
  <2>1. (run'[r].step <= 6 <=> run[r].step <= 6) /\ (run'[r].step <= 7 <=> run[r].step <= 7)
    BY <1>1, <1>2
  <2>2. drawer' = drawer /\ record' = record
    BY DEF world
  <2>3. run'[r].step \notin 6 .. 8
    BY <1>3
  <2> QED
    BY <1>1, <1>4, <2>1, <2>2, <2>3 DEF Pulls, WasAt
<1> QED
  BY <1>1, <1>5, LineGoesOn DEF Executing

\* A motion arrives: the drawer has been pulled, lowered or pushed with it.
LEMMA LineArrives ==
  ASSUME IInv, OnCourse, ~raced, TablesOK, NEW l \in Layers, LineOK(l), NEW r \in Runners,
         Concerned(run[r], l), MoveArrives(r)
  PROVE  LineOK(l)'
<1> DEFINE step == run[r].step  at == Current(r).at
<1>1. /\ run'[r].at = "between" /\ run'[r].name = run[r].name
      /\ run'[r].step = step + 1 /\ run'[r].homing = run[r].homing
      /\ \A q \in Runners \ {r} : run'[q] = run[q]
  BY NextStepFields DEF IInv, MoveArrives
<1>2. /\ run[r].at = "calling" /\ inflight = at /\ record' = record /\ held' = held
      /\ drawer' = Dragged(at)
  BY DEF MoveArrives
<1>3. Moves(Current(r)) /\ Current(r).kind # "GRIP"
  BY <1>2, PullStep DEF Fits, Executing, Moves, MoveKinds
<1>4. Pulls(run[r], l)
  BY <1>2, <1>3, PullStep DEF LineOK, TableBehind, Executing
<1>5. step \in Nat /\ step # 5 /\ step # 8
  BY <1>2, <1>3, PullStep DEF Executing
<1>6. Opens(run[r].name) => ~record[l]
  BY <1>2 DEF LineOK, TableBehind
<1>7. held # l => drawer'[l] = drawer[l]
  BY <1>2, OthersStay
<1>8. held = l /\ at.place = l =>
        drawer'[l] = CASE at.spot \in {"open", "open_v2"} -> at.spot
                       [] at.spot = "approach" -> "closed"
                       [] OTHER -> drawer[l]
  BY <1>2 DEF Dragged, Handles, TablesOK
<1>9. CASE step \notin 6 .. 8
  <2>1. held # l
    <3>1. held = "none"
      BY <1>2, <1>9, PullStep DEF Executing
    <3> QED
      BY <3>1 DEF Layers
  <2>2. (step + 1 <= 6 <=> step <= 6) /\ (step + 1 <= 7 <=> step <= 7) /\ step + 1 \notin 6 .. 8
    BY <1>5, <1>9
  <2>3. Pulls(run[r], l)'
    BY <1>1, <1>2, <1>4, <1>7, <2>1, <2>2 DEF Pulls, WasAt
  <2> QED
    BY <1>1, <1>2, <2>3, LineGoesOn DEF Executing
<1>10. CASE step = 6
  <2>1. at = At(l, "open") /\ at.place = l /\ at.spot = "open"
    <3>1. at = At(l, "open")
      BY <1>2, <1>10, PullStep DEF Executing
    <3> QED
      BY <3>1 DEF At
  <2>2. held = l => drawer'[l] = "open"
    BY <1>8, <2>1
  <2>3. CASE Opens(run[r].name)
    <3>1. held = l
      BY <1>4, <1>10, <2>3 DEF Pulls
    <3>2. Pulls(run[r], l)'
      BY <1>1, <1>2, <1>10, <2>2, <2>3, <3>1 DEF Pulls
    <3> QED
      BY <1>1, <1>2, <3>2, LineGoesOn DEF Executing
  <2>4. CASE ~Opens(run[r].name)
    <3>1. held = (IF record[l] THEN l ELSE "none") /\ drawer[l] = WasAt(l)
      BY <1>4, <1>10, <2>4 DEF Pulls
    <3>2. drawer'[l] = WasAt(l)
      BY <1>7, <2>2, <3>1 DEF WasAt, Layers
    <3>3. Pulls(run[r], l)'
      BY <1>1, <1>2, <1>10, <2>4, <3>1, <3>2 DEF Pulls, WasAt
    <3> QED
      BY <1>1, <1>2, <3>3, LineGoesOn DEF Executing
  <2> QED
    BY <2>3, <2>4
<1>11. CASE step = 7
  <2>1. CASE Opens(run[r].name)
    <3>1. at = At(l, "silence") /\ at.place = l /\ at.spot = "silence"
      <4>1. at = At(l, "silence")
        BY <1>2, <1>11, <2>1, PullStep DEF Executing
      <4> QED
        BY <4>1 DEF At
    <3>2. held = l /\ drawer[l] = "open"
      BY <1>4, <1>11, <2>1 DEF Pulls
    <3>3. drawer'[l] = "open"
      BY <1>8, <3>1, <3>2
    <3>4. Pulls(run[r], l)'
      BY <1>1, <1>2, <1>11, <2>1, <3>2, <3>3 DEF Pulls
    <3> QED
      BY <1>1, <1>2, <3>4, LineGoesOn DEF Executing
  <2>2. CASE ~Opens(run[r].name)
    <3>1. at = At(l, "approach") /\ at.place = l /\ at.spot = "approach"
      <4>1. at = At(l, "approach")
        BY <1>2, <1>11, <2>2, PullStep DEF Executing
      <4> QED
        BY <4>1 DEF At
    <3>2. held = (IF record[l] THEN l ELSE "none") /\ drawer[l] = WasAt(l)
      BY <1>4, <1>11, <2>2 DEF Pulls
    <3>3. drawer'[l] = "closed"
      BY <1>7, <1>8, <3>1, <3>2 DEF WasAt, Layers
    <3>4. Pulls(run[r], l)'
      BY <1>1, <1>2, <1>11, <2>2, <3>2, <3>3 DEF Pulls
    <3> QED
      BY <1>1, <1>2, <3>4, LineGoesOn DEF Executing
  <2> QED
    BY <2>1, <2>2
<1> QED
  BY <1>5, <1>9, <1>10, <1>11

\* A stroke of the gripper: the handle is there to be taken when the drawer is
\* where the table says it is.
LEMMA LineGrips ==
  ASSUME IInv, OnCourse, ~raced, TablesOK, NEW l \in Layers, LineOK(l), NEW r \in Runners,
         Concerned(run[r], l), GripEnds(r)
  PROVE  LineOK(l)'
<1> DEFINE step == run[r].step
<1>1. /\ run[r].at = "gripping" /\ run[r].at \in Executing
      /\ record' = record /\ drawer' = drawer
      /\ (Fail(r) \/ (NextStep(r) /\ held' = Grasp(Current(r).stroke)))
  BY DEF GripEnds, Executing
<1> SUFFICES ASSUME NextStep(r), held' = Grasp(Current(r).stroke) PROVE LineOK(l)'
  BY <1>1, LineFails
<1>2. /\ run'[r].at = "between" /\ run'[r].name = run[r].name
      /\ run'[r].step = step + 1 /\ run'[r].homing = run[r].homing
      /\ \A q \in Runners \ {r} : run'[q] = run[q]
  BY NextStepFields DEF IInv
<1>3. Current(r).kind = "GRIP" /\ step \in Nat /\ ~run[r].homing
  BY <1>1, PullStep DEF Fits
<1>4. step # 6 /\ step # 7
  BY <1>1, <1>3, PullStep DEF Moves, MoveKinds
<1>5. Pulls(run[r], l)
  BY <1>1 DEF LineOK, TableBehind
<1>6. CASE step # 5
  <2>1. (step + 1 <= 6 <=> step <= 6) /\ (step + 1 <= 7 <=> step <= 7) /\ step + 1 \notin 6 .. 8
    BY <1>3, <1>4, <1>6
  <2>2. Pulls(run[r], l)'
    BY <1>1, <1>2, <1>5, <2>1 DEF Pulls, WasAt
  <2> QED
    BY <1>1, <1>2, <2>2, LineGoesOn DEF Executing
<1>7. CASE step = 5
  <2>1. /\ Current(r).stroke = "box" /\ held = "none"
        /\ arm = At(l, IF Opens(run[r].name) THEN "approach" ELSE "opendown")
    BY <1>1, <1>3, <1>7, PullStep, InStep
  <2>2. \A k \in Layers : HandleHere(k) => k = l
    BY <2>1 DEF HandleHere, At
  <2>3. HandleHere(l) => held' = l
    BY <2>1, <2>2 DEF Grasp
  <2>4. ~HandleHere(l) => held' = "none"
    BY <2>1, <2>2 DEF Grasp
  <2>5. CASE Opens(run[r].name)
    <3>1. drawer[l] = "closed"
      BY <1>5, <1>7, <2>5 DEF Pulls
    <3>2. held' = l
      BY <2>1, <2>3, <2>5, <3>1 DEF HandleHere
    <3>3. Pulls(run[r], l)'
      BY <1>1, <1>2, <1>7, <2>5, <3>1, <3>2 DEF Pulls
    <3> QED
      BY <1>1, <1>2, <3>3, LineGoesOn DEF Executing
  <2>6. CASE ~Opens(run[r].name)
    <3>1. drawer[l] = WasAt(l)
      BY <1>5, <1>7, <2>6 DEF Pulls
    <3>2. HandleHere(l) <=> drawer[l] = "open"
      BY <2>1, <2>6 DEF HandleHere, At
    <3>3. held' = IF record[l] THEN l ELSE "none"
      BY <2>3, <2>4, <3>1, <3>2 DEF WasAt
    <3>4. Pulls(run[r], l)'
      BY <1>1, <1>2, <1>7, <2>6, <3>1, <3>3 DEF Pulls, WasAt
    <3> QED
      BY <1>1, <1>2, <3>4, LineGoesOn DEF Executing
  <2> QED
    BY <2>5, <2>6
<1> QED
  BY <1>6, <1>7

----------------------------------------------------------------------------
\* Before its first step a sequence finds the drawer where the table says it is.
LEMMA LineBegins ==
  ASSUME IInv, OnCourse, ~raced, NEW l \in Layers, LineOK(l), NEW r \in Runners,
         Concerned(run[r], l), GatePasses(r) \/ Announce(r) \/ SetTcp(r)
  PROVE  LineOK(l)'
<1>1. /\ world' = world /\ record' = record /\ run[r].at \in {"gate", "announce", "tcp"}
      /\ run[r].at \in Admitted
  BY DEF GatePasses, Announce, SetTcp, Admitted, Active
<1>2. drawer' = drawer /\ held' = held
  BY <1>1 DEF world
<1>3. run[r].step = 1 /\ ~run[r].homing
  BY <1>1 DEF OnCourse, Knows, AtStart
<1>4. Opens(run[r].name) => ~record[l]
  <2>1. CASE GatePasses(r)
    BY <2>1 DEF GatePasses, AlreadyOpen, Concerned
  <2>2. CASE Announce(r) \/ SetTcp(r)
    BY <2>2 DEF Announce, SetTcp, LineOK, TableBehind
  <2> QED
    BY <2>1, <2>2
<1>5. Parked(l)
  <2>1. \A q \in Runners \ {r} : run[q].at \in {"off", "waiting"}
    BY <1>1 DEF IInv, Alone, RunOK, Run, Places
  <2>2. \A q \in Runners : ~Working(run[q], l)
    BY <1>1, <2>1 DEF Working, Executing
  <2> QED
    BY <2>2 DEF LineOK
<1>6. Parked(l)'
  BY <1>1, <1>2, <1>5 DEF Parked, WasAt
<1>7. ASSUME NEW place \in {"announce", "tcp", "between"}, Go(r, place) PROVE LineOK(l)'
  <2>1. /\ run'[r].at = place /\ run'[r].name = run[r].name
        /\ run'[r].step = 1 /\ ~run'[r].homing
        /\ \A q \in Runners \ {r} : run'[q] = run[q]
    BY <1>3, <1>7, GoFields DEF IInv
  <2>2. Pulls(run[r], l)'
    BY <1>1, <1>2, <1>4, <1>5, <2>1 DEF Pulls, Parked, WasAt
  <2>3. TableBehind(run[r], l)'
    BY <1>1, <1>4, <2>1, <2>2 DEF TableBehind, Executing
  <2> QED
    BY <1>1, <1>6, <2>1, <2>3, LineOfOne
<1>8. CASE run' = [run EXCEPT ![r].at = "failing", ![r].step = 0]
  <2>1. /\ run'[r].at = "failing" /\ \A q \in Runners \ {r} : run'[q] = run[q]
    BY <1>8 DEF IInv, RunOK, Run
  <2>2. TableBehind(run[r], l)'
    BY <2>1 DEF TableBehind, Executing
  <2> QED
    BY <1>1, <1>6, <2>1, <2>2, LineOfOne
<1> QED
  BY <1>7, <1>8 DEF GatePasses, Announce, SetTcp

\* Between two steps; past the last one the drawer is where the table will say.
LEMMA LineChecked ==
  ASSUME IInv, OnCourse, ~raced, NEW l \in Layers, LineOK(l), NEW r \in Runners,
         Concerned(run[r], l), Check(r)
  PROVE  LineOK(l)'
<1>1. /\ world' = world /\ record' = record /\ run[r].at = "between"
      /\ run[r].at \in Admitted /\ run[r].at \in Executing \ {"calling"}
  BY DEF Check, Admitted, Active, Executing
<1>2. drawer' = drawer /\ held' = held
  BY <1>1 DEF world
<1>3. ~run[r].homing /\ Pulls(run[r], l) /\ (Opens(run[r].name) => ~record[l])
  BY <1>1 DEF LineOK, TableBehind
<1>4. CASE Fail(r)
  BY <1>1, <1>4, LineFails
<1>5. CASE Go(r, "checked")
  BY <1>1, <1>2, <1>5, GoFields, LineStays DEF IInv, Executing
<1>6. CASE Go(r, "recording") /\ run[r].step > Len(Steps(r))
  <2>1. /\ run'[r].at = "recording" /\ run'[r].name = run[r].name
        /\ \A q \in Runners \ {r} : run'[q] = run[q]
    BY <1>6, GoFields DEF IInv
  <2>2. run[r].step > 8 /\ run[r].step \in Nat
    <3>1. Steps(r) = Program(run[r].name) /\ run[r].name \in SeqNames
      BY <1>1, <1>3 DEF Steps, OnCourse, Knows
    <3>2. Shape(Steps(r), run[r].name)
      BY <3>1, ProgramShape
    <3>3. LetGoStep(run[r].name) = 8 /\ run[r].name # "home"
      BY DEF Concerned, LetGoStep, VisionDrawer, PlainDrawer
    <3>4. 8 < Len(Steps(r)) /\ Len(Steps(r)) \in Nat
      BY <3>2, <3>3 DEF Shape, LetsGo, EndsAtHome
    <3>5. run[r].step \in Nat
      BY DEF IInv, RunOK, Run
    <3> QED
      BY <1>6, <3>4, <3>5
  <2>3. drawer[l] = IF Opens(run[r].name) THEN "open" ELSE "closed"
    BY <1>3, <2>2 DEF Pulls
  <2>4. TableBehind(run[r], l)'
    BY <1>1, <1>2, <1>3, <2>1, <2>3 DEF TableBehind, Executing
  <2>5. Working(run'[r], l)
    BY <2>1 DEF Working, Concerned
  <2> QED
    BY <1>1, <2>1, <2>4, <2>5, LineOfOne
<1> QED
  BY <1>3, <1>4, <1>5, <1>6 DEF Check, Concerned

\* The steps that ask for something, and the ticks of the servo loop.
LEMMA LineAsks ==
  ASSUME IInv, OnCourse, ~raced, NEW l \in Layers, LineOK(l), NEW r \in Runners,
         Concerned(run[r], l),
         CallMove(r) \/ CallGrip(r) \/ StartLooking(r) \/ StartServo(r) \/ Nudge(r)
         \/ ServoTimesOut(r)
  PROVE  LineOK(l)'
<1>1. /\ drawer' = drawer /\ held' = held /\ record' = record
      /\ run[r].at \in Executing \ {"between", "calling"} /\ run[r].at \in Admitted
  BY DEF CallMove, CallGrip, StartLooking, StartServo, Nudge, ServoTimesOut, world, Executing,
     Admitted, Active
<1>2. ~run[r].homing
  BY <1>1, PullStep
<1>3. PICK place \in Executing \cup {"failing"} :
        /\ run'[r].at = place /\ run'[r].name = run[r].name
        /\ run'[r].step = run[r].step /\ run'[r].homing = run[r].homing
        /\ \A q \in Runners \ {r} : run'[q] = run[q]
  <2>1. ASSUME NEW place \in Executing \cup {"failing"}, Send(r, place)
        PROVE  /\ run'[r].at = place /\ run'[r].name = run[r].name
               /\ run'[r].step = run[r].step /\ run'[r].homing = run[r].homing
               /\ \A q \in Runners \ {r} : run'[q] = run[q]
    BY <2>1, SendFields DEF IInv
  <2>2. CASE CallMove(r) \/ CallGrip(r) \/ Nudge(r)
    BY <1>2, <2>1, <2>2 DEF CallMove, CallGrip, Nudge, Failed, Executing
  <2>3. CASE StartLooking(r) \/ StartServo(r) \/ ServoTimesOut(r)
    <3>1. run'[r].at \in {"looking", "servo"}
      BY ZenonT(60), <2>3 DEF StartLooking, StartServo, ServoTimesOut, IInv, RunOK, Run
    <3>2. run'[r].name = run[r].name
      BY <2>3 DEF StartLooking, StartServo, ServoTimesOut, IInv, RunOK, Run
    <3>3. run'[r].step = run[r].step /\ run'[r].homing = run[r].homing
      BY ZenonT(60), <2>3 DEF StartLooking, StartServo, ServoTimesOut, IInv, RunOK, Run
    <3>4. \A q \in Runners \ {r} : run'[q] = run[q]
      BY <2>3 DEF StartLooking, StartServo, ServoTimesOut, IInv, RunOK
    <3> QED
      BY <3>1, <3>2, <3>3, <3>4 DEF Executing
  <2> QED
    BY <2>2, <2>3
<1>4. CASE place \in Executing
  BY <1>1, <1>3, <1>4, LineStays
<1>5. CASE place = "failing"
  <2>1. TableBehind(run[r], l)'
    BY <1>3, <1>5 DEF TableBehind, Executing
  <2>2. Working(run'[r], l)
    BY <1>3, <1>5 DEF Working, Concerned
  <2> QED
    BY <1>1, <1>3, <2>1, <2>2, LineOfOne
<1> QED
  BY <1>4, <1>5

\* The servo step, which moves no drawer.
LEMMA LineLooksAndServos ==
  ASSUME IInv, OnCourse, ~raced, NEW l \in Layers, LineOK(l), NEW r \in Runners,
         Concerned(run[r], l), Looked(r) \/ ServoTick(r)
  PROVE  LineOK(l)'
<1>1. /\ world' = world /\ record' = record
      /\ run[r].at \in Executing \ {"between", "calling"}
      /\ Current(r).kind \in {"WAIT_VISION_XY", "VISUAL_SERVO_XZ"}
  <2>1. /\ world' = world /\ record' = record
        /\ run[r].at \in {"looking", "servo"}
    BY DEF Looked, ServoTick
  <2>2. run[r].at \in Executing \ {"between", "calling"}
    BY <2>1 DEF Executing
  <2> QED
    BY <2>1, <2>2, PullStep DEF Fits
<1>2. drawer' = drawer /\ held' = held
  BY <1>1 DEF world
<1>3. CASE Fail(r)
  BY <1>1, <1>3, LineFails
<1>4. CASE NextStep(r)
  BY <1>1, <1>4, LineNext
<1>5. ASSUME NEW near \in BOOLEAN, run[r].at = "servo",
             run' = [run EXCEPT
                 ![r].servo = tick(@, run[r].estop, FALSE, run[r].handle, near),
                 ![r].at = IF commands(run[r].servo, run[r].estop, FALSE, run[r].handle, near)
                           THEN "nudge" ELSE @]
      PROVE  LineOK(l)'
  <2>1. run'[r].at \in {"nudge", "servo"} /\ run'[r].name = run[r].name
    BY <1>5 DEF IInv, RunOK, Run
  <2>2. run'[r].step = run[r].step /\ run'[r].homing = run[r].homing
    BY <1>5 DEF IInv, RunOK, Run
  <2>3. \A q \in Runners \ {r} : run'[q] = run[q]
    BY <1>5 DEF IInv, RunOK
  <2> QED
    BY <1>1, <1>2, <2>1, <2>2, <2>3, LineStays DEF Executing
<1> QED
  BY <1>3, <1>4, <1>5 DEF Looked, ServoTick

\* The table is told where the drawer is; or nobody knows any more.
LEMMA LineRecorded ==
  ASSUME IInv, OnCourse, ~raced, TablesOK, NEW l \in Layers, LineOK(l), NEW r \in Runners,
         Concerned(run[r], l), OnFailure(r) \/ Record(r), l \notin disputed'
  PROVE  LineOK(l)'
<1>1. ~Disputes(r)
  BY DEF Disputes, Concerned
<1>2. /\ Record(r) /\ run[r].at = "recording" /\ world' = world /\ Go(r, "ending")
      /\ record' = [record EXCEPT ![LayerOf(run[r].name)] = Opens(run[r].name)]
  BY <1>1 DEF OnFailure, Record
<1>3. record'[l] = Opens(run[r].name)
  BY <1>2 DEF Concerned, TablesOK
<1>4. drawer[l] = (IF Opens(run[r].name) THEN "open" ELSE "closed") /\ held = "none"
  BY <1>2 DEF LineOK, TableBehind, OnCourse, Knows, RobotReady
<1>5. drawer' = drawer /\ held' = held
  BY <1>2 DEF world
<1>6. Parked(l)'
  BY <1>3, <1>4, <1>5 DEF Parked, WasAt, Layers
<1>7. /\ run'[r].at = "ending" /\ \A q \in Runners \ {r} : run'[q] = run[q]
  BY <1>2, GoFields DEF IInv
<1>8. TableBehind(run[r], l)'
  BY <1>7 DEF TableBehind, Executing
<1>9. run[r].at \in Admitted
  BY <1>2 DEF Admitted, Active
<1> QED
  BY <1>6, <1>7, <1>8, <1>9, LineOfOne

\* A process leaves, without having touched the drawer or after it is done with it.
LEMMA LineLeaves ==
  ASSUME IInv, NEW l, LineOK(l), NEW r \in Runners, ~Working(run[r], l), Exit(r),
         world' = world, record' = record
  PROVE  LineOK(l)'
<1>1. run'[r] = Off /\ \A q \in Runners \ {r} : run'[q] = run[q]
  BY DEF Exit, IInv, RunOK
<1>2. run'[r].at = "off"
  BY <1>1 DEF Off
<1> QED
  BY <1>1, <1>2, LineOutside DEF IInv

\* Any step of a process that leaves the layer undisputed.
LEMMA LineWorks ==
  ASSUME IInv, OnCourse, ~raced, HandedOver, TablesOK, NEW l \in Layers \ disputed, LineOK(l),
         NEW r \in Runners, Work(r) \/ ServoTimesOut(r) \/ Kill(r), ~raced', l \notin disputed'
  PROVE  LineOK(l)'
<1>1. CASE Begin(r)
  <2>1. ~Working(run[r], l) /\ world' = world /\ record' = record
    BY <1>1 DEF Begin, Working, Executing
  <2>2. CASE Exit(r)
    BY <2>1, <2>2, LineLeaves
  <2>3. ASSUME NEW place, Go(r, place), place = "gate" \/ run[r].name \notin VisionDrawer
        PROVE  LineOK(l)'
    <3>1. /\ run'[r].at = place /\ run'[r].name = run[r].name
          /\ \A q \in Runners \ {r} : run'[q] = run[q]
      BY <2>3, GoFields DEF IInv
    <3>2. Concerned(run'[r], l) => run'[r].at \in {"off", "waiting", "gate"}
      BY <2>3, <3>1 DEF Concerned
    <3> QED
      BY <2>1, <3>1, <3>2, LineOutside DEF IInv
  <2> QED
    BY <1>1, <2>2, <2>3 DEF Begin
<1>2. CASE Kill(r)
  <2>1. ~Working(run[r], l)
    <3>1. ~Concerned(run[r], l) \/ run[r].at \notin Active
      BY <1>2 DEF Kill, Disputes, Concerned
    <3> QED
      BY <3>1 DEF Working, Active
  <2> QED
    BY <1>2, <2>1, LineLeaves DEF Kill
<1>3. CASE Work(r) /\ run[r].at \notin Admitted
  BY <1>1, <1>3 DEF Work, GatePasses, GateRefuses, SkipOpenDrawer, Announce, SetTcp, Check,
     CallMove, AimFails, MoveArrives, MoveFails, CallGrip, GripEnds, StartLooking, Looked,
     StartServo, ServoTick, Nudge, OnFailure, Record, End, Admitted, Active, Executing
<1>4. CASE Work(r) /\ run[r].at \in Admitted /\ ~Concerned(run[r], l)
  BY <1>4, LineElsewhere
<1>5. CASE Work(r) /\ run[r].at \in Admitted /\ Concerned(run[r], l)
  <2>1. CASE GateRefuses(r) \/ SkipOpenDrawer(r) \/ End(r)
    <3>1. Exit(r) /\ world' = world /\ record' = record /\ run[r].at \in {"gate", "ending"}
      BY <2>1 DEF GateRefuses, SkipOpenDrawer, End
    <3>2. ~Working(run[r], l)
      BY <3>1 DEF Working, Executing
    <3> QED
      BY <3>1, <3>2, LineLeaves
  <2>2. CASE AimFails(r) \/ MoveFails(r)
    <3>1. Fail(r) /\ run[r].at \in Executing
      BY <2>2 DEF AimFails, MoveFails, Executing
    <3> QED
      BY <1>5, <3>1, LineFails
  <2> QED
    BY <1>1, <1>5, <2>1, <2>2, LineBegins, LineChecked, LineAsks, LineArrives, LineGrips,
       LineLooksAndServos, LineRecorded DEF Work
<1>6. CASE ServoTimesOut(r)
  <2>1. CASE Concerned(run[r], l)
    BY <1>6, <2>1, LineAsks
  <2>2. CASE ~Concerned(run[r], l)
    <3>1. /\ run'[r].name = run[r].name /\ \A q \in Runners \ {r} : run'[q] = run[q]
          /\ world' = world /\ record' = record
      BY <1>6 DEF ServoTimesOut, IInv, RunOK, Run
    <3>2. ~Concerned(run'[r], l) /\ ~Working(run[r], l)
      BY <2>2, <3>1 DEF Concerned, Working
    <3> QED
      BY <3>1, <3>2, LineOutside DEF IInv
  <2> QED
    BY <2>1, <2>2
<1> QED
  BY <1>2, <1>3, <1>4, <1>5, <1>6

\* Any step of the system that leaves the layer undisputed.
LEMMA LineKept ==
  ASSUME IInv, OnCourse, ~raced, HandedOver, TablesOK, NEW l \in Layers \ disputed, LineOK(l),
         Next, ~raced', l \notin disputed'
  PROVE  LineOK(l)'
<1>1. CASE OrphanArrives
  <2>1. run' = run /\ record' = record
    BY <1>1 DEF OrphanArrives
  <2> QED
    BY <1>1, <2>1, LineHalted
<1>2. CASE PutInOrder
  <2>1. /\ run' = run /\ record' = record /\ drawer' = drawer /\ held' = "none"
        /\ \A q \in Runners : run[q].at = "off"
    BY <1>2 DEF PutInOrder, Live
  <2>2. Parked(l)
    BY <2>1 DEF LineOK, Working, Executing
  <2>3. Parked(l)'
    BY <2>1, <2>2 DEF Parked, WasAt, Layers
  <2>4. \A q \in Runners : TableBehind(run[q], l)'
    BY <2>1 DEF TableBehind, Executing
  <2> QED
    BY <2>3, <2>4 DEF LineOK
<1>3. ASSUME NEW r \in Runners, NEW name \in Launchable, Launch(r, name) PROVE LineOK(l)'
  <2>1. /\ run[r].at = "off" /\ run'[r].at = "waiting" /\ world' = world /\ record' = record
        /\ \A q \in Runners \ {r} : run'[q] = run[q]
    BY <1>3 DEF Launch, Live, Off, IInv, RunOK
  <2>2. ~Working(run[r], l)
    BY <2>1 DEF Working, Executing
  <2> QED
    BY <2>1, <2>2, LineOutside DEF IInv
<1>4. ASSUME NEW r \in Runners, ServiceMissing(r) PROVE LineOK(l)'
  <2>1. Exit(r) /\ world' = world /\ record' = record /\ ~Working(run[r], l)
    BY <1>4 DEF ServiceMissing, Working, Executing
  <2> QED
    BY <2>1, LineLeaves
<1>5. ASSUME NEW r \in Runners,
             (\E q \in Runners : Hear(r, q)) \/ HearEStop(r) \/ SeeTool(r) \/ SeeHandle(r)
      PROVE  LineOK(l)'
  <2>1. record' = record /\ (world' = world \/ Halt)
    BY <1>5 DEF Hear, HearEStop, SeeTool, SeeHandle
  <2>2. \A q \in Runners : run'[q].at = run[q].at /\ run'[q].name = run[q].name
    BY <1>5 DEF Hear, HearEStop, SeeTool, SeeHandle, IInv, RunOK, Run
  <2>3. \A q \in Runners : run'[q].step = run[q].step /\ run'[q].homing = run[q].homing
    BY <1>5 DEF Hear, HearEStop, SeeTool, SeeHandle, IInv, RunOK, Run
  <2> QED
    BY <2>1, <2>2, <2>3, LineHalted
<1>6. ASSUME NEW r \in Runners, Work(r) \/ ServoTimesOut(r) \/ Kill(r) PROVE LineOK(l)'
  BY <1>6, LineWorks
<1> QED
  BY <1>1, <1>2, <1>3, <1>4, <1>5, <1>6 DEF Next

\* The invariant behind TheRecordIsTrue.
TableInv ==
  /\ CourseInv /\ TablesOK /\ RaceDisputes /\ HandedOver
  /\ \A l \in Layers \ disputed : LineOK(l)

\* It holds in the initial states,
LEMMA TableInit == Init => TableInv
<1> SUFFICES ASSUME Init PROVE TableInv
  OBVIOUS
<1>1. \A r \in Runners : run[r].at = "off"
  BY DEF Init, Off
<1>2. TablesOK /\ RaceDisputes
  BY DEF Init, TablesOK, RaceDisputes
<1>3. HandedOver
  BY <1>1 DEF HandedOver, Active, Executing
<1>4. ASSUME NEW l \in Layers PROVE LineOK(l)
  <2>1. Parked(l)
    BY DEF Init, Parked, WasAt, Layers
  <2> QED
    BY <1>1, <2>1 DEF LineOK, TableBehind, Executing
<1> QED
  BY <1>2, <1>3, <1>4, CourseInit DEF TableInv

\* and every step keeps it.
LEMMA TableKept ==
  ASSUME TableInv, [Next]_vars
  PROVE  TableInv'
<1>1. /\ CourseInv /\ TablesOK /\ RaceDisputes /\ HandedOver
      /\ IInv /\ OnCourse /\ RunOK /\ FlagsOK
  BY DEF TableInv, CourseInv, IInv
<1>2. CourseInv'
  BY <1>1, CourseKept
<1>3. CASE UNCHANGED vars
  <2>1. /\ run' = run /\ record' = record /\ raced' = raced /\ disputed' = disputed
        /\ held' = held /\ drawer' = drawer /\ inflight' = inflight
    BY <1>3 DEF vars, world, history
  <2>2. TablesOK' /\ RaceDisputes' /\ HandedOver'
    BY <1>1, <2>1 DEF TablesOK, RaceDisputes, HandedOver
  <2>3. ASSUME NEW l \in Layers \ disputed' PROVE LineOK(l)'
    <3>1. LineOK(l)
      BY <2>1 DEF TableInv
    <3> QED
      BY <2>1, <3>1, LineSame
  <2> QED
    BY <1>2, <2>2, <2>3 DEF TableInv
<1>4. CASE Next
  <2>1. TablesOK' /\ RaceDisputes' /\ HandedOver' /\ disputed \cap Layers \subseteq disputed'
    BY <1>1, <1>4, TablesKept, DisputesStay, HandedKept
  <2>2. ASSUME NEW l \in Layers \ disputed' PROVE LineOK(l)'
    <3>1. l \in Layers \ disputed /\ LineOK(l)
      BY <2>1 DEF TableInv
    <3>2. ~raced /\ ~raced'
      BY <1>1, <2>1, <3>1 DEF RaceDisputes
    <3> QED
      BY <1>1, <1>4, <3>1, <3>2, LineKept
  <2> QED
    BY <1>2, <2>1, <2>2 DEF TableInv
<1> QED
  BY <1>3, <1>4

\* The drawers table says where a drawer is whenever no recorded sequence is at work on
\* it, unless a run on that layer failed, was killed or could not be recorded, a
\* sequence that is not recorded moved it, or two runners raced (_run_once).
THEOREM TheRecordIsTrue == Spec => []RecordIsTrue
<1>1. Init => TableInv
  BY TableInit
<1>2. TableInv /\ [Next]_vars => TableInv'
  BY TableKept
<1>3. TableInv => RecordIsTrue
  <2> SUFFICES ASSUME TableInv, NEW l \in Layers \ disputed,
                      \A r \in Runners : run[r].at \in Active =>
                        run[r].name \notin VisionDrawer \/ LayerOf(run[r].name) # l
               PROVE  drawer[l] = IF record[l] THEN "open" ELSE "closed"
    BY DEF RecordIsTrue
  <2>1. \A r \in Runners : ~Working(run[r], l)
    BY DEF Working, Concerned, Active
  <2> QED
    BY <2>1 DEF TableInv, LineOK, Parked, WasAt
<1> QED
  BY <1>1, <1>2, <1>3, PTL DEF Spec
=============================================================================

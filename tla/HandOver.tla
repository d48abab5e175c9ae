------------------------------ MODULE HandOver ------------------------------
(***************************************************************************)
(* Giving a tool to a hand: vision/hand_node.py, which decides whether a   *)
(* hand waits for it and where, the two best-effort topics /hand/ready and *)
(* /hand/pose, and the sequences of motion/tool_action_server.py that      *)
(* place a tool on the hand (place_on_hand, place_on_hand_test).           *)
(*                                                                         *)
(* A position is a number on a line, in units of the distance that counts  *)
(* as a movement (lock_update_distance_m, 3 cm); two units are too far     *)
(* (lock_break_distance_m, lock_break_z_m).  Time, for hand_node, is       *)
(* counted in frames.                                                      *)
(***************************************************************************)
EXTENDS Integers, Sequences

CONSTANTS
  MaxSpot,       \* bounds the model: positions are 0..MaxSpot
  StableFrames,  \* stable_frames
  Keep,          \* lock_keep_s, in frames
  Wrong, None

ASSUME ConstantsAssumption ==
  /\ MaxSpot \in Nat /\ StableFrames \in Nat \ {0} /\ Keep \in Nat
  /\ Wrong # None /\ Wrong \notin Nat /\ None \notin Nat

VARIABLES
  hand,       \* what the camera shows: a spot, Wrong (palm down, fist) or None
  seen,       \* _pose_history
  locked,     \* _locked
  lockedPos,  \* _locked_pos
  missing,    \* _no_detect_start: frames since then, or None
  ready,      \* the last /hand/ready published
  unseen,     \* history: frames since one that showed an open palm
  astray,     \* history: that palm lay off a lock which did not follow it
  taskPose,   \* tool_action_server: _hand_pose
  taskReady,  \* tool_action_server: _hand_ready
  phase,      \* what the hand-over does next
  target,     \* _hand_approach_pos
  taken,      \* _grip_taken
  latch,      \* _estop_latch
  late        \* history: motions commanded while latched, since the E-stop

node == <<seen, locked, lockedPos, missing, ready, unseen, astray>>
view == <<taskPose, taskReady>>
task == <<phase, target, taken, latch, late>>
vars == <<hand, node, view, task>>

Spots  == 0..MaxSpot
\* What a frame's hands come down to: none in the region or none certain, a
\* posture no tool is given to, or the palm's position.
Views  == Spots \cup {Wrong, None}
Phases == {"idle", "wait", "fetch", "approach", "above", "down", "place", "let_go", "home"}

TypeOK ==
  /\ hand \in Views
  /\ seen \in Seq(Spots) /\ Len(seen) <= StableFrames
  /\ locked \in BOOLEAN /\ lockedPos \in Spots \cup {None}
  /\ locked => lockedPos # None
  /\ missing \in 0..Keep \cup {None}
  /\ ready \in BOOLEAN /\ unseen \in 0..Keep + 2 /\ astray \in BOOLEAN
  /\ taskPose \in Spots \cup {None} /\ taskReady \in BOOLEAN
  /\ phase \in Phases /\ target \in Spots \cup {None}
  /\ phase \in {"above", "down", "place"} => target # None
  /\ taken \in BOOLEAN /\ latch \in BOOLEAN /\ late \in Nat

Init ==
  /\ hand = None
  /\ seen = <<>> /\ locked = FALSE /\ lockedPos = None /\ missing = None
  /\ ready = FALSE /\ unseen = 0 /\ astray = FALSE
  /\ taskPose = None /\ taskReady = FALSE
  /\ phase = "idle" /\ target = None /\ taken = FALSE /\ latch = FALSE /\ late = 0

----------------------------------------------------------------------------
(* hand_node *)

\* A person, or an arm in the camera's way.
HandMoves ==
  /\ hand' \in Views
  /\ UNCHANGED <<node, view, task>>

Away(p, q) == IF p > q THEN p - q ELSE q - p

\* Both topics are best effort: what is published arrives, or does not.
Publish(isReady, pose) ==
  /\ ready' = isReady
  /\ taskReady' \in {taskReady, isReady}
  /\ taskPose' \in {taskPose, IF isReady THEN pose ELSE taskPose}

\* Mutant: the history and the position go, the lock stays.
ResetStateButLock == seen' = <<>> /\ lockedPos' = None /\ missing' = None /\ UNCHANGED locked

ResetState == seen' = <<>> /\ locked' = FALSE /\ lockedPos' = None /\ missing' = None

\* _handle_no_detection: a lock outlives the hand, for a time.
NotDetected ==
  LET elapsed == IF missing = None THEN 0 ELSE missing + 1 IN
  IF locked /\ elapsed <= Keep
  THEN /\ missing' = elapsed
       /\ Publish(TRUE, lockedPos)
       /\ UNCHANGED <<seen, locked, lockedPos>>
  ELSE ResetState /\ Publish(FALSE, None)

\* Mutant: a fist or a palm turned down is taken for an occluded hand.
WrongPostureIsOcclusion == NotDetected

\* Only a lock is given up: the frames counted so far stay.
WrongPosture ==
  /\ IF locked THEN ResetState ELSE UNCHANGED <<seen, locked, lockedPos, missing>>
  /\ Publish(FALSE, None)

\* Mutant: the first StableFrames positions.
RecentFirst(p) == IF Len(seen) < StableFrames THEN Append(seen, p) ELSE seen

\* The last StableFrames positions.
Recent(p) == IF Len(seen) < StableFrames THEN Append(seen, p) ELSE Append(Tail(seen), p)

SpotsOf(frames) == {frames[i] : i \in DOMAIN frames}

\* The spread of the history may pass for small when a few frames lie apart;
\* the lock is their mean.
Between(frames) ==
  {q \in Spots : \E a, b \in SpotsOf(frames) : a <= q /\ q <= b}

NotYet(frames) ==
  /\ Len(frames) < StableFrames \/ \E p, q \in SpotsOf(frames) : p # q
  /\ seen' = frames /\ missing' = None
  /\ UNCHANGED <<locked, lockedPos>>
  /\ Publish(FALSE, None)

Lock(frames) ==
  /\ Len(frames) = StableFrames /\ ~locked
  /\ locked' = TRUE
  /\ lockedPos' \in Between(frames)
  /\ seen' = frames /\ missing' = None
  /\ Publish(TRUE, lockedPos')

\* The hand is where it was locked, has moved a little, or far.
StillLocked(frames, p) ==
  /\ Len(frames) = StableFrames /\ locked
  /\ CASE Away(p, lockedPos) = 0 ->
            /\ seen' = frames /\ missing' = None
            /\ Publish(TRUE, lockedPos)
            /\ UNCHANGED <<locked, lockedPos>>
       [] Away(p, lockedPos) = 1 ->
            /\ seen' = <<>> /\ missing' = None
            /\ locked' = FALSE /\ lockedPos' = p
            /\ Publish(FALSE, None)
       [] OTHER -> ResetState /\ Publish(FALSE, None)

OpenPalm(p) ==
  LET frames == Recent(p) IN NotYet(frames) \/ Lock(frames) \/ StillLocked(frames, p)

\* _on_hands_msg, with a depth image there.  In the history a wrong posture is as
\* good as long ago.  A lock does not follow a palm whose positions are too far
\* apart (NotYet, hand_node.py:318-327).
Frame ==
  /\ CASE hand = None -> NotDetected
       [] hand = Wrong  -> WrongPosture
       [] OTHER         -> OpenPalm(hand)
  /\ unseen' = CASE hand \in Spots -> 0
                 [] hand = None /\ unseen <= Keep + 1 -> unseen + 1
                 [] OTHER -> Keep + 2
  /\ astray' = IF hand \in Spots THEN locked /\ locked' /\ hand # lockedPos' ELSE astray
  /\ UNCHANGED <<hand, task>>

----------------------------------------------------------------------------
(* tool_action_server: the hand-over *)

Goto(place) == phase' = place

\* The finally block; what happens to the announcement is ToolActionServer's.
Ends == phase' = "idle" /\ target' = None /\ taken' = FALSE

\* The goal, with the tool in the gripper already or not.
Begin(test) ==
  /\ phase = "idle" /\ ~latch
  /\ Goto("wait")
  /\ target' = None /\ taken' = test
  /\ UNCHANGED <<hand, node, view, latch, late>>

\* Between two steps of the sequence; also a cancellation and whatever fails.
Abort ==
  /\ phase # "idle"
  /\ Ends
  /\ UNCHANGED <<hand, node, view, latch, late>>

\* Here and below, the latch is looked at before the next step begins, and may
\* be set right after.
WaitHandPose ==
  /\ phase = "wait"
  /\ taskPose # None /\ taskReady /\ ~latch
  /\ Goto(IF taken THEN "approach" ELSE "fetch")
  /\ UNCHANGED <<hand, node, view, target, taken, latch, late>>

\* The tool is fetched, in many steps.
Fetch ==
  /\ phase = "fetch"
  /\ ~latch
  /\ taken' = TRUE
  /\ Goto("approach")
  /\ UNCHANGED <<hand, node, view, target, latch, late>>

Command == late' = IF latch THEN late + 1 ELSE late

\* _move_hand_rz_approach: the hand is read, and the arm sent to above it.
Approach ==
  /\ phase = "approach"
  /\ taskPose # None /\ taskReady
  /\ target' = taskPose
  /\ Goto("above")
  /\ Command
  /\ UNCHANGED <<hand, node, view, taken, latch>>

\* The wait for the end of that motion ends at an E-stop too, and its result
\* is not looked at.
Descend ==
  /\ phase = "above"
  /\ taskReady
  /\ Goto("down")
  /\ Command
  /\ UNCHANGED <<hand, node, view, target, taken, latch>>

\* Mutant: the latch is not looked at between the steps.
DescendedUnlatched ==
  /\ phase = "down"
  /\ Goto("place")
  /\ UNCHANGED <<hand, node, view, target, taken, latch, late>>

Descended ==
  /\ phase = "down" /\ ~latch
  /\ Goto("place")
  /\ UNCHANGED <<hand, node, view, target, taken, latch, late>>

\* _move_hand_place.
Place ==
  /\ phase = "place"
  /\ Goto("let_go")
  /\ Command
  /\ UNCHANGED <<hand, node, view, target, taken, latch>>

LetGo ==
  /\ phase = "let_go" /\ ~latch
  /\ taken' = FALSE
  /\ Goto("home")
  /\ UNCHANGED <<hand, node, view, target, latch, late>>

\* The test ends without it.
Home ==
  /\ phase = "home" /\ ~latch
  /\ Ends
  /\ UNCHANGED <<hand, node, view, latch, late>>

EStop ==
  /\ latch' = TRUE /\ late' = 0
  /\ UNCHANGED <<hand, node, view, phase, target, taken>>

EStopReset ==
  /\ latch' = FALSE /\ late' = 0 /\ taken' = FALSE
  /\ UNCHANGED <<hand, node, view, phase, target>>

----------------------------------------------------------------------------
Next ==
  \/ HandMoves \/ Frame
  \/ \E test \in BOOLEAN : Begin(test)
  \/ Abort \/ WaitHandPose \/ Fetch \/ Approach \/ Descend \/ Descended
  \/ Place \/ LetGo \/ Home
  \/ EStop \/ EStopReset

\* The camera keeps sending frames.
Spec == Init /\ [][Next]_vars /\ WF_vars(Frame)

----------------------------------------------------------------------------
\* What hand_node calls ready has a lock, it has seen an open palm no longer ago
\* than the time it allows for an occlusion, with no other posture since, and a
\* palm in view lies where the lock is, however postures, losses and movements
\* follow each other (hand_node.py:514).  A palm out of view may have been seen
\* last elsewhere: a lock it left behind with unsteady positions stays, and is
\* offered once the palm is gone.
ReadyIsFresh == ready => locked /\ unseen <= Keep + 1 /\ (astray => unseen > 0)

\* After an E-stop the hand-over commands no third motion: the approach, which
\* had passed the check, may go on to its second half (tool_action_server.py:872).
TwoMotionsAfterEStop == late <= 2

\* A hand held still is offered the tool in the end, and for good: the lock does
\* not keep being renewed (hand_node.py:352).
StillHandIsOffered == \A p \in Spots : <>[](hand = p) => <>[]ready
=============================================================================

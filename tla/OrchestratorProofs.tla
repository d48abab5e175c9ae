------------------------- MODULE OrchestratorProofs -------------------------
(***************************************************************************)
(* Theorems about Orchestrator, for any tools, any number of intents       *)
(* handled at once and any bound on the goals and the pending logs.        *)
(*                                                                         *)
(* The refinement rests on what _bt_lock means (LockMeans): the lock is    *)
(* held by exactly the thread that is inside the tree, so the one command  *)
(* of CommandCycle is the command of the lock holder; and on RobotRuns: a  *)
(* goal that is refused is never the one the robot is at.                  *)
(***************************************************************************)
EXTENDS Orchestrator, TLAPS

\* A thread is inside the tree exactly while it holds _bt_lock, it got there
\* with an intent the tree knows, and it asks the gate about a real tool.
LockMeans ==
  \A th \in Threads :
    /\ work[th].at \in InTree <=> btLock = th
    /\ work[th].at \in InTree => work[th].intent \in Intents
    /\ work[th].at = "asking" => work[th].asked \in Tools

\* The goal that holds the robot's lock was started and is not over.
RobotRuns == robot > 0 => goals[robot].state \in {"running", "picked", "placed"}

IInv == TypeOK /\ LockMeans /\ RobotRuns /\ MovingLampIsTrue

\* The record of a thread at rest is a record of a thread.
LEMMA RestIsWork == Rest \in Work
  BY LimitsAssumption DEF Rest, Work, Steps, Spoken, NamedTools

\* A thread's step keeps the types.
LEMMA ThreadTypes ==
  ASSUME TypeOK, LockMeans, NEW th \in Threads, ThreadStep(th)
  PROVE  TypeOK'
<1> USE RestIsWork DEF TypeOK, server, lamp, store
<1>1. CASE WriteBlackboard(th)
  BY <1>1 DEF WriteBlackboard, Work, Steps, NamedTools
<1>2. CASE SkipTick(th)
  BY <1>2 DEF SkipTick
<1>3. CASE StartTick(th)
  BY <1>3 DEF StartTick, Work, Steps, InTree, NamedTools
<1>4. CASE AskGate(th)
  BY <1>4 DEF AskGate, Work, Steps, InTree
<1>5. CASE GateGrants(th)
  <2>1. cached' \in [Tools -> Copies]
    BY <1>5 DEF GateGrants, Kept, Copies
  <2>2. work' \in [Threads -> Work]
    BY <1>5 DEF GateGrants, Work, Steps, InTree, NamedTools
  <2>3. QED
    BY <1>5, <2>1, <2>2 DEF GateGrants
<1>5a. CASE GateGrantsFromCache(th)
  <2>1. work' \in [Threads -> Work]
    BY <1>5a DEF GateGrantsFromCache, Work, Steps, InTree, NamedTools
  <2>2. QED
    BY <1>5a, <2>1 DEF GateGrantsFromCache
<1>6. CASE SendGoal(th)
  <2> DEFINE goal == [intent |-> work[th].intent, state |-> "sent"]
  <2>1. goal \in Goal
    BY <1>6 DEF SendGoal, LockMeans, InTree, Goal, Work
  <2>2. goals' = Append(goals, goal)
    BY <1>6 DEF SendGoal
  <2> HIDE DEF goal
  <2>3. goals' \in Seq(Goal) /\ Len(goals') = Len(goals) + 1
    BY <2>1, <2>2
  <2>4. Len(goals') \in 0..MaxGoals
    BY <1>6, <2>3, LimitsAssumption DEF SendGoal
  <2>5. work' \in [Threads -> Work]
    <3>1. work' = [work EXCEPT ![th].at = "waiting", ![th].goal = Len(goals')]
      BY <1>6 DEF SendGoal
    <3>2. "waiting" \in Steps
      BY DEF Steps, InTree
    <3> QED
      BY <2>4, <3>1, <3>2 DEF Work
  <2>6. QED
    BY <1>6, <2>3, <2>4, <2>5 DEF SendGoal
<1>7. CASE GiveUp(th)
  BY <1>7 DEF GiveUp, EndTick
<1>8. CASE Conclude(th)
  BY <1>8 DEF Conclude, EndTick
<1>9. QED
  BY <1>1, <1>2, <1>3, <1>4, <1>5, <1>5a, <1>6, <1>7, <1>8 DEF ThreadStep

\* An update thread and the store's side of it keep the types.
LEMMA UpdateTypes ==
  ASSUME TypeOK, NEW u \in updates, UpdateStep(u)
  PROVE  TypeOK'
<1> USE DEF TypeOK, node, server, lamp, store
<1>1. updates' \subseteq Update
  BY DEF UpdateStep, StoreUpdates, StoreRefuses, UpdateFails, Become, Gone, Update
<1>2. status' \in [Tools -> Statuses]
  BY DEF UpdateStep, StoreUpdates, StoreRefuses, UpdateFails, Legal, Allowed, Statuses
<1>3. plc' \in {"idle", "moving", "error"}
  BY DEF UpdateStep, StoreUpdates, StoreRefuses, UpdateFails
<1>4. UNCHANGED <<node, server, unsaid, cached>>
  BY DEF UpdateStep, StoreUpdates, StoreRefuses, UpdateFails
<1>5. QED
  BY <1>1, <1>2, <1>3, <1>4

\* A new state of one goal leaves the goals as many, and as asked, as they were.
LEMMA NewStateOfGoal ==
  ASSUME goals \in Seq(Goal), NEW g \in DOMAIN goals,
         NEW s \in {"sent", "running", "picked", "placed", "succeeded", "failed"},
         goals' = [goals EXCEPT ![g].state = s]
  PROVE  /\ goals' \in Seq(Goal)
         /\ Len(goals') = Len(goals)
         /\ DOMAIN goals' = DOMAIN goals
         /\ \A h \in DOMAIN goals : goals'[h].intent = goals[h].intent
         /\ goals'[g].state = s
         /\ \A h \in DOMAIN goals \ {g} : goals'[h] = goals[h]
<1>1. goals \in [1..Len(goals) -> Goal] /\ Len(goals) \in Nat
  OBVIOUS
<1>2. [goals[g] EXCEPT !.state = s] \in Goal
  BY <1>1 DEF Goal
<1>3. goals' \in [1..Len(goals) -> Goal]
  BY <1>1, <1>2
<1>4. goals' \in Seq(Goal) /\ Len(goals') = Len(goals)
  BY <1>1, <1>3
<1>5. \A h \in DOMAIN goals : goals'[h].intent = goals[h].intent
  BY <1>1 DEF Goal
<1>6. goals'[g].state = s /\ \A h \in DOMAIN goals \ {g} : goals'[h] = goals[h]
  BY <1>1 DEF Goal
<1>7. QED
  BY <1>1, <1>3, <1>4, <1>5, <1>6

\* Which goal a step of the server changes, and to what.
LEMMA ServerSetsState ==
  ASSUME TypeOK, ServerStep
  PROVE  /\ goals' \in Seq(Goal)
         /\ Len(goals') = Len(goals)
         /\ DOMAIN goals' = DOMAIN goals
         /\ \A h \in DOMAIN goals : goals'[h].intent = goals[h].intent
<1>1. CASE UNCHANGED goals
  BY <1>1 DEF TypeOK
<1>2. CASE ~UNCHANGED goals
  <2>1. \E g \in DOMAIN goals,
           s \in {"sent", "running", "picked", "placed", "succeeded", "failed"} :
          goals' = [goals EXCEPT ![g].state = s]
    <3>1. robot > 0 => robot \in DOMAIN goals
      BY LimitsAssumption DEF TypeOK, Elsewhere
    <3>2. CASE \E g \in DOMAIN goals : StartGoal(g) \/ RefuseGoal(g)
      BY <3>2 DEF StartGoal, RefuseGoal
    <3>3. ASSUME NEW phase \in Phases, Marker(phase)
          PROVE  goals' = [goals EXCEPT ![robot].state =
                             IF phase = "pick" THEN "picked" ELSE "placed"]
                 /\ robot > 0
      BY <3>3 DEF Marker
    <3>4. CASE EndGoal
      BY <3>1, <3>4 DEF EndGoal
    <3>5. QED
      BY <1>2, <3>1, <3>2, <3>3, <3>4
      DEF ServerStep, OtherMotion, OtherMotionEnds, Interrupt
  <2>2. QED
    BY <2>1, NewStateOfGoal DEF TypeOK
<1>3. QED
  BY <1>1, <1>2

\* The action server's steps keep the types.
LEMMA ServerTypes ==
  ASSUME TypeOK, ServerStep
  PROVE  TypeOK'
<1> USE DEF TypeOK, node, lamp, store
<1>1. goals' \in Seq(Goal) /\ Len(goals') = Len(goals)
  BY ServerSetsState
<1>2. ASSUME NEW g \in DOMAIN goals, StartGoal(g) \/ RefuseGoal(g)
      PROVE  TypeOK'
  <2>1. robot' \in {Elsewhere} \cup (0..Len(goals))
    BY <1>2 DEF StartGoal, RefuseGoal
  <2>2. plc' \in {"idle", "moving", "error"} /\ unsaid' \in BOOLEAN
    BY <1>2 DEF StartGoal, RefuseGoal
  <2>3. statusMsg' \in {"none", "moving", "still"}
    BY <1>2 DEF StartGoal, RefuseGoal
  <2>4. UNCHANGED <<node, updates, feedback, store>>
    BY <1>2 DEF StartGoal, RefuseGoal
  <2>5. QED
    BY <1>1, <2>1, <2>2, <2>3, <2>4
<1>3. ASSUME NEW phase \in Phases, Marker(phase)
      PROVE  TypeOK'
  <2>1. robot \in 1..MaxGoals
    BY <1>3, LimitsAssumption DEF Marker, Elsewhere
  <2>2. feedback' \subseteq (1..MaxGoals) \X Phases
    BY <1>3, <2>1 DEF Marker
  <2>3. QED
    BY <1>1, <1>3, <2>2 DEF Marker
<1>4. CASE EndGoal
  <2>1. plc' \in {"idle", "moving", "error"} /\ unsaid' \in BOOLEAN
    BY <1>4 DEF EndGoal, Says, SaysNothing
  <2>2. robot' \in {Elsewhere} \cup (0..Len(goals))
    BY <1>4 DEF EndGoal
  <2>3. statusMsg' = "still" /\ UNCHANGED <<node, updates, feedback, store>>
    BY <1>4 DEF EndGoal
  <2>4. QED
    BY <1>1, <2>1, <2>2, <2>3
<1>4a. CASE OtherMotion \/ OtherMotionEnds
  <2>1. plc' \in {"idle", "moving", "error"} /\ unsaid' \in BOOLEAN
    BY <1>4a DEF OtherMotion, OtherMotionEnds, Says, SaysNothing
  <2>2. robot' \in {Elsewhere} \cup (0..Len(goals))
    BY <1>4a DEF OtherMotion, OtherMotionEnds
  <2>3. statusMsg' \in {"none", "moving", "still"}
    BY <1>4a DEF OtherMotion, OtherMotionEnds
  <2>4. UNCHANGED <<node, updates, goals, feedback, store>>
    BY <1>4a DEF OtherMotion, OtherMotionEnds
  <2>5. QED
    BY <2>1, <2>2, <2>3, <2>4
<1>5. ASSUME NEW shown \in {"idle", "error"}, Interrupt(shown)
      PROVE  TypeOK'
  BY <1>5 DEF Interrupt
<1>6. QED
  BY <1>2, <1>3, <1>4, <1>4a, <1>5 DEF ServerStep

\* A thread's step keeps the meaning of the lock: it enters the tree only by
\* taking the lock and leaves it only by releasing it.
LEMMA ThreadKeepsLock ==
  ASSUME TypeOK, LockMeans, NEW th \in Threads, ThreadStep(th)
  PROVE  LockMeans'
<1> USE NamesAssumption DEF TypeOK, LockMeans, InTree
<1>1. CASE WriteBlackboard(th)
  BY <1>1 DEF WriteBlackboard
<1>2. CASE SkipTick(th)
  BY <1>2 DEF SkipTick, Rest
<1>3. CASE StartTick(th)
  BY <1>3 DEF StartTick
<1>4. CASE AskGate(th)
  BY <1>4 DEF AskGate, NamedTools
<1>5. CASE GateGrants(th)
  BY <1>5 DEF GateGrants
<1>5a. CASE GateGrantsFromCache(th)
  BY <1>5a DEF GateGrantsFromCache
<1>6. CASE SendGoal(th)
  BY <1>6 DEF SendGoal
<1>7. CASE GiveUp(th)
  BY <1>7 DEF GiveUp, EndTick, Rest
<1>8. CASE Conclude(th)
  BY <1>8 DEF Conclude, EndTick, Rest
<1>9. QED
  BY <1>1, <1>2, <1>3, <1>4, <1>5, <1>5a, <1>6, <1>7, <1>8 DEF ThreadStep

\* A new goal is added behind the others and leaves them as they are.
LEMMA NewGoalIsLast ==
  ASSUME goals \in Seq(Goal), NEW goal, goals' = Append(goals, goal)
  PROVE  /\ DOMAIN goals' = DOMAIN goals \cup {Len(goals) + 1}
         /\ goals'[Len(goals) + 1] = goal
         /\ \A g \in DOMAIN goals : goals'[g] = goals[g]
  OBVIOUS

\* A thread never touches the goal the robot is at.
LEMMA ThreadKeepsRobot ==
  ASSUME TypeOK, RobotRuns, NEW th \in Threads, ThreadStep(th)
  PROVE  RobotRuns'
<1> USE DEF RobotRuns, server, lamp, store
<1>1. CASE SendGoal(th)
  <2>1. robot > 0 => robot \in DOMAIN goals
    BY LimitsAssumption DEF TypeOK, Elsewhere
  <2>2. robot' = robot
    BY <1>1 DEF SendGoal
  <2>3. robot > 0 => goals'[robot] = goals[robot]
    BY <1>1, <2>1, NewGoalIsLast DEF SendGoal, TypeOK
  <2>4. QED
    BY <2>2, <2>3
<1>2. CASE UNCHANGED <<goals, robot>>
  BY <1>2
<1>3. QED
  BY <1>1, <1>2 DEF ThreadStep, WriteBlackboard, SkipTick, StartTick, AskGate,
                    GateGrants, GateGrantsFromCache, GiveUp, Conclude, EndTick

\* The server starts a goal only on a free robot, and one it refuses is not the
\* one the robot is at.
LEMMA ServerKeepsRobot ==
  ASSUME TypeOK, RobotRuns, ServerStep
  PROVE  RobotRuns'
<1> USE DEF RobotRuns, TypeOK
<1>1. robot > 0 => robot \in DOMAIN goals
  BY LimitsAssumption DEF Elsewhere
<1>2. ASSUME NEW g \in DOMAIN goals, StartGoal(g) \/ RefuseGoal(g)
      PROVE  RobotRuns'
  <2>1. CASE StartGoal(g)
    <3>1. goals'[g].state = "running"
      BY <2>1, NewStateOfGoal DEF StartGoal
    <3>2. QED
      BY <2>1, <3>1 DEF StartGoal
  <2>2. CASE RefuseGoal(g)
    <3>1. robot > 0 => robot # g
      BY <2>2 DEF RefuseGoal
    <3>2. robot > 0 => goals'[robot] = goals[robot]
      BY <1>1, <2>2, <3>1, NewStateOfGoal DEF RefuseGoal
    <3>3. QED
      BY <2>2, <3>2 DEF RefuseGoal
  <2>3. QED
    BY <1>2, <2>1, <2>2
<1>3. ASSUME NEW phase \in Phases, Marker(phase)
      PROVE  RobotRuns'
  BY <1>1, <1>3 DEF Marker
<1>4. CASE EndGoal \/ OtherMotion \/ OtherMotionEnds
  BY <1>4 DEF EndGoal, OtherMotion, OtherMotionEnds, Elsewhere
<1>5. ASSUME NEW shown \in {"idle", "error"}, Interrupt(shown)
      PROVE  RobotRuns'
  BY <1>5 DEF Interrupt
<1>6. QED
  BY <1>2, <1>3, <1>4, <1>5 DEF ServerStep

\* The inductive invariant.
THEOREM InvariantHolds == Spec => []IInv
<1>1. ASSUME Init
      PROVE  IInv
  <2>1. TypeOK
    <3>1. goals \in Seq(Goal) /\ Len(goals) = 0 /\ work \in [Threads -> Work]
      BY <1>1, RestIsWork DEF Init
    <3>2. board \in [intent : Spoken, tool : NamedTools]
      BY <1>1 DEF Init, Spoken, NamedTools
    <3>3. /\ pendingLogs \in 0..MaxS7Logs
          /\ robot \in {Elsewhere} \cup (0..Len(goals))
          /\ Len(goals) <= MaxGoals
      BY <1>1, <3>1, LimitsAssumption DEF Init
    <3>4. /\ isMoving \in BOOLEAN
          /\ activeTool \in NamedTools
          /\ btLock \in Threads \cup {NoThread}
          /\ plc \in {"idle", "moving", "error"} /\ unsaid \in BOOLEAN
          /\ statusMsg \in {"none", "moving", "still"}
          /\ status \in [Tools -> Statuses] /\ cached \in [Tools -> Copies]
      BY <1>1 DEF Init, NamedTools, Statuses, Copies
    <3>5. updates \subseteq Update /\ feedback \subseteq (1..MaxGoals) \X Phases
      BY <1>1 DEF Init
    <3>6. QED
      BY <3>1, <3>2, <3>3, <3>4, <3>5 DEF TypeOK
  <2>2. LockMeans
    BY <1>1, NamesAssumption DEF Init, LockMeans, Rest, InTree
  <2>3. MovingLampIsTrue /\ RobotRuns
    BY <1>1 DEF Init, MovingLampIsTrue, RobotRuns
  <2>4. QED
    BY <2>1, <2>2, <2>3 DEF IInv
<1>2. IInv /\ [Next]_vars => IInv'
  <2> SUFFICES ASSUME IInv, [Next]_vars PROVE IInv'
    OBVIOUS
  <2> USE DEF IInv, lamp, store
  <2>1. ASSUME NEW th \in Threads, ThreadStep(th)
        PROVE  IInv'
    <3>1. MovingLampIsTrue'
      <4> USE DEF MovingLampIsTrue, server
      <4>1. CASE StartTick(th)
        BY <2>1, <4>1, NamesAssumption DEF StartTick
      <4>2. CASE GiveUp(th) \/ Conclude(th)
        BY <4>2 DEF GiveUp, Conclude, EndTick
      <4>3. CASE UNCHANGED <<lamp, btLock, robot>>
        BY <4>3
      <4>4. QED
        BY <2>1, <4>1, <4>2, <4>3 DEF ThreadStep, WriteBlackboard, SkipTick,
                       AskGate, GateGrants, GateGrantsFromCache, SendGoal
    <3>2. QED
      BY <2>1, <3>1, ThreadTypes, ThreadKeepsLock, ThreadKeepsRobot
  <2>2. ASSUME NEW u \in updates, UpdateStep(u)
        PROVE  IInv'
    BY <2>2, UpdateTypes
    DEF UpdateStep, StoreUpdates, StoreRefuses, UpdateFails, LockMeans,
        RobotRuns, MovingLampIsTrue, node, server
  <2>3. CASE ServerStep
    <3>1. MovingLampIsTrue'
      BY <2>3 DEF ServerStep, StartGoal, RefuseGoal, Marker, EndGoal, OtherMotion,
                  OtherMotionEnds, Says, SaysNothing, Interrupt, Elsewhere,
                  MovingLampIsTrue, TypeOK, node
    <3>2. LockMeans'
      BY <2>3 DEF ServerStep, StartGoal, RefuseGoal, Marker, EndGoal, OtherMotion,
                  OtherMotionEnds, Interrupt, LockMeans, node
    <3>3. QED
      BY <2>3, <3>1, <3>2, ServerTypes, ServerKeepsRobot
  <2>4. ASSUME NEW th \in Threads, NEW intent \in Spoken, NEW tool \in NamedTools,
               OnIntent(th, intent, tool)
        PROVE  IInv'
    <3>1. TypeOK'
      BY <2>4, RestIsWork DEF OnIntent, TypeOK, Work, Steps, server
    <3>2. LockMeans' /\ RobotRuns' /\ MovingLampIsTrue'
      BY <2>4 DEF OnIntent, TypeOK, LockMeans, RobotRuns, MovingLampIsTrue, InTree,
                  Rest, server
    <3>3. QED
      BY <3>1, <3>2
  <2>5. ASSUME NEW f \in feedback, OnFeedback(f[1], f[2])
        PROVE  IInv'
    BY <2>5 DEF OnFeedback, TypeOK, Update, LockMeans, RobotRuns, MovingLampIsTrue
  <2>6. ASSUME NEW t \in Tools, NEW s \in Statuses, OthersWrite(t, s)
        PROVE  IInv'
    BY <2>6 DEF OthersWrite, TypeOK, LockMeans, RobotRuns, MovingLampIsTrue, node,
                server
  <2>6a. ASSUME NEW t \in Tools, CacheMoves(t)
         PROVE  IInv'
    BY <2>6a DEF CacheMoves, Kept, Copies, TypeOK, LockMeans, RobotRuns,
                 MovingLampIsTrue, node, server
  <2>7. CASE OnRobotStatus
    BY <2>7 DEF OnRobotStatus, TypeOK, LockMeans, RobotRuns, MovingLampIsTrue
  <2>8. CASE IgnoreIntent \/ OnLogEventDone
    <3>1. pendingLogs' \in 0..MaxS7Logs
      BY <2>8, LimitsAssumption DEF IgnoreIntent, LogS7Rejection, OnLogEventDone, TypeOK
    <3>2. QED
      BY <2>8, <3>1 DEF IgnoreIntent, OnLogEventDone, TypeOK, LockMeans, RobotRuns,
                        MovingLampIsTrue, server
  <2>9. CASE UNCHANGED vars
    BY <2>9 DEF vars, TypeOK, LockMeans, RobotRuns, MovingLampIsTrue
  <2>10. QED
    BY <2>1, <2>2, <2>3, <2>4, <2>5, <2>6, <2>6a, <2>7, <2>8, <2>9 DEF Next
<1>3. QED
  BY <1>1, <1>2, PTL DEF Spec

\* The types, whatever overlaps with what.
THEOREM TypeCorrect == Spec => []TypeOK
<1>1. IInv => TypeOK
  BY DEF IInv
<1>2. QED
  BY <1>1, InvariantHolds, PTL

\* The lamp never keeps saying "moving" once neither tree nor robot is busy,
\* unless the last motion ended without a word to it.
THEOREM MovingLampAlwaysTrue == Spec => []MovingLampIsTrue
<1>1. IInv => MovingLampIsTrue
  BY DEF IInv
<1>2. QED
  BY <1>1, InvariantHolds, PTL

\* The step of a thread is a step of the command cycle, or none.
LEMMA ThreadImplements ==
  ASSUME IInv, NEW th \in Threads, ThreadStep(th)
  PROVE  Cycle!Next \/ UNCHANGED Cycle!vars
<1> USE NamesAssumption DEF IInv, TypeOK, LockMeans, InTree, Serving, Stage, server,
                            lamp, store, Cycle!robot
<1>0. UNCHANGED goals => UNCHANGED <<Sent, Over>>
  BY DEF Sent, Over
<1>1. CASE WriteBlackboard(th) \/ SkipTick(th)
  <2>1. btLock # th
    BY <1>1 DEF WriteBlackboard, SkipTick
  <2>2. QED
    BY <1>0, <1>1, <2>1 DEF WriteBlackboard, SkipTick, Doing, Cycle!vars
<1>2. CASE StartTick(th)
  BY <1>0, <1>2 DEF StartTick, Doing, Cycle!Next, Cycle!Begin
<1>3. CASE AskGate(th)
  BY <1>0, <1>3 DEF AskGate, Doing, Cycle!vars
<1>4. CASE GateGrants(th)
  <2>1. Cycle!Refresh
    BY <1>4 DEF GateGrants, Kept, Cycle!Refresh
  <2>2. Serving = work[th].intent
    BY <1>4 DEF GateGrants
  <2>3. Required(Serving) = status[work[th].asked] /\ work[th].asked \in Tools
    BY <1>4, <2>2 DEF GateGrants
  <2>4. UNCHANGED <<status, Serving, Sent, Doing, Over>>
    BY <1>0, <1>4 DEF GateGrants, Doing
  <2>5. Stage = "asking" /\ Stage' = "granted"
    BY <1>4 DEF GateGrants
  <2>6. QED
    BY <2>1, <2>3, <2>4, <2>5 DEF Cycle!Next, Cycle!Grant
<1>5. CASE GateGrantsFromCache(th)
  <2>1. Cycle!Refresh
    BY <1>5 DEF GateGrantsFromCache, Cycle!Refresh
  <2>2. Serving = work[th].intent
    BY <1>5 DEF GateGrantsFromCache
  <2>3. Required(Serving) = cached[work[th].asked] /\ work[th].asked \in Tools
    BY <1>5, <2>2 DEF GateGrantsFromCache
  <2>4. UNCHANGED <<status, Serving, Sent, Doing, Over>>
    BY <1>0, <1>5 DEF GateGrantsFromCache, Doing
  <2>5. Stage = "asking" /\ Stage' = "granted"
    BY <1>5 DEF GateGrantsFromCache
  <2>6. QED
    BY <2>1, <2>3, <2>4, <2>5 DEF Cycle!Next, Cycle!Grant
<1>6. CASE SendGoal(th)
  <2> DEFINE goal == [intent |-> work[th].intent, state |-> "sent"]
  <2>1. goals' = Append(goals, goal) /\ goals \in Seq(Goal)
    BY <1>6 DEF SendGoal
  <2>2. btLock = th /\ goal.intent = Serving
    BY <1>6 DEF SendGoal
  <2>3. Over' = Over
    <3>1. goal.state \notin {"succeeded", "failed"}
      OBVIOUS
    <3> HIDE DEF goal, Serving
    <3>2. QED
      BY <2>1, <3>1, NewGoalIsLast DEF Over
  <2>4. Sent' = Append(Sent, Serving)
    <3> HIDE DEF goal, Serving
    <3>1. QED
      BY <2>1, <2>2 DEF Sent
  <2>5. UNCHANGED <<status, cached, Serving, Doing>>
    BY <1>6 DEF SendGoal, Doing
  <2>6. Stage = "granted" /\ Stage' = "moving"
    BY <1>6 DEF SendGoal
  <2>7. QED
    BY <2>3, <2>4, <2>5, <2>6 DEF Cycle!Next, Cycle!Dispatch
<1>7. CASE GiveUp(th) \/ Conclude(th)
  BY <1>0, <1>7 DEF GiveUp, Conclude, EndTick, Doing, Cycle!Next, Cycle!End
<1>8. QED
  BY <1>1, <1>2, <1>3, <1>4, <1>5, <1>6, <1>7 DEF ThreadStep

\* The server changes the state of a goal, never what was asked; it sets about a
\* goal on a free robot, and is done with each goal once.
LEMMA ServerImplements ==
  ASSUME IInv, ServerStep
  PROVE  Cycle!Next \/ UNCHANGED Cycle!vars
<1> USE DEF IInv
<1>1. UNCHANGED <<Serving, Stage, Sent, status, cached>>
  <2>1. UNCHANGED <<work, btLock, status, cached>>
    BY DEF ServerStep, StartGoal, RefuseGoal, Marker, EndGoal, OtherMotion,
           OtherMotionEnds, Interrupt, node, store
  <2>2. QED
    BY <2>1, ServerSetsState DEF Serving, Stage, Sent
<1>2. DOMAIN Sent = DOMAIN goals /\ DOMAIN goals' = DOMAIN goals
  BY ServerSetsState DEF Sent
<1>3. robot > 0 => robot \in DOMAIN goals
  BY LimitsAssumption DEF TypeOK, Elsewhere
<1>4. ASSUME NEW g \in DOMAIN goals, StartGoal(g)
      PROVE  Cycle!Move(g)
  <2>1. Over' = Over /\ g \notin Over
    BY <1>4 DEF StartGoal, Over, TypeOK
  <2>2. Doing = 0 /\ Doing' = g
    BY <1>4 DEF StartGoal, Doing, TypeOK
  <2>3. QED
    BY <1>1, <2>1, <2>2 DEF Cycle!Move
<1>5. ASSUME NEW g \in DOMAIN goals, RefuseGoal(g)
      PROVE  Cycle!Conclude(g)
  <2>1. Over' = Over \cup {g} /\ g \notin Over
    BY <1>5 DEF RefuseGoal, Over, TypeOK
  <2>2. robot' = robot /\ (robot > 0 => robot # g)
    BY <1>5 DEF RefuseGoal, RobotRuns
  <2>3. Doing' = Doing /\ Doing # g
    BY <2>2, <1>5 DEF Doing, TypeOK
  <2>4. QED
    BY <1>1, <2>1, <2>3 DEF Cycle!Conclude
<1>6. ASSUME NEW phase \in Phases, Marker(phase)
      PROVE  UNCHANGED Cycle!vars
  <2>1. Over' = Over /\ Doing' = Doing
    BY <1>3, <1>6 DEF Marker, Over, Doing, TypeOK
  <2>2. QED
    BY <1>1, <2>1 DEF Cycle!vars
<1>7. CASE EndGoal
  <2>1. robot \in DOMAIN goals /\ robot \notin Over
    BY <1>3, <1>7 DEF EndGoal, RobotRuns, Over
  <2>2. Over' = Over \cup {robot}
    <3>1. PICK s \in {"succeeded", "failed"} :
            goals' = [goals EXCEPT ![robot].state = s]
      BY <1>7 DEF EndGoal
    <3>2. /\ goals'[robot].state = s
          /\ \A h \in DOMAIN goals \ {robot} : goals'[h] = goals[h]
      BY <2>1, <3>1, NewStateOfGoal DEF TypeOK
    <3>3. QED
      BY <1>2, <2>1, <3>2 DEF Over
  <2>3. Doing = robot /\ Doing' = 0
    BY <1>7 DEF EndGoal, Doing
  <2>4. Cycle!Conclude(robot)
    BY <1>1, <2>1, <2>2, <2>3 DEF Cycle!Conclude
  <2>5. QED
    BY <1>2, <2>1, <2>4 DEF Cycle!Next
<1>8. CASE \/ OtherMotion \/ OtherMotionEnds
           \/ \E shown \in {"idle", "error"} : Interrupt(shown)
  <2>1. Doing' = Doing /\ Over' = Over
    BY <1>8 DEF OtherMotion, OtherMotionEnds, Interrupt, Elsewhere, Doing, Over
  <2>2. QED
    BY <1>1, <2>1 DEF Cycle!vars
<1>9. QED
  BY <1>2, <1>4, <1>5, <1>6, <1>7, <1>8 DEF ServerStep, Cycle!Next

\* Every run of the orchestrator is a run of the command cycle: one command at
\* a time, a goal only after a permission for that intent, one goal each, and a
\* robot that carries out one goal at a time and none twice.
THEOREM OrchestratorImplementsCycle == Spec => ImplementsCycle
<1>1. Init => Cycle!Init
  BY DEF Init, Cycle!Init, Serving, Stage, Sent, Doing, Over
<1>2. IInv /\ [Next]_vars => [Cycle!Next]_(Cycle!vars)
  <2> SUFFICES ASSUME IInv, [Next]_vars
               PROVE  Cycle!Next \/ UNCHANGED Cycle!vars
    OBVIOUS
  <2>1. ASSUME NEW th \in Threads, ThreadStep(th)
        PROVE  Cycle!Next \/ UNCHANGED Cycle!vars
    BY <2>1, ThreadImplements
  <2>2. CASE ServerStep
    BY <2>2, ServerImplements
  <2>3. CASE \/ \E u \in updates : UpdateStep(u)
             \/ \E t \in Tools, s \in Statuses : OthersWrite(t, s)
             \/ \E t \in Tools : CacheMoves(t)
    <3>1. UNCHANGED <<Serving, Stage, Sent, Doing, Over>>
      BY <2>3 DEF UpdateStep, StoreUpdates, StoreRefuses, UpdateFails, OthersWrite,
                  CacheMoves, Serving, Stage, Sent, Doing, Over, node, server
    <3>2. Cycle!Refresh
      BY <2>3 DEF UpdateStep, StoreUpdates, StoreRefuses, UpdateFails, OthersWrite,
                  CacheMoves, Kept, store, IInv, TypeOK, Cycle!Refresh
    <3>3. QED
      BY <3>1, <3>2 DEF Cycle!Next, Cycle!StoreChanges, Cycle!robot
  <2>4. ASSUME NEW th \in Threads, NEW intent \in Spoken, NEW tool \in NamedTools,
               OnIntent(th, intent, tool)
        PROVE  UNCHANGED Cycle!vars
    <3>1. btLock # th
      BY <2>4 DEF OnIntent, IInv, LockMeans, InTree
    <3>2. QED
      BY <2>4, <3>1 DEF OnIntent, IInv, TypeOK, Serving, Stage, Sent, Doing, Over,
                        server, store, Cycle!vars
  <2>5. CASE UNCHANGED <<work, btLock, goals, robot, status, cached>>
    BY <2>5 DEF Serving, Stage, Sent, Doing, Over, Cycle!vars
  <2>6. QED
    BY <2>1, <2>2, <2>3, <2>4, <2>5
    DEF Next, vars, server, store, OnRobotStatus, IgnoreIntent, OnLogEventDone,
        OnFeedback
<1>3. QED
  BY <1>1, <1>2, InvariantHolds, PTL DEF Spec, ImplementsCycle, Cycle!Spec
=============================================================================

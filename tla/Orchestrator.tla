---------------------------- MODULE Orchestrator ----------------------------
(***************************************************************************)
(* orchestrator_node.py with its behaviour tree leaves, between the voice  *)
(* nodes (intents), the DB service (gate and status updates) and the       *)
(* motion action server (goals, feedback, is_moving).                      *)
(*                                                                         *)
(* The node runs on a MultiThreadedExecutor with a reentrant callback      *)
(* group: any callback may run beside any other.  Every accepted intent    *)
(* writes the ONE active tool and starts a thread of its own for the tree; *)
(* a non-blocking lock lets a single tree run, but the losing thread has   *)
(* already written the active tool, which the winner's leaves and the      *)
(* feedback callbacks read again later.  Every status update is one more   *)
(* thread.  Every wait on another node has a timeout, and giving up does   *)
(* not take back what was asked.  The robot moves for others too: home, the *)
(* toolbox services and the hand-over take the same action lock.           *)
(***************************************************************************)
EXTENDS Integers, Sequences, FiniteSets

CONSTANTS
  Tools,      \* tool ids
  NoTool,     \* the empty tool_id, as in an intent that names no tool
  Threads,    \* intents handled at the same time (bounds the model)
  NoThread,
  MaxGoals,   \* bound on the goals ever sent
  MaxS7Logs   \* _MAX_PENDING_S7_LOGS

ASSUME NamesAssumption  == NoTool \notin Tools /\ NoThread \notin Threads
ASSUME LimitsAssumption == MaxGoals \in Nat /\ MaxS7Logs \in Nat

VARIABLES
  isMoving,    \* _is_moving: the last /robot/status received
  activeTool,  \* _active_tool_id
  board,       \* the blackboard: active_tool_id and intent
  work,        \* per thread: an _on_intent call and the _tick_bt it starts
  btLock,      \* _bt_lock
  pendingLogs, \* _pending_s7_logs
  plc,         \* /plc/system_state: the last value published (depth 1)
  unsaid,      \* history: the last motion ended without a word to the lamp
  updates,     \* the running _dispatch_update_status threads
  goals,       \* the goals sent, in order
  robot,       \* the goal that holds the server's action lock; 0: nobody
  feedback,    \* markers published and not yet handled: <<goal, phase>>
  statusMsg,   \* /robot/status: the value not yet received (depth 1)
  status,      \* the store: tools.current_status
  cached       \* the DB service's copies of rows, where they can grant anything

lamp   == <<plc, unsaid>>
node   == <<isMoving, activeTool, board, work, btLock, pendingLogs>>
server == <<goals, robot, feedback, statusMsg>>
store  == <<status, cached>>
vars   == <<isMoving, activeTool, board, work, btLock, pendingLogs, plc, unsaid,
            updates, goals, robot, feedback, statusMsg, status, cached>>

----------------------------------------------------------------------------
Statuses == {"in_slot", "out", "staged", "lost"}   \* "missing" and "fod_alert"
Intents  == {"fetch", "return"}
Spoken   == Intents \cup {"other"}   \* "cancel" and "unknown"
Phases   == {"pick", "place"}
NamedTools == Tools \cup {NoTool}
Elsewhere  == -1   \* the lock is held by a motion this node did not ask for
Copies     == {"in_slot", "staged", "none"}

\* The steps of one intent: its callback up to the start of the thread, then
\* the tree.  A thread whose step is in InTree holds _bt_lock.
InTree == {"ticked", "asking", "granted", "waiting"}
Steps  == {"free", "named", "spawned"} \cup InTree

Work  == [at : Steps, intent : Spoken, tool : NamedTools,
          asked : NamedTools, goal : 0..MaxGoals]
Rest  == [at |-> "free", intent |-> "other", tool |-> NoTool,
          asked |-> NoTool, goal |-> 0]
Goal  == [intent : Intents,
          state : {"sent", "running", "picked", "placed", "succeeded", "failed"}]
Update == [goal : 1..MaxGoals, phase : Phases, tool : NamedTools,
           state : {"called", "failing"}]

TypeOK ==
  /\ isMoving \in BOOLEAN
  /\ activeTool \in NamedTools
  /\ board \in [intent : Spoken, tool : NamedTools]
  /\ work \in [Threads -> Work]
  /\ btLock \in Threads \cup {NoThread}
  /\ pendingLogs \in 0..MaxS7Logs
  /\ plc \in {"idle", "moving", "error"} /\ unsaid \in BOOLEAN
  /\ updates \subseteq Update
  /\ goals \in Seq(Goal) /\ Len(goals) <= MaxGoals
  /\ robot \in {Elsewhere} \cup (0..Len(goals))
  /\ feedback \subseteq (1..MaxGoals) \X Phases
  /\ statusMsg \in {"none", "moving", "still"}
  /\ status \in [Tools -> Statuses]
  /\ cached \in [Tools -> Copies]

Init ==
  /\ isMoving = FALSE
  /\ activeTool = NoTool
  /\ board = [intent |-> "other", tool |-> NoTool]
  /\ work = [th \in Threads |-> Rest]
  /\ btLock = NoThread
  /\ pendingLogs = 0
  /\ plc = "idle" /\ unsaid = FALSE
  /\ updates = {}
  /\ goals = <<>> /\ robot = 0 /\ feedback = {}
  /\ statusMsg = "none"
  /\ status = [t \in Tools |-> "in_slot"]
  /\ cached = [t \in Tools |-> "none"]

----------------------------------------------------------------------------
(* Callbacks: robot status and intents *)

OnRobotStatus ==
  /\ statusMsg # "none"
  /\ isMoving' = (statusMsg = "moving")
  /\ statusMsg' = "none"
  /\ UNCHANGED <<activeTool, board, work, btLock, pendingLogs, lamp,
                 updates, goals, robot, feedback, store>>

\* Mutant: the cap is not looked at.
LogS7Uncapped == pendingLogs' = pendingLogs + 1

\* _log_s7_rejection: at the cap, or with the service down, nothing is sent.
LogS7Rejection ==
  \/ pendingLogs < MaxS7Logs /\ pendingLogs' = pendingLogs + 1
  \/ UNCHANGED pendingLogs

IgnoreIntent ==
  /\ isMoving
  /\ LogS7Rejection
  /\ UNCHANGED <<isMoving, activeTool, board, work, btLock, lamp, updates,
                 server, store>>

\* _on_log_event_done: answered, or failed.  A call nobody answers never comes
\* back, and keeps its place under the cap.
OnLogEventDone ==
  /\ pendingLogs > 0
  /\ pendingLogs' = pendingLogs - 1
  /\ UNCHANGED <<isMoving, activeTool, board, work, btLock, lamp, updates,
                 server, store>>

\* The robot is believed still: the intent's tool becomes the active tool,
\* whatever is in progress.
OnIntent(th, intent, tool) ==
  /\ work[th].at = "free"
  /\ ~isMoving
  /\ activeTool' = tool
  /\ work' = [work EXCEPT ![th] = [Rest EXCEPT !.at = "named",
                                               !.intent = intent, !.tool = tool]]
  /\ UNCHANGED <<isMoving, board, btLock, pendingLogs, lamp, updates,
                 server, store>>

\* ... then the blackboard, and the tree's thread is started.
WriteBlackboard(th) ==
  /\ work[th].at = "named"
  /\ board' = [intent |-> work[th].intent, tool |-> work[th].tool]
  /\ work' = [work EXCEPT ![th].at = "spawned", ![th].tool = NoTool]
  /\ UNCHANGED <<isMoving, activeTool, btLock, pendingLogs, lamp, updates,
                 server, store>>

----------------------------------------------------------------------------
(* The tree: _tick_bt, CheckFeasibility, RunAction *)

\* The lock is taken; an intent the tree does not know holds it for a moment.
LockBusy(th) ==
  \/ btLock # NoThread
  \/ \E o \in Threads \ {th} :
       work[o].at = "spawned" /\ work[o].intent \notin Intents

\* "BT already running - intent ignored", or an unknown intent.
SkipTick(th) ==
  /\ work[th].at = "spawned"
  /\ work[th].intent \notin Intents \/ LockBusy(th)
  /\ work' = [work EXCEPT ![th] = Rest]
  /\ UNCHANGED <<isMoving, activeTool, board, btLock, pendingLogs, lamp,
                 updates, server, store>>

StartTick(th) ==
  /\ work[th].at = "spawned"
  /\ work[th].intent \in Intents
  /\ btLock = NoThread
  /\ btLock' = th
  /\ plc' = "moving" /\ unsaid' = FALSE
  /\ work' = [work EXCEPT ![th].at = "ticked"]
  /\ UNCHANGED <<isMoving, activeTool, board, pendingLogs, updates, server,
                 store>>

\* CheckFeasibility.update: the tool is read from the blackboard, the intent
\* is the subtree's own (intent_override).
AskGate(th) ==
  /\ work[th].at = "ticked"
  /\ board.tool # NoTool
  /\ work' = [work EXCEPT ![th].at = "asking", ![th].asked = board.tool]
  /\ UNCHANGED <<isMoving, activeTool, board, btLock, pendingLogs, lamp,
                 updates, server, store>>

\* _check_status: the only status each intent may start from.
Required(intent) == IF intent = "fetch" THEN "in_slot" ELSE "staged"

\* What a read of the row leaves in the DB service's cache.
Kept(s) == IF s \in Copies THEN s ELSE "none"

\* The store reads the row, keeps a copy and allows the intent.
GateGrants(th) ==
  /\ work[th].at = "asking"
  /\ status[work[th].asked] = Required(work[th].intent)
  /\ cached' = [cached EXCEPT ![work[th].asked] = Kept(status[work[th].asked])]
  /\ work' = [work EXCEPT ![th].at = "granted", ![th].asked = NoTool]
  /\ UNCHANGED <<isMoving, activeTool, board, btLock, pendingLogs, lamp,
                 updates, server, status>>

\* The row cannot be read: the copy decides, whatever the row says by now.
GateGrantsFromCache(th) ==
  /\ work[th].at = "asking"
  /\ cached[work[th].asked] = Required(work[th].intent)
  /\ work' = [work EXCEPT ![th].at = "granted", ![th].asked = NoTool]
  /\ UNCHANGED <<isMoving, activeTool, board, btLock, pendingLogs, lamp,
                 updates, server, store>>

\* Mutant: a goal nobody answered is sent again on the old permission.
SendGoalAgain(th) ==
  /\ work[th].at \in {"granted", "waiting"}
  /\ Len(goals) < MaxGoals
  /\ goals' = Append(goals, [intent |-> work[th].intent, state |-> "sent"])
  /\ work' = [work EXCEPT ![th].at = "waiting", ![th].goal = Len(goals')]
  /\ UNCHANGED <<isMoving, activeTool, board, btLock, pendingLogs, lamp,
                 updates, robot, feedback, statusMsg, store>>

\* RunAction.update.  The tool it names, read from the blackboard again, is left
\* out: the server's fetch and return are the same sequence for every tool.
SendGoal(th) ==
  /\ work[th].at = "granted"
  /\ Len(goals) < MaxGoals
  /\ goals' = Append(goals, [intent |-> work[th].intent, state |-> "sent"])
  /\ work' = [work EXCEPT ![th].at = "waiting", ![th].goal = Len(goals')]
  /\ UNCHANGED <<isMoving, activeTool, board, btLock, pendingLogs, lamp,
                 updates, robot, feedback, statusMsg, store>>

\* Mutant: only a success reaches the lamp.
EndTickQuietly(th, shown) ==
  /\ plc' = IF shown = "idle" THEN shown ELSE plc
  /\ btLock' = NoThread
  /\ work' = [work EXCEPT ![th] = Rest]
  /\ UNCHANGED <<isMoving, activeTool, board, pendingLogs, unsaid, updates,
                 server, store>>

\* The end of _tick_bt: the outcome on the lamp, and the lock released.
EndTick(th, shown) ==
  /\ plc' = shown
  /\ btLock' = NoThread
  /\ work' = [work EXCEPT ![th] = Rest]
  /\ UNCHANGED <<isMoving, activeTool, board, pendingLogs, unsaid, updates,
                 server, store>>

\* Mutant: RunAction waits for its result without a timeout.
WaitForEver(th) == work[th].at \in InTree \ {"waiting"} /\ EndTick(th, "error")

\* No tool, a service or server that is not there, a refusal, an exception,
\* or 5 s (the gate) and 180 s (the goal) without an answer.  The goal is not
\* cancelled.
GiveUp(th) == work[th].at \in InTree /\ EndTick(th, "error")

Conclude(th) ==
  /\ work[th].at = "waiting"
  /\ \/ goals[work[th].goal].state = "succeeded" /\ EndTick(th, "idle")
     \/ goals[work[th].goal].state = "failed"    /\ EndTick(th, "error")

----------------------------------------------------------------------------
(* Feedback callbacks and _dispatch_update_status *)

\* _on_fetch_pick .. _on_return_place: the tool is the one active NOW.
OnFeedback(g, phase) ==
  /\ <<g, phase>> \in feedback
  /\ feedback' = feedback \ {<<g, phase>>}
  /\ updates' = updates \cup
       {[goal |-> g, phase |-> phase, tool |-> activeTool, state |-> "called"]}
  /\ UNCHANGED <<isMoving, activeTool, board, work, btLock, pendingLogs,
                 lamp, goals, robot, statusMsg, store>>

EventOf(u) == goals[u.goal].intent

NewStatus(u) == CASE u.phase = "pick" -> "out"
                  [] u.phase = "place" /\ EventOf(u) = "fetch" -> "staged"
                  [] u.phase = "place" /\ EventOf(u) = "return" -> "in_slot"

\* The edges of _ALLOWED_TRANSITIONS, by the event that records them.
Allowed == { <<"in_slot", "out",     "fetch">>,
             <<"out",     "staged",  "fetch">>,
             <<"staged",  "out",     "return">>,
             <<"out",     "in_slot", "return">> }

Legal(u) == /\ u.tool # NoTool
            /\ <<status[u.tool], NewStatus(u), EventOf(u)>> \in Allowed

Become(u, s) == updates' = (updates \ {u}) \cup {[u EXCEPT !.state = s]}
Gone(u)      == updates' = updates \ {u}

\* The DB service carries out a request; the answer may still come too late
\* for the thread that waits for it.
StoreUpdates(u) ==
  /\ u.state = "called"
  /\ Legal(u)
  /\ status' = [status EXCEPT ![u.tool] = NewStatus(u)]
  /\ Gone(u) \/ Become(u, "failing")
  /\ UNCHANGED <<node, lamp, server, cached>>

StoreRefuses(u) ==
  /\ u.state = "called"
  /\ ~Legal(u)
  /\ Become(u, "failing")
  /\ UNCHANGED <<node, lamp, server, store>>

\* A thread gives up: refused, not answered in 5 s, or (called) the service is
\* not ready; the lamp is all that remembers it.  A request that was under way
\* may still reach the store, which is then one of OthersWrite.
UpdateFails(u) ==
  /\ plc' = "error"
  /\ Gone(u)
  /\ UNCHANGED <<unsaid, node, server, store>>

\* A reconciliation, an escalation of the FOD monitor, or a late update.
OthersWrite(t, s) ==
  /\ status' = [status EXCEPT ![t] = s]
  /\ UNCHANGED <<node, lamp, updates, server, cached>>

\* The copy of a row is renewed by a read for another request or for a refusal,
\* or is gone: too old, or the service was restarted.
CacheMoves(t) ==
  /\ \E copy \in {Kept(status[t]), "none"} : cached' = [cached EXCEPT ![t] = copy]
  /\ UNCHANGED <<node, lamp, updates, server, status>>

----------------------------------------------------------------------------
(* tool_action_server.py: what the orchestrator sees of it *)

\* The action lock is free: is_moving goes up and the sequence starts.
StartGoal(g) ==
  /\ goals[g].state = "sent"
  /\ robot = 0
  /\ robot' = g
  /\ goals' = [goals EXCEPT ![g].state = "running"]
  /\ statusMsg' = "moving"
  /\ plc' = "moving" /\ unsaid' = FALSE
  /\ UNCHANGED <<node, updates, feedback, store>>

\* E-stop latch, or another motion holds the lock ("other motion in progress").
RefuseGoal(g) ==
  /\ goals[g].state = "sent"
  /\ goals' = [goals EXCEPT ![g].state = "failed"]
  /\ UNCHANGED <<node, lamp, updates, robot, feedback, statusMsg, store>>

\* A step with a marker was executed.
Marker(phase) ==
  /\ robot > 0
  /\ goals[robot].state = (IF phase = "pick" THEN "running" ELSE "picked")
  /\ goals' = [goals EXCEPT ![robot].state =
                 IF phase = "pick" THEN "picked" ELSE "placed"]
  /\ feedback' = feedback \cup {<<robot, phase>>}
  /\ UNCHANGED <<node, lamp, updates, robot, statusMsg, store>>

\* What the end of a motion publishes: its outcome, or nothing when it was
\* cancelled or home raised an exception.
Says(outcome) == plc' = outcome /\ unsaid' = FALSE
SaysNothing   == unsaid' = TRUE /\ UNCHANGED plc

\* The sequence is over (a failure or a cancellation may come after any step):
\* the lamp, is_moving, the lock and the result.
EndGoal ==
  /\ robot > 0
  /\ \/ /\ goals[robot].state = "placed"
        /\ goals' = [goals EXCEPT ![robot].state = "succeeded"]
        /\ Says("idle")
     \/ /\ goals' = [goals EXCEPT ![robot].state = "failed"]
        /\ Says("error") \/ SaysNothing
  /\ statusMsg' = "still"
  /\ robot' = 0
  /\ UNCHANGED <<node, updates, feedback, store>>

\* Home, a toolbox service or a hand-over takes the action lock.
OtherMotion ==
  /\ robot = 0
  /\ robot' = Elsewhere
  /\ statusMsg' = "moving"
  /\ plc' = "moving" /\ unsaid' = FALSE
  /\ UNCHANGED <<node, updates, goals, feedback, store>>

\* ... and gives it back.  A hand-over that kept the tool announces no end.
OtherMotionEnds ==
  /\ robot = Elsewhere
  /\ robot' = 0
  /\ \/ statusMsg' = "still" /\ (Says("idle") \/ Says("error") \/ SaysNothing)
     \/ Says("error") /\ UNCHANGED statusMsg
  /\ UNCHANGED <<node, updates, goals, feedback, store>>

\* An E-stop or its reset announces a still robot, whatever is running
\* ("e_stop", which this node never publishes, counts as "error"); the reset
\* that finds a tool in the gripper does not.
Interrupt(shown) ==
  /\ plc' = shown
  /\ statusMsg' = "still" \/ (shown = "error" /\ UNCHANGED statusMsg)
  /\ UNCHANGED <<unsaid, node, updates, goals, robot, feedback, store>>

----------------------------------------------------------------------------
ThreadStep(th) ==
  \/ WriteBlackboard(th)
  \/ SkipTick(th) \/ StartTick(th)
  \/ AskGate(th) \/ GateGrants(th) \/ GateGrantsFromCache(th)
  \/ SendGoal(th)
  \/ GiveUp(th) \/ Conclude(th)

UpdateStep(u) == StoreUpdates(u) \/ StoreRefuses(u) \/ UpdateFails(u)

ServerStep ==
  \/ \E g \in DOMAIN goals : StartGoal(g) \/ RefuseGoal(g)
  \/ \E phase \in Phases : Marker(phase)
  \/ EndGoal
  \/ OtherMotion \/ OtherMotionEnds
  \/ \E shown \in {"idle", "error"} : Interrupt(shown)

Next ==
  \/ OnRobotStatus \/ IgnoreIntent \/ OnLogEventDone
  \/ \E th \in Threads, intent \in Spoken, tool \in NamedTools :
       OnIntent(th, intent, tool)
  \/ \E th \in Threads : ThreadStep(th)
  \/ \E f \in feedback : OnFeedback(f[1], f[2])
  \/ \E u \in updates : UpdateStep(u)
  \/ \E t \in Tools, s \in Statuses : OthersWrite(t, s)
  \/ \E t \in Tools : CacheMoves(t)
  \/ ServerStep

Spec == Init /\ [][Next]_vars

\* Every wait of a thread has a timeout and the scheduler runs every thread.
\* Nothing is assumed of the voice nodes, the DB service or the action server.
Fairness == \A th \in Threads : WF_vars(ThreadStep(th))

FairSpec == Spec /\ Fairness

----------------------------------------------------------------------------
(* Properties *)

\* What the lock holder is doing, in the terms of CommandCycle.
Serving == IF btLock = NoThread THEN "none" ELSE work[btLock].intent
Stage == IF btLock = NoThread THEN "free"
         ELSE CASE work[btLock].at \in {"ticked", "asking"} -> "asking"
                [] work[btLock].at = "granted" -> "granted"
                [] OTHER -> "moving"
Sent == [g \in DOMAIN goals |-> goals[g].intent]

\* What the robot is doing for this node, and the goals it will not touch again.
Doing == IF robot > 0 THEN robot ELSE 0
Over  == {g \in DOMAIN goals : goals[g].state \in {"succeeded", "failed"}}

\* One command at a time, and a goal only after the store allowed that intent
\* in the same cycle, from the row or from a copy that was the row once, and
\* once per permission: however many intents arrive meanwhile and whatever they
\* write on the blackboard.  The robot carries out one goal at a time and none
\* twice, although the tree gives up on a goal after 180 s without taking it
\* back and sends the next one.
Cycle == INSTANCE CommandCycle
           WITH serving <- Serving, stage <- Stage, sent <- Sent,
                doing <- Doing, over <- Over
ImplementsCycle == Cycle!Spec

\* The lamp says "moving" only while a tree runs or the robot does, unless the
\* last motion ended without a word to the lamp, as a cancelled one does and a
\* home that raised (against docs/architecture.md:324): apart from these no
\* path through the tree, the server or an update leaves it on.
MovingLampIsTrue ==
  plc = "moving" => btLock # NoThread \/ robot # 0 \/ unsaid

\* A server that never answers, a gate that is down, a lost result: every
\* intent that was taken is served, refused or given up in the end.
EveryIntentEnds ==
  \A th \in Threads : work[th].at # "free" ~> work[th].at = "free"
=============================================================================

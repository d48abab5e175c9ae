# A verification of the voice-commanded tool delivery arm

TLA+ models of the robot's control software, the TLC runs that check them and
the TLAPS proofs about them. The source is cited as `src/<path>`, where `src/`
is the root of the repository; `PROJECT.json` maps every definition to the lines
it translates.

    tlc -workers 2 -config MCToolStore.cfg MCToolStore     # a run
    tlapm ToolStoreProofs.tla                              # the proofs of a module

## 1. The system

An operator speaks ("give me the 10 mm wrench"); speech is turned into an
*intent*, the intent is admitted by the database (the *DB gate*), a behaviour
tree sends a *goal* to the motion server, which runs a fixed sequence of arm
motions and grips; the pick and place feedback of that sequence moves the tool
in the database; a signal tower driven by a PLC shows what the robot is doing.

| component | source | state it keeps | operations |
|---|---|---|---|
| tool store | `db_core/repository.py`, the two `ros2_ws/src/db` nodes | SQLite rows `tools`, append-only `tool_events` and `system_events`; a status cache in each process | gate check, status update, rejection log, escalation sweep, drawer gate and update |
| orchestrator | `ros2_ws/src/orchestrator` | `_is_moving`, `_active_tool_id`, the blackboard, `_bt_lock`, `_pending_s7_logs` | intents, the tree and its leaves, feedback, status updates on threads |
| tool action server | `motion/tool_action_server.py`, `unit_actions/toolbox_motion.py` | `_estop_latch`, `_action_lock`, `_grip_taken`, the last `is_moving` and lamp sent | four actions, three services, E-stop and its reset |
| PLC node | `plc/plc_node.py` on `plc_core/modbus_client.py` | two latches, pulse timers, heartbeat count, the serial connection; the PLC keeps coils and lamps | system states, button topics, timers, reconnection |
| DB client | `db_core/client.py` | the connection, the last status read of each tool, one age for all of them | connect, status, gate and updates, the id of the event written |
| bring-up | `motion/home_on_start.py` | whether the E-stop was heard | registration and activation of TCP and tool, the move home of a virtual robot |
| sequence runner | `motion/toolbox_seq_runner.py`, `unit_actions/toolbox_motion.py` | a process per sequence: E-stop flag, the last `is_moving` heard, the last poses seen; the `drawers` table | the checks S-7 and S-2, a sequence, its failure, the way home |
| visual servoing | `unit_actions/visual_servoing.py` | phase, count of stable frames, start time | one tick of a control loop |
| gripper node | `motion/gripper_node.py` | one socket, its online flag, three "seen" flags, a command number, a mailbox of acknowledgements; the server program it deploys into the controller | start, watchdog, two reconnections, commands with acknowledgements |
| hand-over | `vision/hand_node.py`, `motion/tool_action_server.py` | last positions, the lock, `/hand/ready`; the pose the motion server last received | a frame; wait, approach, descend, place |
| voice | `ros2_ws/src/voice` | the S-7 gate, a queue of texts, a busy flag, feasibility requests under way; the recorder's buffer | recording, transcription, wake word, classification, publication |
| top view | `ros2_ws/src/vision`: `yolo_node`, `pose_node`, `tracker_node`, `context_builder` | tracks per class with hits and misses; the last poses, the scene | detections of a frame, their positions, tracks, the slots taken and the one offered |
| markers | `marker_scan_node`, `gripper_marker_scan_node` | poses smoothed over frames, their age | markers of a frame, the pose in the robot's frame |
| panels | `ros2_ws/src/demo/demo/ui_server.py`, `ros2_ws/src/dashboard` | connected pages, an event queue, the last tool status | pages come and go, events, polling, sends |

How they interact: the voice nodes, the panels and a command
line publish `/voice/intent`; the
orchestrator calls `/db/CheckToolFeasibility`, `/db/UpdateToolStatus` and
`/db/LogEvent`, and is a client of the motion server's actions; the motion
server publishes `/robot/status` (`is_moving`, which closes the microphone and
makes the orchestrator ignore intents: rule S-7); orchestrator, motion server
and UI all publish `/plc/system_state`, a topic with no owner; the FOD monitor
and the DB service are separate processes on one SQLite file, which the panels
read too. The sequence runner is a second way to the arm: it publishes
`/robot/status` itself and writes the drawers through `DBClient`.

What is hard, and what makes each part correct:

* **store**: several processes write one file, each with instants and statuses
  read before it had the write lock; transactions fail, processes die. The
  audit log must stay a complete account of the snapshot, and the escalation
  (`out`/`staged` to `missing` to `fod_alert`) neither early nor forgotten.
* **orchestrator**: a reentrant callback group, one thread per intent and per
  update, one shared `_active_tool_id`, timeouts that take nothing back. One
  command at a time; a goal only after a grant, and one per grant; every intent ends;
  the moving lamp stays on only where a motion ends without publishing anything.
* **tool action server**: E-stop and reset never take the lock and fall between
  any two statements of a sequence; every step can fail, time out, raise. Motion
  stays announced, a stop is prompt, a success leaves the gripper empty, the
  lock comes back.
* **PLC node**: a press is ON now and OFF by a timer; states, latches, lost
  connections and restarts fall in between. Every press is released, a latch
  freezes the outputs, the latched fault stays visible.
* **sequence runner**: any step may fail, half done, or time out and go on; the
  E-stop is a callback beside the running sequence; a second process may be
  started at any time. The drawers table must be the drawers', a stop prompt,
  the arm at rest when the gripper opens on the way home, and a run that leaves the
  robot out of order must have said so in its log.
* **gripper node**: three kinds of threads replace one socket, each old reader's
  end clears the flag of whatever connection is current, and the controller's
  program serves one connection and queues others. A link believed to be up is
  read, the link comes back, and an acknowledgement is about the command that
  waits for it.
* **hand-over**: a hand moves, closes, is occluded; the robot acts on a pose sent
  earlier. What is called ready was locked and a palm seen a moment ago, a hand held
  still is offered, a stop leaves no third motion.
* **voice**: recording, transcription, the language model and the store each take
  time in which the robot starts to move and other utterances come. S-7, a grant
  for every spoken request, and no text that blocks the next for ever.
* **top view**: detections come and go, lack depth, and name one tool twice;
  messages are lost between four nodes. A tool shown was seen a moment ago, a
  slot with a tool in it is not offered as empty, a tool that lies still is one
  track.
* **panels**: a page may leave, or its connection raise, between any two sends;
  the ROS thread and the web server's loop share the list of clients. No open
  page is forgotten, no closed one is kept, every open page comes to show what
  the database says.
* **conversions** (configuration of the PLC, words of the gripper's registers,
  text of an utterance, values for the tables): a value that is accepted means
  the same on the other side, at the limits of its width too.

`PROJECT.json` lists the hazards, each at its line with the properties that
would catch it.

## 2. Modules

| module | is |
|---|---|
| `ToolLifecycle` | abstract: what the store promises about tools and the reasons of their statuses |
| `ToolStore` | the repository, the DB service (Clients) and the FOD monitor |
| `CommandCycle` | abstract: one command at a time, one goal per grant |
| `Orchestrator` | the node, its leaves, and its environment: store, motion server, others |
| `ToolActionServer` | requests, sequences, E-stop and reset |
| `PlcNode` | the node, its timers and latches, Modbus failures; the ladder is external |
| `ToolboxMotion` | the sequences of steps, as operators on sequences |
| `VisualServoing` | the servo's phase machine, as an operator on its state |
| `SequenceRunner` | the runner's processes, the drawers table, arm, gripper, drawers, tool |
| `GripperLink` | the TCP session of the gripper node with the program on the controller |
| `GripperCommands` | the commands over that session, their numbers and answers |
| `HandOver` | hand_node and the hand-over sequences that read its topics |
| `Voice` | microphone node, intent node, feasibility requests, the orchestrator's door |
| `ToolTracking` | the top-view chain from a detection to the slot that is offered |
| `OperatorPanels` | the two web servers and their pages |
| `MarkerScan` | functions: what the two marker nodes make of the markers of a frame |
| `PlcConfig` | functions: which configurations the PLC node accepts, and its look-ups |
| `VoiceText` | functions: recorder, filter, wake word, catalogue, classification, evaluation |
| `DbClient` | functions: connection and cache of the client, the values and files accepted |
| `GripperWords` | functions: frames, registers, answers, queue of direct commands, conversions |
| `HomeOnStart` | functions: the calls made at the start, for what each service answers |
| `MC...` | symmetry and values for TLC, and what the functions must satisfy |
| `...Proofs` | theorems about the module of the same name; `GripperProofs` is about both gripper modules, `OperatorSideProofs` about `Voice` and `OperatorPanels`, `VisionProofs` about `ToolTracking` and `HandOver` |

`ToolLifecycle` and `CommandCycle` are implemented by `ToolStore` and
`Orchestrator` through `INSTANCE ... WITH` (`ImplementsLifecycle`,
`ImplementsCycle`). `SequenceRunner` extends `ToolboxMotion` and
`VisualServoing`: it executes those very sequences and ticks. `ToolActionServer`
keeps only the order of the grips of each sequence (`Plan`); that this order is
the one of `ToolboxMotion` is an assumption of `MCToolActionServer`
(`PlansAreTheSequences`) that TLC evaluates in the run. `GripperCommands` has an
abstract connection, `GripperLink` is about the real one. `Orchestrator` has its
own, looser copy of the store (`OthersWrite` may write any status) and of the
motion server (a goal may fail or be refused at any point), `Voice` one of the
store's gate (any answer, in any order, or none).

### ToolStore

`status`, `updated`, `lastEvent` are the columns of `tools`; `log[t]` the rows
of `tool_events` of one tool; `alertRows` the alerts that got their row in
`system_events`. A committed transaction is one step (SQLite serialises
`BEGIN IMMEDIATE`). What the code does around it is not: `BeginUpdate` takes the
instant and `CommitUpdate` re-reads the row; `CheckFeasibility`/`LogRejection`
read the status and `RecordRejection` appends it later; `CommitSweep` is
followed by one `ReportAlert` per alert. `Abandon`, `AbandonSweep` and
`ReportAlert(FALSE)` are transactions that raise; `RestartClient` and
`RestartMonitor` are processes that die. `committedAt` is history: the code has
only the instant read before. A process is single threaded, so its `op` is one.

### Orchestrator

`work[th]` is one `_on_intent` call and the `_tick_bt` it starts: `named`
(`_active_tool_id` written), `spawned` (blackboard written, thread started),
then inside the tree `ticked`, `asking`, `granted`, `waiting`. The actions
between two of these are the code's reads and writes of shared state, so another
intent may overwrite the active tool anywhere. `GiveUp` stands for every failing
leaf, timeout and exception. `OnFeedback` and `UpdateStep` are the marker
callbacks and the threads of `_dispatch_update_status`. A request that timed out
and reaches the store later is one of `OthersWrite`. The store grants from the row
(`GateGrants`) or, when it cannot read it, from its copy (`GateGrantsFromCache`);
`cached` keeps the copies that could grant something, and `CacheMoves` renews or
drops them. The motion server also moves for others (`OtherMotion`: home, the
toolbox services, a hand-over), with the same lock, lamp and `is_moving`. A
cancelled goal and a home that raised end without a word to the lamp
(`SaysNothing`); `unsaid` is history and says that the last motion ended so. Goals
are cancelled only by other clients: the repository has no `cancel_goal` call. The
server's fetch and return run the same sequence whatever tool the goal names, so
goals have no tool. Tracked poses and scene
context are stored by the node and read by nothing, so they are left out.

### ToolActionServer

A job is one request: `accepted`, then under the lock `between` steps,
`checked` (the latch was looked at), `executing`, `ended`, `closing`,
`releasing`. `Plan(kind)` is the order of the sequence's grips, each run of
motions and waits between two of them being one `move`: the properties tell
apart only what the gripper holds. `held` is what it really holds: a grip or a
release that fails may or may not have moved it. `Start` and `Close` stand for
several statements that no other request can see apart. `disturbed`, `late` and
`heldAbort` are history variables, read by properties only.

### PlcNode

The node spins on one thread, so one callback is one step. `timers` holds the
pending one-shot tasks; all have the same delay, so they fire in order. `plc` is
the client's belief about the connection with the PLC's coils and lamps. A write
is confirmed, raises after or without reaching the PLC, or is skipped for want
of a connection. `adrift` is history: coils whose last write was not confirmed,
whose release found no connection, or that were ON when the node restarted. The
ladder (`Scan`) is taken from `plc/README.md:76-86`. `Init` is a start at which
no attempt to connect succeeded; one that connects is that start and an
immediate `Reconnect`. `EStopPollTimer` exists when `enable_estop_poll` is set,
which is not the default. Writing `plc_error` rows is left out.

### SequenceRunner, ToolboxMotion, VisualServoing

A process is `run[r]`: `waiting` (from `__init__` to the timer that calls
`_run_once`), `gate`, `announce`, `tcp`, then the steps (`between`, `checked`,
and the place of each wait: `calling`, `gripping`, `looking`, `servo`, `nudge`),
`failing`, `recording`, `ending`. The callbacks (`Hear`, `HearEStop`, `SeeTool`,
`SeeHandle`) fall between any two of these, as they do on the
`MultiThreadedExecutor`. A waypoint is the place it belongs to and its name
there. The robot is external and unreliable: a step that fails was carried out,
in part or not at all; a motion nobody waits for any more goes on
(`OrphanArrives`) until a `move_stop` (`Halt`) or its end. The operator is
assumed to start the first of several processes with the arm at home, which is
what the sequences' comments ask, and to put the robot in order after a failure
(`PutInOrder`). `disputed`, `raced`, `unstopped` are history: what the code says
it cannot vouch for. `log` is the worst line in the runners' logs since then:
"failed" (the sequence failed) or "manual" (the way home failed or, after an
E-stop, was left out). It is all a failed run leaves: the lamp is set through
`plc_core/client.py`, which writes one more line, and the event for the database
is of a type the store refuses (section 5).

### GripperLink

The server program serves one connection and ends with it; the node's end of the
TCP session is one attribute `sock` that the start (`init`), the recovery thread
(`recover`, for the watchdog's two reconnections and a changed parameter) and
the readers share. `thread[t].at` is where each of the two is: killing the old
program, deploying, connecting, waiting for the first state. `reader[c]` is the
socket that the reader started with connection `c` is blocked on, which may be a
later one. Time is reduced to three facts, all from the constants of the code: a
`recv` ends within 3 s; a wait for the state stream (sent at 5 Hz) fails only
when nothing can arrive; a connect loop is slower than the reads under way when
it began. `lastRx` says whether anything was received since the times of the last
reception were set back: without it the watchdog never calls the link stale.

### GripperCommands

`call[k]` is one `_send_cmd_and_wait_ack`: number read (`TakeNumber`), loaded
again for the increment (`LoadNumber`), stored with the waiter registered
(`Register`; nothing locks the three, so an increment may undo another's), sent,
waited for, one second of grace, answered. A command's number is unbounded in the
node and modulo `IdSpace` on the wire; an acknowledgement is kept under the wire's
number; that no thread is so long over one command that its number comes round
meanwhile is in the guard of `TakeNumber`. The server may write all frames of a
command or fail in the middle. Connections break with acknowledgements under way
and old readers may deliver them to the next.

### HandOver

`Frame` is one `_on_hand_depth` of `hand_node`: no hand, a wrong posture, or an
open palm at a spot, with the history, the lock, its renewal and its reset.
Positions are points on a line in units of `lock_update_distance_m`. `Publish`
may lose a message (best effort): `taskPose` and `taskReady` are what the motion
server has. The hand-over is its steps from the wait for a pose to the release;
`Approach` and `Descend` are the two motions of one step, with nothing but
`taskReady` looked at between them. `unseen` (frames since an open palm), `astray`
(that palm lay off a lock which stayed behind) and `late` are history.

### Voice

The microphone thread, the intent node (one callback at a time; feasibility
requests are asynchronous and have no time limit), the store, the panels, the
orchestrator's guard, and two copies of `/robot/status` on their way. The queue of
texts drops its oldest, `/voice/intent` keeps one message, whoever published it:
`PanelPublishes` are the dashboard's and the demo's buttons and `demo_trigger.py`,
which ask nobody. Check and use of the S-7 flag are two steps at both listeners,
since the status callback runs on another thread: `Transcribed` looks and
`PublishText` publishes; `TakeIntent` looks, in one of the executor's `Handlers`
threads, and `StartTree` starts the tree. `MicrophoneFails` and `ModelFails` are
exceptions that nothing catches. `mayPublish` and `mayBegin` are history: what was
past the check when the listener was told of the motion, counted down as it goes
through. What a listener was not told yet it cannot obey.

### ToolTracking, MarkerScan

`OnPoses` takes one image down the chain as far as the tracker, any of its
detections without depth left out on the way; `BuildScene` is the scene builder,
which gets the tracker's last message and may miss those before. A frame that is
lost earlier is one the model never has. Positions are whole steps along one
drawer row, and the exponential mean is rounded to them. `Associated` and `Only`
are the loop over the detections of a frame and the list comprehensions, as
recursive functions. `recent` is history, and so are the slots `held` that a
message carries: those at whose centre one and the same tool was detected, and
nowhere else, in each of the last `MinHits` frames (`Lies`). `twins` bounds the
frames with several detections of one tool. The marker nodes
keep no state that another actor changes between two frames, so they are functions
from the markers of a frame and the state kept.

### OperatorPanels

A step is what a coroutine, or a callback of the ROS thread, does between two
points where another may run. The two servers share only the database, so a
behaviour is of one of them. `page[b]` is a connection with the place where its
endpoint is and what the browser shows; `sends` the copies that the dashboard's
ROS timer handed to the loop; `caster` and `poller` the two tasks of the demo's
server. Contents are left out but for the version of the database.

### The modules of functions

`PlcConfig`, `VoiceText`, `DbClient`, `GripperWords`, `HomeOnStart` and
`MarkerScan` translate code whose steps nobody interleaves: parsing, conversion,
look-ups, the decision taken for an answer. Each is instantiated by the MC module
of the component that uses it (`MCPlcNode`, `MCVoice`, `MCToolStore`,
`MCGripperCommands`, `MCToolActionServer`, `MCToolTracking`), which states as named
`ASSUME`s what they must satisfy over bounded inputs; TLC evaluates them in the
runs `plc`, `voice`, `store`, `gripper_commands`, `motion` and `vision`. They are
facts like: every state of an accepted configuration finds its coils; what the
repository accepts the tables take; frames are read as they were sent wherever the
stream is cut; a queue of direct commands keeps the newest, in order; no request
that the language model makes up passes without a known tool; the robot moves home
last, and never after a failure.

## 3. Runs

The cap of counters is always a constant, named below. Only `vision` is checked
for deadlock: elsewhere the clock, the logs, the goals or the faults are bounded,
or a node may simply have nothing to do. Type invariants are proved (section 4)
where a module has proofs, and checked in `handover` and `vision`.

| run | instance | shows |
|---|---|---|
| `store` | 1 tool, 1 client and the monitor, `Timeout` 2, `Grace` 1, `TTL` 0, `MaxClock` 3, `MaxLog` 2, fair | `EscalationIsPaced`: no stage before its full delay; `AlertRowsAreReal`; `LogExplainsSnapshot`: the changes in the log chain, without a gap, from the first status to the row; `CachedGrantIsRecent`: a cached answer is never from a status that ended longer ago than the TTL; `ImplementsLifecycle`; `EscalationHappens`: a tool past its limit is escalated, or somebody recorded something about it |
| `orchestrator` | 1 tool, 2 intents at once, `MaxGoals` 2, `MaxS7Logs` 0, constraint `Bounded` | `MovingLampIsTrue`: no path but a motion that ends without a word leaves the moving lamp on; `ImplementsCycle`: one command at a time, one goal per grant, one goal at the robot and none twice |
| `orchestrator_live` | 1 thread, `MaxGoals` 1, `MaxS7Logs` 1, constraint `BoundedAlone`, fair | `EveryIntentEnds` |
| `motion` | 2 requests at once, fair | `AnnouncedWhileRunning`; `AtMostOneStepLate`; `SuccessMeansEmptyHanded`; `JobsEnd` |
| `plc` | 2 lamps, `StallLimit` 2, `MaxTimers` 2, fair | `EveryOnCoilIsDue`; `LatchFreezesOutputs`; `EStopComesBack` |
| `runner` | 2 processes of which one only asks, `MaxLaunches` 2, `StableFrames` 2, fair | `RecordIsTrue`: the drawers table is the drawers, or a run said otherwise; `AtMostOneCommandAfterEStop`; `GripsAtRest`; `QuietRunsLeaveOrder`: unless a log says otherwise the robot is ready and the tool in its place; `NeverDragsADrawer`; `RunsEnd` |
| `gripper_link` | 4 socket objects, `Attempts` 2, `MaxFaults` 2, fair | `OnlineIsRead`; `LinkComesBack`: online for good, or the one jam of section 5 |
| `gripper_commands` | 2 callers, `IdSpace` 2, `MaxCommands` 3, `MaxBreaks` 1 | `SuccessMeansWritten`; `WaitersAreWaiting` |
| `handover` | 3 spots, `StableFrames` 2, `Keep` 2, fair | `TypeOK`; `ReadyIsFresh`: what is offered is locked, a palm was seen within an occlusion's time, and one in view lies at the lock; `TwoMotionsAfterEStop`; `StillHandIsOffered` |
| `voice` | 1 tool, `MaxUtterances` 2, `RawDepth` 1, `Handlers` 2, fair | `DeafInMotion`: a listener told of the motion lets through only what was past its check; `SpokenIsGranted`: a spoken request on the topic was granted; `TextsAreServed` |
| `vision` | 1 tool at 3 spots, `MaxDets` 2, `MaxTwins` 1, `MinHits` 3, `MaxMisses` 2, `MaxDist` 10, `Cols` 2, `HalfSlot` 6 | `TracksTypeOK`; `ShownWasSeen`: a tool shown was seen within the frames that the misses allow; `TakenSlotNotOffered`; `StillToolIsShownOnce` |
| `panels` | 2 pages, `MaxChanges` 1, `MaxFailures` 1, `MaxQueue` 1, `MaxSends` 2, fair | `OpenPagesAreServed`: an open page is a client; `GhostsGo`: a page that is gone is forgotten; `PageCatchesUp`: a page that stays open comes to show the database |

Why the bounds are enough for what they show. Tools are independent in the store
except in a sweep, which treats each alike. One client and the monitor are two
writers, the fewest that can interleave a stale read with the other's commit; two
clients add nothing but a second process of the same kind, and the theorems are
for any number of them. A clock of 3 lets a tool pass both delays, with an update
stamped before and committed after a sweep. Two intents are the winner and the
loser of `_bt_lock`; two goals are one that the tree gave up after its 180 s and
the one sent while it may still run. `Bounded` lets two things go on at once,
among the intents in work and the markers between robot and store, and one once
the second goal is sent; no tool is lost and every intent names one, since neither
adds a step of its own. The theorems have none of these bounds. Two requests are
the holder of `_action_lock` and its competitor; requests are bounded in number at
a time, not in all. Two pending timers are a press and the release or the reset it
overlaps with; `StallLimit` is 5 with the default configuration, and only the
boundary matters.

`runner`: two processes one after the other are a run and the one that finds what
it left, the drawer open or closed and its record; every kind of sequence is
launched, each layer with some of its variants, since the layers differ in their
names only. The constraint `OneRunsOneAsks` keeps the second process, which may
start and end at any time beside the first, before the S-7 check: what two
processes past it do to one robot is exempt from most of these properties
(`raced`); `AtMostOneCommandAfterEStop`, which is not exempt, is proved for any
number of processes past the check. `gripper_link`: four socket objects are the
current one, the two an old reader may hold, and the one being made; a socket is
free again when nothing refers to it. Two faults let one fall into the recovery
from the other. `gripper_commands`: `IdSpace` 2 makes the numbers wrap between the
first and the third command, and one break separates a command from its
acknowledgement; `Streams` is empty in the run, since a thread that does not wait
only takes numbers, and arbitrary in the theorems. `handover`: spots 0, 1 and 2
are near, moved and far; a history of 2 is one of equal positions or a mixed one,
and a longer one is the theorems'. `voice`: two utterances are one at the store
and one behind it, or two requests whose answers overtake each other; a queue of
one drops. Two handlers are an intent past the check and one that comes meanwhile.
`vision`: a step is 5 mm, so `MaxDist` is the 5 cm of `config/vision.yaml` and a
slot 6 cm; the three spots are the centres of both slots, too far apart to be one
track, and a place near their border that a track of either may take; `MinHits` is
the configured one, and 2 misses instead of 5 are enough to be shown unseen and
then deleted. `MaxTwins` 1 lets one frame have two detections of the tool, which
makes a second track. `panels`: two pages are the one being sent to and the one
that comes or leaves meanwhile; a change, a failed query and a raise in one
behaviour are what its properties have to survive.

Fairness. `store`: the clock runs, the monitor's periodic timer fires, and a
sweep that is tried again and again commits in the end (strong fairness of
`CommitSweep`: WAL mode and the busy timeout make it wait rather than fail);
nothing is assumed of the clients. `orchestrator_live`: each step of a thread;
every wait in it (`wait_for_service`, `wait_for_server`, `done.wait`) has a
timeout, which is `GiveUp`, and no answer of another node is assumed. `motion`:
each step of a request; every wait of a step has a timeout (`_wait_future`) and
the executor has a thread for it. `plc`: the watchdog's periodic timer only.
`runner`: each process works (every wait has a timeout and ends in the failure
of the step), and strong fairness of `ServoTimesOut`: the loop leaves for the
small motions of `nudge` and comes back, and each tick compares the clock.
`gripper_link`: the program, the readers, the two connecting threads and the
watchdog run; the faults are not fair. `handover`: frames arrive. `voice`: the
three executors run, a recording ends by its time limit, a store that is up
answers; strong fairness of `HandleAnswer` because the intent node's one
executor, busy in between, serves its callbacks in turn. `panels`: the loop and the
timers run and a send ends, by success or by raising (the web server's own time
limits); the gripper's state, sent at 10 Hz, is the event that ends up in the queue;
that a page comes or leaves, and that the database changes, is not assumed.

Every property of a passing run has a mutant in `PROJECT.json`: an operator of
the module, marked `Mutant`, that changes one definition the way a plausible bug
would and makes TLC find the property violated.

## 4. Proofs

For every value of the constants; the assumptions are the named `ASSUME`s of the
modules (names are distinct, limits and times are natural numbers, each state has
a coil that is not the reset coil), which TLC evaluates in the runs. Two of
`ToolTracking` deserve a look. `HitsAssumption` asks for `min_hits` above 1
(`config/vision.yaml:33` says 3): the code confirms in the branch of an update
only, so a track is never confirmed by its first detection. `SettlesAssumption`
says that the mean of `min_hits` detections at one place, begun within the match
distance, is less than half a slot off; with 3 hits, 5 cm and slots of 6 cm it is.
Every invariant and action property that a run checks is proved.

* `ToolStoreProofs`. `LogExplainsSnapshot`, `EscalationIsPaced` speak of
  positions of a log. The proofs go in three layers: what appending a rejection or
  a change does to a log (`AppendRejected`, `AppendChange`), that a step treats a
  tool in one of three ways (`StepOnTool`), and an invariant per tool
  (`StoreIsAccounted`) that adds where the newest change and the row's instant
  agree, without which neither part is inductive. `CachedGrantsAreRecent` needs
  that an entry was true when it was loaded; `StoreImplementsLifecycle` that the
  newest change determines the cause.
* `OrchestratorProofs`. `IInv` is the types, `MovingLampIsTrue`, `LockMeans` and
  `RobotRuns`. `LockMeans`: the lock holder is exactly the thread inside the tree;
  without it the lamp may be turned off for another tree, and the abstract command
  would have no thread. `RobotRuns`: the goal the robot is at was started and is not
  over, so a refused one is another. `OrchestratorImplementsCycle` is the step
  simulation under them.
* `ToolActionServerProofs`. `IInv` adds to the properties the discipline of the
  lock, what a late step means, where a request is in its plan, that
  `_grip_taken` belongs to the request that holds the lock, and that a plan past
  its last grip has released (`PlanFacts` about the sequences themselves).
* `PlcNodeProofs`. `IInv` is the types, `CountBelowTimeout` and
  `EveryOnCoilIsDue` itself; `WriteFacts` says once what a write may do to the
  coils, `DueFacts` what a timer that leaves the queue takes with it.
  `LatchesFreeze` is an action property from the same invariant.
* `SequenceRunnerProofs`. `IInv` has five parts: `RunOK` and `FlagsOK` (types),
  `Spent` (a process that has sent its one late command is not about to send
  another), `Alone` (unless
  `raced`, one process at most is past the checks) and `Rest` (where a process
  stands says whether a motion may be under way). `Spent` gives
  `OneLateCommandAtMost`; `GripperMovesAtRest` needs the last two, since with two
  processes the motion under way may be the other's.
  The other three theorems look into the sequences. `Shape` says what each is
  (proved from `ToolboxMotion`), and `OnCourse` follows a process through it: at
  each step, what the gripper holds and where the arm is, unless two processes
  raced. With it (`CourseInv`) a motion with a handle in the gripper is that
  drawer's (`NoDrawerIsDragged`); with what is known of the tool and of the way
  home (`OrderInv`) a run whose log does not say that the way home failed leaves the
  robot ready, and one without a failure the tool in its place
  (`OrderAfterQuietRuns`); and with a case for each place of the one process that
  works on a drawer (`LineOK` in `TableInv`) the table is true of every drawer that
  nobody disputes (`TheRecordIsTrue`).
* `GripperProofs`. Connection: `LinkTypeOK` and `OnlineIsRead` are inductive
  together: only a connection that starts its reader sets the flag, and every
  reader that ends clears it. The types include the bounds of the backlog and of
  the attempts. Commands: the mailbox is exact because the entries are the waiting
  callers' (`EntriesWait`) and every waiting caller is found unless its number was
  read twice (`WaitersFound`); for that a busy thread's command is the one its
  number was read for (`Numbered`), and no two threads share one (`Apart`).
  `DoneIsDone` (a success was written to the gripper) adds `Told`: an
  acknowledgement carries the low part of its command's number and tells the truth
  about that command, and no number given lies a whole round ahead of the counter
  or of a busy caller (`NoRoundAhead`), so the low part names one command.
* `OperatorSideProofs`. A listener that was told lets through only what was past
  its check because its flag agrees with the arm when no status message is under
  way to it (`Links`), so nothing passes the check any more and what is left to go
  through is exactly what was counted (`Counts`); a spoken request on the topic
  was granted because every answer "feasible" under way was (`FeasibleIsGranted`).
  The pages (`PanelsInv`): an open page stays a client because whoever a failed
  send puts on the list of the dead has left (`DeadHaveLeft`), and nobody on a
  list is a page that comes again before it was taken off (`Known`).
* `VisionProofs`, hand-over: `IInv` is the types, `CountsAgree` (the node counts
  the frames without a hand from the first one, `unseen` those without an open palm;
  while the lock holds it is ahead by one at most), `ReadyIsLocked` (a palm in view
  is where the lock is), and `LateByPhase` (how many motions may have followed an
  E-stop, by how far the hand-over has come).
* `VisionProofs`, top view: the tracks of a class are a recursion over the
  detections of a frame, so the proof starts with induction. The library's
  induction theorems take the formula as a parameter and cannot be used; but the
  finite sets are well founded under inclusion (`FiniteSetTheorems`), from which a
  set of numbers up to n has a least element, a set with 0 and every successor is
  all of `0..n`, and what is defined step by step exists (`Least`, `Induction`,
  `Recursion`). Then: what a list comprehension selects (`OnlySelects`), what one
  detection, a frame and an ageing do (`AssociateIs`, `AssociatedKeeps`,
  `AdvanceIs`). `TrackerInv` has two ideas. `WasSeen`: a track was seen near where
  it is as many frames ago as it has misses. `Settles`: for a tool that lay at one
  place for k frames one track is the nearest, has k hits and is within `Off[k]`,
  and all others have k misses; `AdvanceSingle` is the step, in which a second
  detection at that place finds the same track again. `SceneInv` carries it into
  message and scene.

Three times a proof that failed showed the model wrong, and the model was mended
after the source: two guards of a `CASE` in the runner's grasp overlapped where
the code has an `if` and its `elif`; `TakeNumber` let a number come round to a
thread still busy with it; and `Held` counted a slot in which one tool was
replaced by another from frame to frame, which the tracker, a list per class,
takes for two tools that were hardly seen.

Out of this prover's reach, and only model-checked: everything under fairness
(`EscalationHappens`, `EveryIntentEnds`, `JobsEnd`, `EStopComesBack`, `RunsEnd`,
`LinkComesBack`, `StillHandIsOffered`, `TextsAreServed`, `GhostsGo`,
`PageCatchesUp`) and facts that need `ENABLED`. What the modules of functions
compute is checked over bounded inputs only. No module declares a RECURSIVE
operator; `GripperWords` uses `Bitwise`, and no module with a theorem reaches it.

## 5. Where code and documentation disagree

Noted while modelling, readable in the code; no run is spent on them.

* The reset lets a sequence go on that was inside a step
  (`motion/tool_action_server.py:1092`), against `demo/README.md:291`.
* A rejection repeats a status read before the write lock
  (`db_core/repository.py:562`): the last event may then say another status than
  the row, against `docs/db-schema.md:35` and `:129`.
* The tree asks the gate about one tool and sends the goal for another when an
  intent arrives in between (`orchestrator/bt_nodes/run_action.py:49`), against
  `demo/README.md:246-247`.
* Any request after a hand-over that kept the tool announces a still robot
  (`tool_action_server.py:1064`), against `:575`.
* Two system states within one pulse leave two lamps held (`plc/plc_node.py:522`),
  against `plc/README.md:131`.
* `docs/db-schema.md:32` calls `last_updated` the time of the last change of
  status; an `error` event moves it too (`repository.py:696`) and so restarts the
  FOD clock.
* `fod_monitor_node.py:62-63` says the critical row is in the transaction of the
  alert; it is written after the commit, and its failure is only logged
  (`repository.py:389-413`).
* `config/fod.yaml:33` says a new fetch is refused until an alert is acknowledged;
  the gate looks at the requested tool only.
* `orchestrator_node.py:173` calls an intent ignored that has already changed the
  tool whose pick and place are recorded (`:158`, `:213`); `blackboard.py:28` says
  the active tool is reset after a command, which nothing does.
* A lamp "error" set by a failed status update is overwritten by the tree's
  "idle"; S-7 log slots whose answer is lost are never given back.
* `tool_action_server.py:1095` means to keep the error lamp after a reset with a
  tool in the gripper; `:578` has cleared the flag it asks. A reset in the middle
  of a step announces a still robot (`docs/interfaces.md:65`), a cancelled goal
  (`:383`) and a home that raised (`:991`) leave "moving" on
  (`docs/architecture.md:324`), and lamps of the stopped sequence replace the
  E-stop's (`docs/architecture.md:329`).
* `_wait_motion_complete` is called and its result dropped (893, 926, 962);
  `_log_event_async` sends an empty `tool_id`, which the store refuses; the
  second hand check documented at `toolbox_motion.py:611-618` is not in the code.
* PLC: a press scheduled before a latch still lights its lamp after it; the
  "all off" timer publishes idle under a latched E-stop until the next watchdog
  timer; a release publishes idle over a latched watchdog and nothing brings that
  back; with the default periods a lost connection latches the watchdog before
  the reconnect timer can fire, so that timer hardly ever reconnects.
* Runner: the S-7 check (`toolbox_seq_runner.py:435`) is made well before the
  process announces itself (517), so two processes may pass it. `set_error` for a
  missing database (266) runs before `self._plc` exists (271) and its
  `AttributeError` is swallowed; the `log_event` of the E-stop path (556) lacks
  arguments the client requires, and its `TypeError` is swallowed too. The event
  of a failure (603) has the type `error`, which the store refuses
  (`db_core/repository.py:482`), and `set_error` is `plc_core/client.py:75`, which
  writes a log line: no event is recorded and no lamp turns red, against the
  docstring at 580 and the comment at 551. The failure's way home opens the
  gripper first and so drops a tool it holds. "Consecutive frames" of the servo's
  detection are ticks that may all read the same cached pose. No runner updates a
  tool's status.
* Gripper: the start and the watchdog's recovery do not exclude each other; a
  recovery that lets go of a socket without closing it, while its old reader still
  holds it, can leave the program serving that connection with its queue full
  (`gripper_node.py:1169`): the state `Jammed`, which `LinkComesBack` exempts. An
  old reader's end takes a new connection offline (1112). The command number is
  read and incremented without a lock (886); acknowledgements of direct commands
  stay in the mailbox for good; a watchdog that never received anything never
  calls the link stale (1136); `break` on a stop packet leaves the inner loop only
  (478); a position not reached in time is reported as success (1698).
* Hand-over: the second check of the hand that `_wait_hand_pose`
  (`tool_action_server.py:797`), `handover_place_only_seq` and `TODO_handover.md`
  describe is not in the code; `/hand/ready` is believed for as long as nothing
  newer comes, a dead `hand_node` included. A palm whose positions are unsteady leaves
  the lock where it was (`hand_node.py:318`), however far it goes, and the lock is
  offered again once no palm is in view (`:542`), where `config/handover.yaml:31`
  says that 15 cm break it.
* Top view: `pose_node` subscribes to `/vision/detections`, `yolo_node` publishes
  `/vision/detections/top_view`, and nothing maps one to the other. Two detections of a
  class in one frame count two hits although the configuration speaks of frames,
  and can pull one track between two slots. With `min_hits` 1 a track would still
  need a second detection (`tracker_node.py:108-115`).
* Markers: `marker_scan_node` publishes an empty map at the first frame without
  markers, where the configuration says after `stale_timeout`; the drawer marker may
  be number 3 although the docstring names 0 and 1; a smoothed angle that is 30
  degrees off never comes back; the base pose combines an older image with the
  latest transform.
* Voice: an exception of the microphone ends its thread and leaves the node up; an
  exception of the model ends the intent node; a feasibility request has no time
  limit; a cancel overtakes the request it follows; an intent published while
  another waits at the orchestrator replaces it. S-7 is checked before the publish
  (`whisper_node.py:118`) and before the start of the tree
  (`orchestrator_node.py:147`), and the flag may change between. The panels'
  buttons and `demo_trigger.py` publish requests on `/voice/intent` that the store
  has not seen; only the tree's own check stands before the motion.
  `demo_trigger.py` accepts "home", an intent the tree does not know.
* Voice text: the docstring of `_strip_wake_word_prefix` removes the whole first
  word, the code the prefix and one letter, which may be a word of its own; the text
  "false" for `needs_confirm` is true; a cancel needs no confidence; of two tools
  named the first of the dictionary is meant; an evaluation passes with every tool
  wrong, since only intents are counted.
* PLC configuration: a reset coil among the start coils, a label twice, and a state
  without outputs are accepted.
* DB client: one `_cache_loaded_at` for all tools (`db_core/client.py:105`), so
  reading one tool makes an old status of another young, against the docstring at
  `:91`. A file whose `tools` lacks `grasp_z_mm` passes `_validate_schema` and then
  every status read fails. `log_event` may raise although the event was committed,
  and may return another writer's id (`:187-196`).
* Gripper words: a frame that the program cuts after an error leaves the JSON
  readers out of step for good; the binary reader drops one byte of garbage per
  reception; the record of the last direct command survives a `set_position` and a
  reconnection, so an equal one is skipped (`gripper_node.py:1566`); a negative
  target is read back as a large one; a goal of two registers written one at a time
  keeps the old high word, and is written low word first (`:1607`) and read high
  word first (`:149`); `done_require_reached` and `done_min_motion` are read by
  nothing; the check sum of answers is not looked at.
* Bring-up: the E-stop is looked at once, before the wait of up to 15 s for
  `move_joint`; `is_moving` FALSE is published 25 s after a call that was not
  answered, while the robot may still move; a registration service that is absent is
  passed over.
* Panels: `CameraWorker` promises a placeholder and keeps the last frame
  (`dashboard_node.py:56`, `:109`); the health never leaves "ok"; the first send to a
  page stands outside the `try` that would forget it (`ui_server.py:328`); the event
  queue behind a slow page has no bound; a page opened after the last `/plc/status`
  shows none; a service call that timed out may take effect later.

## 6. Not modelled

Out of reach or without a state worth checking: the neural networks, marker
detection and `solvePnP` (their results are inputs), the servo's control law and
kinematics (numerical), speech and language models and their prompt; cameras and
static pages of the panels; viewers, calibration scripts, notebooks, datasets
(offline); `unit_action_server.py` (stubs that abort every goal), `track_c_vla.py`
(empty), `place_on_hand_bt.py` and the `hal` package, which no node imports.
`plc_core/client.py`, which the sequence runner uses, is a mock that writes log
lines, and is modelled as those lines. Most lines of the repository are of these
kinds, which is why the map covers a part of it only. In the modelled parts: the
ROS parameters, message wording, the coordinates of a pose and the limits of the
work space (a target is accepted or not), the `drl` transport of the gripper
beyond the answer of its call and the loop of its program, the wake window's
clock, the validation of request strings that the store refuses before any effect.

Steps that are coarser than the code, each for a reason: taking a status message and
setting the flag is one step of a listener (two status callbacks of the
orchestrator's reentrant group that overlap are taken in their order); the read of a
row and the stamp of its copy (`db_core/repository.py:182`) fall into one unit of the
store's clock; the scene builder's queue of five messages is one, since the scene is
a function of a single message and of the offer before it, and each message carries
its own history.

## 7. Plan

1. **Done**: store, orchestrator, tool action server, PLC node; their invariants
   and both refinements.
2. **Done**: sequences, servo and sequence runner with the drawers table; the
   gripper's session and commands; hand lock and hand-over; voice gating.
3. **Composition** of orchestrator, store and action server: the tool's recorded
   status against where the arm has really put it, in runs without lost answers.
4. **Done**: proofs of every invariant and action property that a run checks.
   Next: what the functions of `PlcConfig`, `DbClient` and `VoiceText` return, with
   the induction of `VisionProofs`; the theorems of the composition of item 3.
5. **Done**: DB client, configuration, text, words of the gripper, bring-up, as
   functions with their assumptions.
6. **Done**: trackers and scene of the top view, marker nodes, panels. Left of the
   vision and the gripper: viewers, the `drl` transport in steps, the `hal` drivers
   should a node come to use them.

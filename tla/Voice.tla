--------------------------------- MODULE Voice ---------------------------------
(***************************************************************************)
(* The voice pipeline, from the microphone to the orchestrator's door:      *)
(*                                                                          *)
(*   microphone thread  -- /voice/raw_text -->  intent node                 *)
(*   intent node <-- CheckToolFeasibility --> tool store                    *)
(*   intent node  -- /voice/intent -->  OrchestratorNode._on_intent         *)
(*                                                                          *)
(* and /robot/status, which tells the microphone node and the orchestrator  *)
(* that the arm moves (rule S-7).  Each subscriber of the status keeps the  *)
(* newest message only and gets to it when its executor does; the robot may *)
(* start and stop between any two steps.  Both listeners read their flag,   *)
(* then act: the microphone's thread and a callback of the orchestrator's   *)
(* reentrant group run beside the callback that sets the flag, so it may    *)
(* change in between.  The recording, the transcription, the language model *)
(* and the store's answer all take time, during which everything else goes  *)
(* on; a cancel or unknown intent does not wait for the store and so        *)
(* overtakes the requests that do.  Two panels and a command line publish   *)
(* on /voice/intent too, and ask nobody.                                    *)
(* What is said, and what the models make of it, is a choice.               *)
(***************************************************************************)
EXTENDS Integers, Sequences, FiniteSets

CONSTANTS
  Tools,          \* tools a request can name
  MaxUtterances,  \* bound: utterances recorded
  RawDepth,       \* depth of /voice/raw_text (10 in the code)
  Handlers,       \* threads of the orchestrator's executor
  None            \* nothing

Utts    == 1..MaxUtterances
Request == [utt : Utts, kind : {"fetch", "return"}, tool : Tools]
Plain   == [utt : Utts, kind : {"cancel", "unknown"}, tool : {None}]
Pressed == [utt : {0}, kind : {"fetch", "return", "home"}, tool : Tools]  \* at a panel: nothing was said
Intent  == Request \union Plain \union Pressed

ASSUME BoundsAssumption ==
  MaxUtterances \in Nat \ {0} /\ RawDepth \in Nat \ {0} /\ Handlers \in Nat \ {0}
ASSUME NoneAssumption   == None \notin BOOLEAN /\ None \notin Utts /\ None \notin Intent

VARIABLES
  moving,   \* the arm, as the motion server last published it
  toMic,    \* the status message on its way to the microphone node, or None
  gate,     \* WhisperNode._is_moving
  mic,      \* the listen loop: where it is, the utterance it holds
  raw,      \* /voice/raw_text: utterances, the oldest first
  node,     \* the intent node: the utterance it classifies; whether it lives
  storeUp,  \* whether the store's service exists
  asked,    \* requests at the store
  lost,     \* requests a crash of the store swallowed: their futures never complete
  answers,  \* answers the intent node has not handled
  granted,  \* history: requests the store has granted
  topic,    \* the newest message on /voice/intent the orchestrator has not taken
  toOrch,   \* the status message on its way to the orchestrator, or None
  orchGate, \* OrchestratorNode._is_moving
  admitted, \* callbacks of the intent that have passed the check and not begun
  mayPublish, \* history: texts past the check when the microphone node was told
              \* of the motion, less those published since
  mayBegin    \* history: intents past the check when the orchestrator was told
              \* of it, less those begun since

micVars  == <<toMic, gate, mic>>
nodeVars == <<node, asked, lost, answers, granted>>
orchVars == <<toOrch, orchGate, topic, admitted>>
history  == <<mayPublish, mayBegin>>
vars == <<moving, micVars, raw, nodeVars, storeUp, orchVars, history>>

Init ==
  /\ moving = FALSE /\ toMic = None /\ gate = FALSE
  /\ mic = [at |-> "listen", utt |-> 0]
  /\ raw = <<>>
  /\ node = [alive |-> TRUE, busy |-> None]
  /\ storeUp = TRUE
  /\ asked = {} /\ lost = {} /\ answers = {} /\ granted = {}
  /\ topic = None /\ toOrch = None /\ orchGate = FALSE /\ admitted = 0
  /\ mayPublish = 0 /\ mayBegin = 0

-----------------------------------------------------------------------------
(* /robot/status                                                            *)

\* ToolActionServer._publish_status: the newest message replaces an older one
\* that a subscriber has not reached.
RobotStarts ==
  /\ ~moving
  /\ moving' = TRUE /\ toMic' = TRUE /\ toOrch' = TRUE
  /\ UNCHANGED <<gate, mic, raw, nodeVars, storeUp, topic, orchGate, admitted, history>>

RobotStops ==
  /\ moving
  /\ moving' = FALSE /\ toMic' = FALSE /\ toOrch' = FALSE
  /\ UNCHANGED <<gate, mic, raw, nodeVars, storeUp, topic, orchGate, admitted, history>>

\* WhisperNode._handle_robot_status, on the node's executor.
MicStatus ==
  /\ toMic # None
  /\ gate' = toMic /\ toMic' = None
  /\ mayPublish' = IF mic.at = "publish" THEN 1 ELSE 0
  /\ UNCHANGED <<moving, mic, raw, nodeVars, storeUp, orchVars, mayBegin>>

\* OrchestratorNode._on_robot_status.
OrchStatus ==
  /\ toOrch # None
  /\ orchGate' = toOrch /\ toOrch' = None
  /\ mayBegin' = admitted
  /\ UNCHANGED <<moving, micVars, raw, nodeVars, storeUp, topic, admitted, mayPublish>>

\* The arm moves and the message that says so has arrived.
MicTold  == moving /\ toMic = None
OrchTold == moving /\ toOrch = None

-----------------------------------------------------------------------------
(* The microphone thread: WhisperNode._listen_loop                          *)

\* Not while the arm moves: the loop sleeps then.
Record ==
  /\ mic.at = "listen" /\ mic.utt < MaxUtterances
  /\ ~gate
  /\ mic' = [at |-> "record", utt |-> mic.utt + 1]
  /\ UNCHANGED <<moving, toMic, gate, raw, nodeVars, storeUp, orchVars, history>>

\* The recording ends: silence, or the time limit with nothing heard; what was
\* heard is thrown away if the arm moves by now.
EndOfSpeech(nothing) ==
  IF nothing \/ gate THEN "listen" ELSE "transcribe"

EndRecording ==
  /\ mic.at = "record"
  /\ \E nothing \in BOOLEAN : mic' = [mic EXCEPT !.at = EndOfSpeech(nothing)]
  /\ UNCHANGED <<moving, toMic, gate, raw, nodeVars, storeUp, orchVars, history>>

\* The stream's read raises: nothing in the loop catches it, the thread ends
\* and the node stays, deaf.
MicrophoneFails ==
  /\ mic.at = "record"
  /\ mic' = [mic EXCEPT !.at = "dead"]
  /\ UNCHANGED <<moving, toMic, gate, raw, nodeVars, storeUp, orchVars, history>>

\* A reliable topic that keeps the last RawDepth messages drops the oldest.
Keep(queue, u) ==
  Append(IF Len(queue) < RawDepth THEN queue ELSE Tail(queue), u)

\* publish_transcript up to its publish: a transcription that raised, gave no
\* text, or a text that repeats itself, ends here, and so does any if the arm
\* moves by the flag.
Transcribed ==
  /\ mic.at = "transcribe"
  /\ \E usable \in BOOLEAN :
       mic' = [mic EXCEPT !.at = IF usable /\ ~gate THEN "publish" ELSE "listen"]
  /\ UNCHANGED <<moving, toMic, gate, raw, nodeVars, storeUp, orchVars, history>>

\* The publish itself, which no longer looks at the flag.
PublishText ==
  /\ mic.at = "publish"
  /\ mic' = [mic EXCEPT !.at = "listen"]
  /\ raw' = Keep(raw, mic.utt)
  /\ mayPublish' = IF MicTold THEN mayPublish - 1 ELSE mayPublish
  /\ UNCHANGED <<moving, toMic, gate, nodeVars, storeUp, orchVars, mayBegin>>

-----------------------------------------------------------------------------
(* The intent node: one callback at a time                                  *)

Idle == node.alive /\ node.busy = None

\* Mutant: the answer of the store is waited for before the next text.
NodeReadyInTurn == Idle /\ asked \union lost = {} /\ answers = {}
NodeReady == Idle

\* _handle_raw_text begins: the wake word, then the classifier.
TakeText ==
  /\ NodeReady /\ raw # <<>>
  /\ node' = [node EXCEPT !.busy = Head(raw)]
  /\ raw' = Tail(raw)
  /\ UNCHANGED <<moving, micVars, storeUp, asked, lost, answers, granted, orchVars, history>>

\* No wake word, or an intent type that is none of the four; also a request for
\* which no service appears within a second.
IgnoreText ==
  /\ node.alive /\ node.busy # None
  /\ node' = [node EXCEPT !.busy = None]
  /\ UNCHANGED <<moving, micVars, raw, storeUp, asked, lost, answers, granted, orchVars, history>>

\* _publish_intent: /voice/intent keeps one message.
\* A doubtful, malformed or low-confidence answer of the model is "unknown".
ClassifyPlain ==
  /\ node.alive /\ node.busy # None
  /\ \E kind \in {"cancel", "unknown"} :
       topic' = [utt |-> node.busy, kind |-> kind, tool |-> None]
  /\ node' = [node EXCEPT !.busy = None]
  /\ UNCHANGED <<moving, micVars, raw, storeUp, asked, lost, answers, granted,
                 toOrch, orchGate, admitted, history>>

\* fetch or return: the store is asked and the callback returns.
ClassifyRequest ==
  /\ node.alive /\ node.busy # None /\ storeUp
  /\ \E kind \in {"fetch", "return"}, tool \in Tools :
       asked' = asked \union {[utt |-> node.busy, kind |-> kind, tool |-> tool]}
  /\ node' = [node EXCEPT !.busy = None]
  /\ UNCHANGED <<moving, micVars, raw, storeUp, lost, answers, granted, orchVars, history>>

\* The model raises in the callback: GemmaLoadError leaves spin, main's finally
\* destroys the node, and nothing starts it again.
ModelFails ==
  /\ node.alive /\ node.busy # None
  /\ node' = [alive |-> FALSE, busy |-> None]
  /\ asked' = {} /\ lost' = {} /\ answers' = {}
  /\ UNCHANGED <<moving, micVars, raw, storeUp, granted, orchVars, history>>

\* Mutant: the request is an attribute of the node.
ConfirmedNewest(request) ==
  CHOOSE r \in asked \union {a.request : a \in answers} :
    \A s \in asked \union {a.request : a \in answers} : s.utt <= r.utt

\* _handle_feasibility publishes the request its own closure holds.
Confirmed(request) == request

HandleAnswer(answer) ==
  /\ Idle
  /\ answers' = answers \ {answer}
  /\ topic' = IF answer.verdict = "feasible" THEN Confirmed(answer.request) ELSE topic
  /\ UNCHANGED <<moving, micVars, raw, node, storeUp, asked, lost, granted,
                 toOrch, orchGate, admitted, history>>

-----------------------------------------------------------------------------
(* The store: it answers the requests in any order; a crash loses them, and  *)
(* the futures of the lost ones never complete.                              *)

StoreAnswers(request) ==
  /\ storeUp
  /\ asked' = asked \ {request}
  /\ \E verdict \in {"feasible", "infeasible", "error"} :
       /\ answers' = answers \union {[request |-> request, verdict |-> verdict]}
       /\ granted' = IF verdict = "feasible" THEN granted \union {request} ELSE granted
  /\ UNCHANGED <<moving, micVars, raw, node, storeUp, lost, orchVars, history>>

StoreCrashes ==
  /\ storeUp /\ storeUp' = FALSE
  /\ lost' = lost \union asked /\ asked' = {}
  /\ UNCHANGED <<moving, micVars, raw, node, answers, granted, orchVars, history>>

StoreReturns ==
  /\ ~storeUp /\ storeUp' = TRUE
  /\ UNCHANGED <<moving, micVars, raw, nodeVars, orchVars, history>>

-----------------------------------------------------------------------------
(* The panels: the buttons of the dashboard and of the demo's page, and the  *)
(* demo's command line, publish a request that the store has not seen; the   *)
(* tree of the orchestrator asks it once more (module Orchestrator).         *)

PanelPublishes ==
  /\ \E intent \in Pressed : topic' = intent
  /\ UNCHANGED <<moving, micVars, raw, nodeVars, storeUp, toOrch, orchGate, admitted, history>>

-----------------------------------------------------------------------------
(* OrchestratorNode._on_intent: nothing starts while the arm moves           *)

\* Mutant: the orchestrator relies on the microphone being closed.
AdmitsAll(intent) == TRUE

Admits(intent) == ~orchGate

\* A free thread of the executor takes the message and reads the flag.
TakeIntent ==
  /\ topic # None /\ admitted < Handlers
  /\ topic' = None
  /\ admitted' = IF Admits(topic) THEN admitted + 1 ELSE admitted
  /\ UNCHANGED <<moving, micVars, raw, nodeVars, storeUp, toOrch, orchGate, history>>

\* The blackboard is written and the thread of the tree started, whatever the
\* flag says by now.
StartTree ==
  /\ admitted > 0
  /\ admitted' = admitted - 1
  /\ mayBegin' = IF OrchTold THEN mayBegin - 1 ELSE mayBegin
  /\ UNCHANGED <<moving, micVars, raw, nodeVars, storeUp, toOrch, orchGate, topic, mayPublish>>

-----------------------------------------------------------------------------
MicNext == Record \/ EndRecording \/ MicrophoneFails \/ Transcribed \/ PublishText
NodeNext ==
  \/ TakeText \/ IgnoreText \/ ClassifyPlain \/ ClassifyRequest \/ ModelFails
  \/ \E answer \in answers : HandleAnswer(answer)
StatusNext == RobotStarts \/ RobotStops \/ MicStatus \/ OrchStatus
StoreNext == StoreCrashes \/ StoreReturns \/ \E request \in asked : StoreAnswers(request)

OrchNext == PanelPublishes \/ TakeIntent \/ StartTree

Next == StatusNext \/ MicNext \/ NodeNext \/ StoreNext \/ OrchNext

Spec == Init /\ [][Next]_vars

\* The executors of the nodes run, a recording ends (it has a time limit) and a
\* store that is up answers.  Nobody need speak or press, and the arm need not move.
FairSpec ==
  /\ Spec
  /\ WF_vars(EndRecording) /\ WF_vars(Transcribed) /\ WF_vars(PublishText)
  /\ WF_vars(TakeIntent) /\ WF_vars(StartTree) /\ WF_vars(TakeText)
  /\ WF_vars(IgnoreText \/ ClassifyPlain \/ ClassifyRequest)
  /\ SF_vars(\E answer \in answers : HandleAnswer(answer))
  /\ WF_vars(\E request \in asked : StoreAnswers(request))

-----------------------------------------------------------------------------
(* Properties                                                               *)

FlagsOK == moving \in BOOLEAN /\ gate \in BOOLEAN /\ orchGate \in BOOLEAN
WiresOK == toMic \in BOOLEAN \union {None} /\ toOrch \in BOOLEAN \union {None}
MicOK   == mic \in [at : {"listen", "record", "transcribe", "publish", "dead"},
                   utt : 0..MaxUtterances]
RawOK   == raw \in Seq(Utts) /\ Len(raw) <= RawDepth
NodeOK  == node \in [alive : BOOLEAN, busy : Utts \union {None}] /\ storeUp \in BOOLEAN
StoreOK == asked \subseteq Request /\ lost \subseteq Request /\ granted \subseteq Request
AnsOK   == answers \subseteq
             [request : Request, verdict : {"feasible", "infeasible", "error"}]
TopicOK == topic \in Intent \union {None} /\ admitted \in 0..Handlers
CountOK == mayPublish \in Int /\ mayBegin \in Int

TypeOK ==
  FlagsOK /\ WiresOK /\ MicOK /\ RawOK /\ NodeOK /\ StoreOK /\ AnsOK /\ TopicOK /\ CountOK

\* Rule S-7 over the whole pipeline, with the race the code leaves.  Once the
\* status message that says the arm moves has reached a listener, nothing goes on
\* but what was past the listener's check by then: of the microphone's thread at
\* most the one text in its hands, and of the orchestrator no more intents than
\* its executor's threads held, whatever else is said, pressed or granted while
\* the arm moves.
DeafInMotion == mayPublish >= 0 /\ mayBegin >= 0

\* Every fetch or return that was spoken and is on /voice/intent is one the store
\* granted, for the very utterance and tool it names, however many requests were
\* under way, in whatever order their answers came and whatever the panels
\* published between.  What a panel publishes carries no grant.
SpokenIsGranted == topic \in Request => topic \in granted

\* No utterance waits for ever behind another: each text sent to the intent node
\* ends (ignored, published, refused or pushed out of the queue) while the node
\* lives, save one whose own request a crash of the store swallowed: that one
\* holds up no other.
Waits(u) ==
  \/ u \in {raw[i] : i \in DOMAIN raw} \/ node.busy = u
  \/ \E r \in asked \union {a.request : a \in answers} : r.utt = u
TextsAreServed ==
  \A u \in Utts : Waits(u) ~> (~Waits(u) \/ ~node.alive)
=============================================================================

-------------------------- MODULE OperatorSideProofs --------------------------
(***************************************************************************)
(* The operator's side: what is said to the robot, and what its pages show. *)
(*                                                                          *)
(* What the run of Voice checks for two utterances, a queue of one and two  *)
(* handlers is proved for any number of them, any depth and any tools.  The *)
(* argument for rule S-7 is the link between the arm and each listener's    *)
(* flag: the flag is right unless a status message is on its way, and that  *)
(* message is right.  So once a listener has been told, nothing passes its  *)
(* check, and what may still go on is exactly what is past it.              *)
(*                                                                          *)
(* What the run of OperatorPanels checks for two pages is proved for any    *)
(* pages and any queues: whoever is taken from the clients has left.        *)
(***************************************************************************)
EXTENDS Voice, OperatorPanels, TLAPS

----------------------------------------------------------------------------
(* The voice pipeline                                                      *)

\* A status topic of depth one: the newest message, or the flag, is the truth.
Link(wire, flag) == IF wire = None THEN flag = moving ELSE wire = moving
Links == Link(toMic, gate) /\ Link(toOrch, orchGate)

\* A feasible answer is that of a request the store granted.
FeasibleIsGranted == \A a \in answers : a.verdict = "feasible" => a.request \in granted

\* The listen loop has an utterance in hand once it has begun to record.
Speaking == mic.at # "listen" => mic.utt \in Utts

\* While a listener has been told that the arm moves, what may still go on is
\* what is past its check now.
InHand == IF mic.at = "publish" THEN 1 ELSE 0
MicCounts  == MicTold => mayPublish = InHand
OrchCounts == OrchTold => mayBegin = admitted
Counts == MicCounts /\ OrchCounts

Safe == Links /\ Speaking /\ Counts /\ DeafInMotion /\ FeasibleIsGranted /\ SpokenIsGranted
IInv == TypeOK /\ Safe

----------------------------------------------------------------------------
\* The queue drops its oldest text rather than grow past its depth.
LEMMA KeepBounds ==
  ASSUME NEW q \in Seq(Utts), Len(q) <= RawDepth, NEW u \in Utts
  PROVE  Keep(q, u) \in Seq(Utts) /\ Len(Keep(q, u)) <= RawDepth
<1>1. CASE Len(q) < RawDepth
  BY <1>1, BoundsAssumption DEF Keep
<1>2. CASE ~(Len(q) < RawDepth)
  <2>1. q # <<>> /\ Len(q) = RawDepth /\ Keep(q, u) = Append(Tail(q), u)
    BY <1>2, BoundsAssumption DEF Keep
  <2>2. Tail(q) \in Seq(Utts) /\ Len(Tail(q)) = RawDepth - 1
    BY <2>1
  <2> QED BY <2>1, <2>2, BoundsAssumption
<1> QED BY <1>1, <1>2

LEMMA TailBounds ==
  ASSUME NEW q \in Seq(Utts), Len(q) <= RawDepth, q # <<>>
  PROVE  Tail(q) \in Seq(Utts) /\ Len(Tail(q)) <= RawDepth /\ Head(q) \in Utts
BY BoundsAssumption

\* A cancel or unknown intent is never taken for a request, nor is a button's.
LEMMA PlainIsNoRequest ==
  Plain \intersect Request = {} /\ Pressed \intersect Request = {} /\ None \notin Request
BY NoneAssumption DEF Plain, Pressed, Request, Intent, Utts

LEMMA InitIInv == Init => IInv
<1> SUFFICES ASSUME Init PROVE IInv
  OBVIOUS
<1>1. FlagsOK
  BY DEF Init, FlagsOK
<1>2. WiresOK
  BY DEF Init, WiresOK
<1>3. MicOK
  BY BoundsAssumption DEF Init, MicOK
<1>4. RawOK
  BY BoundsAssumption DEF Init, RawOK
<1>5. NodeOK
  BY DEF Init, NodeOK
<1>6. StoreOK
  BY DEF Init, StoreOK
<1>7. AnsOK
  BY DEF Init, AnsOK
<1>8. TopicOK
  BY BoundsAssumption DEF Init, TopicOK
<1>9. CountOK
  BY DEF Init, CountOK
<1>10. Links /\ FeasibleIsGranted /\ SpokenIsGranted
  BY NoneAssumption, PlainIsNoRequest DEF Init, Links, Link, FeasibleIsGranted, SpokenIsGranted
<1>11. Speaking
  BY DEF Init, Speaking
<1>12. Counts /\ DeafInMotion
  BY DEF Init, Counts, MicCounts, OrchCounts, MicTold, OrchTold, DeafInMotion
<1> QED BY <1>1, <1>2, <1>3, <1>4, <1>5, <1>6, <1>7, <1>8, <1>9, <1>10, <1>11, <1>12
        DEF IInv, TypeOK, Safe

USE DEF micVars, nodeVars, orchVars, history

\* Most steps touch neither the arm, nor the wires, nor what is past a check.
LEMMA CountsUndisturbed ==
  ASSUME Safe,
         UNCHANGED <<moving, toMic, toOrch, mic, admitted, mayPublish, mayBegin>>
  PROVE  Counts' /\ DeafInMotion'
BY DEF Safe, Counts, MicCounts, OrchCounts, MicTold, OrchTold, InHand, DeafInMotion

----------------------------------------------------------------------------
(* One lemma per action: what it leaves alone, then what it disturbs.      *)

LEMMA RobotStartsKeeps ==
  ASSUME IInv, RobotStarts PROVE IInv'
<1> USE DEF IInv, TypeOK
<1>1. MicOK' /\ RawOK' /\ NodeOK' /\ StoreOK' /\ AnsOK' /\ TopicOK' /\ CountOK'
  BY DEF RobotStarts, MicOK, RawOK, NodeOK, StoreOK, AnsOK, TopicOK, CountOK
<1>2. FlagsOK'
  BY DEF RobotStarts, FlagsOK
<1>3. WiresOK'
  BY DEF RobotStarts, WiresOK
<1>4. Links'
  BY NoneAssumption DEF RobotStarts, Safe, Links, Link, FlagsOK, WiresOK
<1>5. Speaking' /\ FeasibleIsGranted' /\ SpokenIsGranted'
  BY DEF RobotStarts, Safe, Speaking, FeasibleIsGranted, SpokenIsGranted
<1>6. Counts' /\ DeafInMotion'
  BY NoneAssumption
     DEF RobotStarts, Safe, Counts, MicCounts, OrchCounts, DeafInMotion, MicTold, OrchTold, InHand
<1> QED BY <1>1, <1>2, <1>3, <1>4, <1>5, <1>6 DEF Safe

LEMMA RobotStopsKeeps ==
  ASSUME IInv, RobotStops PROVE IInv'
<1> USE DEF IInv, TypeOK
<1>1. MicOK' /\ RawOK' /\ NodeOK' /\ StoreOK' /\ AnsOK' /\ TopicOK' /\ CountOK'
  BY DEF RobotStops, MicOK, RawOK, NodeOK, StoreOK, AnsOK, TopicOK, CountOK
<1>2. FlagsOK'
  BY DEF RobotStops, FlagsOK
<1>3. WiresOK'
  BY DEF RobotStops, WiresOK
<1>4. Links'
  BY NoneAssumption DEF RobotStops, Safe, Links, Link, FlagsOK, WiresOK
<1>5. Speaking' /\ FeasibleIsGranted' /\ SpokenIsGranted'
  BY DEF RobotStops, Safe, Speaking, FeasibleIsGranted, SpokenIsGranted
<1>6. Counts' /\ DeafInMotion'
  BY NoneAssumption
     DEF RobotStops, Safe, Counts, MicCounts, OrchCounts, DeafInMotion, MicTold, OrchTold, InHand
<1> QED BY <1>1, <1>2, <1>3, <1>4, <1>5, <1>6 DEF Safe

LEMMA MicStatusKeeps ==
  ASSUME IInv, MicStatus PROVE IInv'
<1> USE DEF IInv, TypeOK
<1>1. MicOK' /\ RawOK' /\ NodeOK' /\ StoreOK' /\ AnsOK' /\ TopicOK' /\ CountOK'
  BY DEF MicStatus, MicOK, RawOK, NodeOK, StoreOK, AnsOK, TopicOK, CountOK
<1>2. FlagsOK'
  BY DEF MicStatus, FlagsOK, WiresOK
<1>3. WiresOK'
  BY DEF MicStatus, WiresOK
<1>4. Links'
  BY NoneAssumption DEF MicStatus, Safe, Links, Link, FlagsOK, WiresOK
<1>5. Speaking' /\ FeasibleIsGranted' /\ SpokenIsGranted'
  BY DEF MicStatus, Safe, Speaking, FeasibleIsGranted, SpokenIsGranted
<1>6. Counts' /\ DeafInMotion'
  BY NoneAssumption
     DEF MicStatus, Safe, Counts, MicCounts, OrchCounts, DeafInMotion, MicTold, OrchTold, InHand
<1> QED BY <1>1, <1>2, <1>3, <1>4, <1>5, <1>6 DEF Safe

LEMMA OrchStatusKeeps ==
  ASSUME IInv, OrchStatus PROVE IInv'
<1> USE DEF IInv, TypeOK
<1>1. MicOK' /\ RawOK' /\ NodeOK' /\ StoreOK' /\ AnsOK' /\ TopicOK' /\ CountOK'
  BY BoundsAssumption DEF OrchStatus, MicOK, RawOK, NodeOK, StoreOK, AnsOK, TopicOK, CountOK
<1>2. FlagsOK'
  BY DEF OrchStatus, FlagsOK, WiresOK
<1>3. WiresOK'
  BY DEF OrchStatus, WiresOK
<1>4. Links'
  BY NoneAssumption DEF OrchStatus, Safe, Links, Link, FlagsOK, WiresOK
<1>5. Speaking' /\ FeasibleIsGranted' /\ SpokenIsGranted'
  BY DEF OrchStatus, Safe, Speaking, FeasibleIsGranted, SpokenIsGranted
<1>6. Counts' /\ DeafInMotion'
  BY NoneAssumption, BoundsAssumption
     DEF OrchStatus, Safe, Counts, MicCounts, OrchCounts, DeafInMotion, MicTold, OrchTold, InHand,
         TopicOK
<1> QED BY <1>1, <1>2, <1>3, <1>4, <1>5, <1>6 DEF Safe

LEMMA RecordKeeps ==
  ASSUME IInv, Record PROVE IInv'
<1> USE DEF IInv, TypeOK
<1>1. FlagsOK' /\ WiresOK' /\ RawOK' /\ NodeOK' /\ StoreOK' /\ AnsOK' /\ TopicOK' /\ CountOK'
  BY DEF Record, FlagsOK, WiresOK, RawOK, NodeOK, StoreOK, AnsOK, TopicOK, CountOK
<1>2. MicOK'
  BY BoundsAssumption DEF Record, MicOK
<1>3. Speaking'
  BY BoundsAssumption DEF Record, Speaking, MicOK, Utts
<1>4. Links' /\ FeasibleIsGranted' /\ SpokenIsGranted'
  BY DEF Record, Safe, Links, Link, FeasibleIsGranted, SpokenIsGranted
<1>5. Counts' /\ DeafInMotion'
  BY DEF Record, Safe, Counts, MicCounts, OrchCounts, DeafInMotion, MicTold, OrchTold, InHand,
         MicOK
<1> QED BY <1>1, <1>2, <1>3, <1>4, <1>5 DEF Safe

LEMMA EndRecordingKeeps ==
  ASSUME IInv, EndRecording PROVE IInv'
<1> USE DEF IInv, TypeOK
<1>1. FlagsOK' /\ WiresOK' /\ RawOK' /\ NodeOK' /\ StoreOK' /\ AnsOK' /\ TopicOK'
  BY DEF EndRecording, FlagsOK, WiresOK, RawOK, NodeOK, StoreOK, AnsOK, TopicOK
<1>2. MicOK'
  BY DEF EndRecording, MicOK, EndOfSpeech
<1>3. CountOK'
  BY DEF EndRecording, CountOK
<1>4. Speaking'
  BY DEF EndRecording, Safe, Speaking, MicOK, EndOfSpeech
<1>5. Links' /\ FeasibleIsGranted' /\ SpokenIsGranted'
  BY DEF EndRecording, Safe, Links, Link, FeasibleIsGranted, SpokenIsGranted
<1>6. Counts' /\ DeafInMotion'
  BY DEF EndRecording, Safe, Counts, MicCounts, OrchCounts, DeafInMotion, MicTold, OrchTold, InHand,
         MicOK, EndOfSpeech
<1> QED BY <1>1, <1>2, <1>3, <1>4, <1>5, <1>6 DEF Safe

LEMMA MicrophoneFailsKeeps ==
  ASSUME IInv, MicrophoneFails PROVE IInv'
<1> USE DEF IInv, TypeOK
<1>1. FlagsOK' /\ WiresOK' /\ RawOK' /\ NodeOK' /\ StoreOK' /\ AnsOK' /\ TopicOK' /\ CountOK'
  BY DEF MicrophoneFails, FlagsOK, WiresOK, RawOK, NodeOK, StoreOK, AnsOK, TopicOK, CountOK
<1>2. MicOK'
  BY DEF MicrophoneFails, MicOK
<1>3. Speaking'
  BY DEF MicrophoneFails, Safe, Speaking, MicOK
<1>4. Links' /\ FeasibleIsGranted' /\ SpokenIsGranted'
  BY DEF MicrophoneFails, Safe, Links, Link, FeasibleIsGranted, SpokenIsGranted
<1>5. Counts' /\ DeafInMotion'
  BY DEF MicrophoneFails, Safe, Counts, MicCounts, OrchCounts, DeafInMotion, MicTold, OrchTold, InHand,
         MicOK
<1> QED BY <1>1, <1>2, <1>3, <1>4, <1>5 DEF Safe

LEMMA TranscribedKeeps ==
  ASSUME IInv, Transcribed PROVE IInv'
<1> USE DEF IInv, TypeOK
<1>1. FlagsOK' /\ WiresOK' /\ RawOK' /\ NodeOK' /\ StoreOK' /\ AnsOK' /\ TopicOK' /\ CountOK'
  BY DEF Transcribed, FlagsOK, WiresOK, RawOK, NodeOK, StoreOK, AnsOK, TopicOK, CountOK
<1>2. MicOK'
  BY DEF Transcribed, MicOK
<1>3. Speaking'
  BY DEF Transcribed, Safe, Speaking, MicOK
<1>4. MicTold => mic'.at = "listen"
  BY DEF Transcribed, Safe, Links, Link, MicTold, MicOK
<1>5. Counts' /\ DeafInMotion'
  BY <1>4
     DEF Transcribed, Safe, Counts, MicCounts, OrchCounts, DeafInMotion, MicTold, OrchTold, InHand
<1>6. Links' /\ FeasibleIsGranted' /\ SpokenIsGranted'
  BY DEF Transcribed, Safe, Links, Link, FeasibleIsGranted, SpokenIsGranted
<1> QED BY <1>1, <1>2, <1>3, <1>5, <1>6 DEF Safe

LEMMA PublishTextKeeps ==
  ASSUME IInv, PublishText PROVE IInv'
<1> USE DEF IInv, TypeOK
<1>1. FlagsOK' /\ WiresOK' /\ NodeOK' /\ StoreOK' /\ AnsOK' /\ TopicOK'
  BY DEF PublishText, FlagsOK, WiresOK, NodeOK, StoreOK, AnsOK, TopicOK
<1>2. MicOK' /\ CountOK'
  BY DEF PublishText, MicOK, CountOK
<1>3. RawOK'
  BY KeepBounds DEF PublishText, RawOK, Safe, Speaking
<1>4. Speaking'
  BY DEF PublishText, Speaking, MicOK
<1>5. Counts' /\ DeafInMotion'
  BY DEF PublishText, Safe, Counts, MicCounts, OrchCounts, DeafInMotion, MicTold, OrchTold, InHand,
         MicOK, CountOK
<1>6. Links' /\ FeasibleIsGranted' /\ SpokenIsGranted'
  BY DEF PublishText, Safe, Links, Link, FeasibleIsGranted, SpokenIsGranted
<1> QED BY <1>1, <1>2, <1>3, <1>4, <1>5, <1>6 DEF Safe

LEMMA TakeTextKeeps ==
  ASSUME IInv, TakeText PROVE IInv'
<1> USE DEF IInv, TypeOK
<1>1. FlagsOK' /\ WiresOK' /\ MicOK' /\ StoreOK' /\ AnsOK' /\ TopicOK' /\ CountOK'
  BY DEF TakeText, FlagsOK, WiresOK, MicOK, StoreOK, AnsOK, TopicOK, CountOK
<1>2. RawOK'
  BY TailBounds DEF TakeText, RawOK
<1>3. NodeOK'
  BY TailBounds DEF TakeText, NodeOK, RawOK
<1>4. Links' /\ Speaking' /\ FeasibleIsGranted' /\ SpokenIsGranted'
  BY DEF TakeText, Safe, Links, Link, Speaking, FeasibleIsGranted, SpokenIsGranted
<1>5. Counts' /\ DeafInMotion'
  BY CountsUndisturbed DEF TakeText
<1> QED BY <1>1, <1>2, <1>3, <1>4, <1>5 DEF Safe

LEMMA IgnoreTextKeeps ==
  ASSUME IInv, IgnoreText PROVE IInv'
<1> USE DEF IInv, TypeOK
<1>1. FlagsOK' /\ WiresOK' /\ MicOK' /\ RawOK' /\ StoreOK' /\ AnsOK' /\ TopicOK' /\ CountOK'
  BY DEF IgnoreText, FlagsOK, WiresOK, MicOK, RawOK, StoreOK, AnsOK, TopicOK, CountOK
<1>2. NodeOK'
  BY DEF IgnoreText, NodeOK
<1>3. Links' /\ Speaking' /\ FeasibleIsGranted' /\ SpokenIsGranted'
  BY DEF IgnoreText, Safe, Links, Link, Speaking, FeasibleIsGranted, SpokenIsGranted
<1>4. Counts' /\ DeafInMotion'
  BY CountsUndisturbed DEF IgnoreText
<1> QED BY <1>1, <1>2, <1>3, <1>4 DEF Safe

LEMMA ClassifyPlainKeeps ==
  ASSUME IInv, ClassifyPlain PROVE IInv'
<1> USE DEF IInv, TypeOK
<1>1. FlagsOK' /\ WiresOK' /\ MicOK' /\ RawOK' /\ StoreOK' /\ AnsOK' /\ CountOK'
  BY DEF ClassifyPlain, FlagsOK, WiresOK, MicOK, RawOK, StoreOK, AnsOK, CountOK
<1>2. NodeOK'
  BY DEF ClassifyPlain, NodeOK
<1>3. TopicOK'
  BY NoneAssumption DEF ClassifyPlain, TopicOK, Plain, Intent, NodeOK
<1>4. SpokenIsGranted'
  BY PlainIsNoRequest DEF ClassifyPlain, SpokenIsGranted, Plain, NodeOK
<1>5. Links' /\ Speaking' /\ FeasibleIsGranted'
  BY DEF ClassifyPlain, Safe, Links, Link, Speaking, FeasibleIsGranted
<1>6. Counts' /\ DeafInMotion'
  BY CountsUndisturbed DEF ClassifyPlain
<1> QED BY <1>1, <1>2, <1>3, <1>4, <1>5, <1>6 DEF Safe

LEMMA ClassifyRequestKeeps ==
  ASSUME IInv, ClassifyRequest PROVE IInv'
<1> USE DEF IInv, TypeOK
<1>1. FlagsOK' /\ WiresOK' /\ MicOK' /\ RawOK' /\ AnsOK' /\ TopicOK' /\ CountOK'
  BY DEF ClassifyRequest, FlagsOK, WiresOK, MicOK, RawOK, AnsOK, TopicOK, CountOK
<1>2. NodeOK'
  BY DEF ClassifyRequest, NodeOK
<1>3. StoreOK'
  BY DEF ClassifyRequest, StoreOK, Request, NodeOK
<1>4. Links' /\ Speaking' /\ FeasibleIsGranted' /\ SpokenIsGranted'
  BY DEF ClassifyRequest, Safe, Links, Link, Speaking, FeasibleIsGranted, SpokenIsGranted
<1>5. Counts' /\ DeafInMotion'
  BY CountsUndisturbed DEF ClassifyRequest
<1> QED BY <1>1, <1>2, <1>3, <1>4, <1>5 DEF Safe

LEMMA ModelFailsKeeps ==
  ASSUME IInv, ModelFails PROVE IInv'
<1> USE DEF IInv, TypeOK
<1>1. FlagsOK' /\ WiresOK' /\ MicOK' /\ RawOK' /\ TopicOK' /\ CountOK'
  BY DEF ModelFails, FlagsOK, WiresOK, MicOK, RawOK, TopicOK, CountOK
<1>2. NodeOK'
  BY DEF ModelFails, NodeOK
<1>3. StoreOK'
  BY DEF ModelFails, StoreOK
<1>4. AnsOK'
  BY DEF ModelFails, AnsOK
<1>5. FeasibleIsGranted'
  BY DEF ModelFails, FeasibleIsGranted
<1>6. Links' /\ Speaking' /\ SpokenIsGranted'
  BY DEF ModelFails, Safe, Links, Link, Speaking, SpokenIsGranted
<1>7. Counts' /\ DeafInMotion'
  BY CountsUndisturbed DEF ModelFails
<1> QED BY <1>1, <1>2, <1>3, <1>4, <1>5, <1>6, <1>7 DEF Safe

LEMMA HandleAnswerKeeps ==
  ASSUME IInv, NEW answer \in answers, HandleAnswer(answer) PROVE IInv'
<1> USE DEF IInv, TypeOK
<1>1. FlagsOK' /\ WiresOK' /\ MicOK' /\ RawOK' /\ NodeOK' /\ StoreOK' /\ CountOK'
  BY DEF HandleAnswer, FlagsOK, WiresOK, MicOK, RawOK, NodeOK, StoreOK, CountOK
<1>2. AnsOK'
  BY DEF HandleAnswer, AnsOK
<1>3. TopicOK'
  BY DEF HandleAnswer, TopicOK, Confirmed, AnsOK, Intent
<1>4. FeasibleIsGranted'
  BY DEF HandleAnswer, FeasibleIsGranted, Safe
<1>5. SpokenIsGranted'
  BY DEF HandleAnswer, SpokenIsGranted, FeasibleIsGranted, Safe, Confirmed
<1>6. Links' /\ Speaking'
  BY DEF HandleAnswer, Safe, Links, Link, Speaking
<1>7. Counts' /\ DeafInMotion'
  BY CountsUndisturbed DEF HandleAnswer
<1> QED BY <1>1, <1>2, <1>3, <1>4, <1>5, <1>6, <1>7 DEF Safe

LEMMA StoreAnswersKeeps ==
  ASSUME IInv, NEW request \in asked, StoreAnswers(request) PROVE IInv'
<1> USE DEF IInv, TypeOK
<1>1. FlagsOK' /\ WiresOK' /\ MicOK' /\ RawOK' /\ NodeOK' /\ TopicOK' /\ CountOK'
  BY DEF StoreAnswers, FlagsOK, WiresOK, MicOK, RawOK, NodeOK, TopicOK, CountOK
<1>2. StoreOK'
  BY DEF StoreAnswers, StoreOK
<1>3. AnsOK'
  BY DEF StoreAnswers, AnsOK, StoreOK
<1>4. FeasibleIsGranted'
  BY DEF StoreAnswers, FeasibleIsGranted, Safe
<1>5. SpokenIsGranted'
  BY DEF StoreAnswers, SpokenIsGranted, Safe
<1>6. Links' /\ Speaking'
  BY DEF StoreAnswers, Safe, Links, Link, Speaking
<1>7. Counts' /\ DeafInMotion'
  BY CountsUndisturbed DEF StoreAnswers
<1> QED BY <1>1, <1>2, <1>3, <1>4, <1>5, <1>6, <1>7 DEF Safe

LEMMA StoreCrashesKeeps ==
  ASSUME IInv, StoreCrashes PROVE IInv'
<1> USE DEF IInv, TypeOK
<1>1. FlagsOK' /\ WiresOK' /\ MicOK' /\ RawOK' /\ AnsOK' /\ TopicOK' /\ CountOK'
  BY DEF StoreCrashes, FlagsOK, WiresOK, MicOK, RawOK, AnsOK, TopicOK, CountOK
<1>2. NodeOK'
  BY DEF StoreCrashes, NodeOK
<1>3. StoreOK'
  BY DEF StoreCrashes, StoreOK
<1>4. Links' /\ Speaking' /\ FeasibleIsGranted' /\ SpokenIsGranted'
  BY DEF StoreCrashes, Safe, Links, Link, Speaking, FeasibleIsGranted, SpokenIsGranted
<1>5. Counts' /\ DeafInMotion'
  BY CountsUndisturbed DEF StoreCrashes
<1> QED BY <1>1, <1>2, <1>3, <1>4, <1>5 DEF Safe

LEMMA StoreReturnsKeeps ==
  ASSUME IInv, StoreReturns PROVE IInv'
<1> USE DEF IInv, TypeOK
<1>1. FlagsOK' /\ WiresOK' /\ MicOK' /\ RawOK' /\ StoreOK' /\ AnsOK' /\ TopicOK' /\ CountOK'
  BY DEF StoreReturns, FlagsOK, WiresOK, MicOK, RawOK, StoreOK, AnsOK, TopicOK, CountOK
<1>2. NodeOK'
  BY DEF StoreReturns, NodeOK
<1>3. Links' /\ Speaking' /\ FeasibleIsGranted' /\ SpokenIsGranted'
  BY DEF StoreReturns, Safe, Links, Link, Speaking, FeasibleIsGranted, SpokenIsGranted
<1>4. Counts' /\ DeafInMotion'
  BY CountsUndisturbed DEF StoreReturns
<1> QED BY <1>1, <1>2, <1>3, <1>4 DEF Safe

LEMMA PanelPublishesKeeps ==
  ASSUME IInv, PanelPublishes PROVE IInv'
<1> USE DEF IInv, TypeOK
<1>1. FlagsOK' /\ WiresOK' /\ MicOK' /\ RawOK' /\ NodeOK' /\ StoreOK' /\ AnsOK' /\ CountOK'
  BY DEF PanelPublishes, FlagsOK, WiresOK, MicOK, RawOK, NodeOK, StoreOK, AnsOK, CountOK
<1>2. TopicOK'
  BY DEF PanelPublishes, TopicOK, Intent
<1>3. SpokenIsGranted'
  BY PlainIsNoRequest DEF PanelPublishes, SpokenIsGranted
<1>4. Links' /\ Speaking' /\ FeasibleIsGranted'
  BY DEF PanelPublishes, Safe, Links, Link, Speaking, FeasibleIsGranted
<1>5. Counts' /\ DeafInMotion'
  BY CountsUndisturbed DEF PanelPublishes
<1> QED BY <1>1, <1>2, <1>3, <1>4, <1>5 DEF Safe

LEMMA TakeIntentKeeps ==
  ASSUME IInv, TakeIntent PROVE IInv'
<1> USE DEF IInv, TypeOK
<1>1. FlagsOK' /\ WiresOK' /\ MicOK' /\ RawOK' /\ NodeOK' /\ StoreOK' /\ AnsOK' /\ CountOK'
  BY DEF TakeIntent, FlagsOK, WiresOK, MicOK, RawOK, NodeOK, StoreOK, AnsOK, CountOK
<1>2. TopicOK'
  BY BoundsAssumption DEF TakeIntent, TopicOK
<1>3. OrchTold => admitted' = admitted
  BY DEF TakeIntent, Safe, Links, Link, OrchTold, Admits
<1>4. Counts' /\ DeafInMotion'
  BY <1>3
     DEF TakeIntent, Safe, Counts, MicCounts, OrchCounts, DeafInMotion, MicTold, OrchTold, InHand
<1>5. SpokenIsGranted'
  BY PlainIsNoRequest DEF TakeIntent, SpokenIsGranted
<1>6. Links' /\ Speaking' /\ FeasibleIsGranted'
  BY DEF TakeIntent, Safe, Links, Link, Speaking, FeasibleIsGranted
<1> QED BY <1>1, <1>2, <1>4, <1>5, <1>6 DEF Safe

LEMMA StartTreeKeeps ==
  ASSUME IInv, StartTree PROVE IInv'
<1> USE DEF IInv, TypeOK
<1>1. FlagsOK' /\ WiresOK' /\ MicOK' /\ RawOK' /\ NodeOK' /\ StoreOK' /\ AnsOK'
  BY DEF StartTree, FlagsOK, WiresOK, MicOK, RawOK, NodeOK, StoreOK, AnsOK
<1>2. TopicOK' /\ CountOK'
  BY BoundsAssumption DEF StartTree, TopicOK, CountOK
<1>3. Counts' /\ DeafInMotion'
  BY BoundsAssumption DEF StartTree, Safe, Counts, MicCounts, OrchCounts, DeafInMotion, MicTold,
         OrchTold, InHand, TopicOK, CountOK
<1>4. Links' /\ Speaking' /\ FeasibleIsGranted' /\ SpokenIsGranted'
  BY DEF StartTree, Safe, Links, Link, Speaking, FeasibleIsGranted, SpokenIsGranted
<1> QED BY <1>1, <1>2, <1>3, <1>4 DEF Safe

LEMMA StutterKeeps == ASSUME IInv, UNCHANGED vars PROVE IInv'
BY DEF vars, IInv, TypeOK, FlagsOK, WiresOK, MicOK, RawOK, NodeOK, StoreOK, AnsOK, TopicOK, CountOK,
       Safe, Links, Link, Speaking, Counts, MicCounts, OrchCounts, MicTold, OrchTold, InHand,
       DeafInMotion, FeasibleIsGranted, SpokenIsGranted

LEMMA IInvInductive == IInv /\ [Next]_vars => IInv'
BY RobotStartsKeeps, RobotStopsKeeps, MicStatusKeeps, OrchStatusKeeps,
   RecordKeeps, EndRecordingKeeps, MicrophoneFailsKeeps, TranscribedKeeps,
   PublishTextKeeps, PanelPublishesKeeps, StartTreeKeeps,
   TakeTextKeeps, IgnoreTextKeeps, ClassifyPlainKeeps, ClassifyRequestKeeps,
   ModelFailsKeeps, HandleAnswerKeeps, StoreAnswersKeeps, StoreCrashesKeeps,
   StoreReturnsKeeps, TakeIntentKeeps, StutterKeeps
   DEF Next, StatusNext, MicNext, NodeNext, StoreNext, OrchNext

----------------------------------------------------------------------------
LEMMA Invariance == Spec => []IInv
BY InitIInv, IInvInductive, PTL DEF Spec

\* Every variable of the pipeline keeps its type, the queue its depth and the
\* orchestrator its number of handlers, for any number of utterances and tools.
THEOREM TypeCorrect == Spec => []TypeOK
<1>1. IInv => TypeOK BY DEF IInv
<1> QED BY <1>1, Invariance, PTL

\* Rule S-7 from the microphone to the orchestrator's door, with the check and the
\* use of each flag apart: once a listener has been told that the arm moves, no
\* text is published and no intent begun there but those past their check by
\* then, for any number of handlers of the orchestrator.
THEOREM MotionIsNotHeard == Spec => []DeafInMotion
<1>1. IInv => DeafInMotion BY DEF IInv, Safe
<1> QED BY <1>1, Invariance, PTL

\* However many requests are at the store, in whatever order it answers and
\* whatever the panels publish between, a fetch or return that was spoken and is
\* on /voice/intent is one that the store granted.
THEOREM OnlyGrantedRequests == Spec => []SpokenIsGranted
<1>1. IInv => SpokenIsGranted BY DEF IInv, Safe
<1> QED BY <1>1, Invariance, PTL

----------------------------------------------------------------------------
(* The panels                                                              *)

\* A page that is not over is a client, unless its browser has left.
Welcome == \A b \in Pages : page[b].here /\ page[b].at \in {"joined", "asked", "open"} => b \in clients

\* Another browser takes a page's name only when no list holds it any more.
Known == \A b \in clients \cup caster.todo \cup caster.dead : page[b].at # "away"

\* The pages the broadcaster will drop have left.
DeadHaveLeft == \A b \in caster.dead : ~page[b].here

PanelsInv == PanelsTypeOK /\ Welcome /\ Known /\ DeadHaveLeft

LEMMA NothingIsAnAnswer == Nothing \in Answers
BY DEF Nothing, Answers

LEMMA InitPanelsInv == PanelsInit => PanelsInv
<1> SUFFICES ASSUME PanelsInit PROVE PanelsInv
  OBVIOUS
<1>1. WorldOK
  BY ConstantsAssumption DEF PanelsInit, WorldOK
<1>2. PagesOK
  BY NothingIsAnAnswer DEF PanelsInit, PagesOK, Page, Away
<1>3. CasterOK
  BY ConstantsAssumption DEF PanelsInit, CasterOK, Silent
<1>4. PollerOK
  BY NothingIsAnAnswer DEF PanelsInit, PollerOK
<1>5. StatusOK
  <2>1. <<>> \in Seq(Answers) /\ Len(<<>>) = 0
    OBVIOUS
  <2> QED BY <2>1, NothingIsAnAnswer, ConstantsAssumption DEF PanelsInit, StatusOK
<1>6. Welcome /\ Known /\ DeadHaveLeft
  BY DEF PanelsInit, Welcome, Known, DeadHaveLeft, Away, Silent
<1> QED BY <1>1, <1>2, <1>3, <1>4, <1>5, <1>6 DEF PanelsInv, PanelsTypeOK

\* What a query answers, and what a page shows once it was sent an answer.
LEMMA QueryAnswers ==
  ASSUME WorldOK, NEW answer, Query(answer)
  PROVE  answer \in Answers /\ failures' \in 0..MaxFailures
BY ConstantsAssumption DEF WorldOK, Query, Answers, Nothing

LEMMA ReceiveKeeps ==
  ASSUME PagesOK, NEW b \in Pages, NEW answer \in Answers
  PROVE  /\ Receive(b, answer) \in [Pages -> Page]
         /\ \A p \in Pages : /\ Receive(b, answer)[p].at = page[p].at
                             /\ Receive(b, answer)[p].here = page[p].here
BY DEF PagesOK, Receive, Page

----------------------------------------------------------------------------
(* The panels, one lemma per action: what it leaves alone, then what it disturbs   *)

LEMMA ChangeKeeps ==
  ASSUME PanelsInv, Change
  PROVE  PanelsInv'
<1> USE DEF PanelsInv, PanelsTypeOK
<1>1. WorldOK'
  BY ConstantsAssumption DEF Change, WorldOK
<1>2. PagesOK' /\ CasterOK' /\ PollerOK' /\ StatusOK'
  BY DEF Change, PagesOK, CasterOK, PollerOK, StatusOK
<1>3. Welcome' /\ Known' /\ DeadHaveLeft'
  BY DEF Change, Welcome, Known, DeadHaveLeft
<1> QED BY <1>1, <1>2, <1>3

LEMMA LeaveKeeps ==
  ASSUME PanelsInv, NEW b \in Pages, Leave(b)
  PROVE  PanelsInv'
<1> USE DEF PanelsInv, PanelsTypeOK
<1>1. WorldOK' /\ CasterOK' /\ PollerOK' /\ StatusOK'
  BY DEF Leave, WorldOK, CasterOK, PollerOK, StatusOK
<1>2. PagesOK'
  BY NothingIsAnAnswer DEF Leave, PagesOK, Page
<1>3. Welcome' /\ Known' /\ DeadHaveLeft'
  BY DEF Leave, PagesOK, Page, CasterOK, Welcome, Known, DeadHaveLeft
<1> QED BY <1>1, <1>2, <1>3

LEMMA ForgottenKeeps ==
  ASSUME PanelsInv, NEW b \in Pages, Forgotten(b)
  PROVE  PanelsInv'
<1> USE DEF PanelsInv, PanelsTypeOK
<1>1. WorldOK' /\ CasterOK' /\ PollerOK' /\ StatusOK'
  BY DEF Forgotten, WorldOK, CasterOK, PollerOK, StatusOK
<1>2. PagesOK'
  BY NothingIsAnAnswer DEF Forgotten, PagesOK, Page, Away
<1>3. Welcome' /\ Known' /\ DeadHaveLeft'
  BY DEF Forgotten, PagesOK, Page, CasterOK, Away, Welcome, Known, DeadHaveLeft
<1> QED BY <1>1, <1>2, <1>3

LEMMA ConnectKeeps ==
  ASSUME PanelsInv, NEW b \in Pages, Connect(b)
  PROVE  PanelsInv'
<1> USE DEF PanelsInv, PanelsTypeOK
<1>1. WorldOK' /\ CasterOK' /\ PollerOK' /\ StatusOK'
  BY DEF Connect, WorldOK, CasterOK, PollerOK, StatusOK
<1>2. PagesOK'
  BY DEF Connect, PagesOK, Page
<1>3. Welcome' /\ Known' /\ DeadHaveLeft'
  BY DEF Connect, PagesOK, Page, CasterOK, Welcome, Known, DeadHaveLeft
<1> QED BY <1>1, <1>2, <1>3

LEMMA FirstQueryKeeps ==
  ASSUME PanelsInv, NEW b \in Pages, FirstQuery(b)
  PROVE  PanelsInv'
<1> USE DEF PanelsInv, PanelsTypeOK
<1>1. WorldOK' /\ PagesOK'
  <2>1. PICK answer \in Answers :
          Query(answer) /\ page' = [page EXCEPT ![b].at = "asked", ![b].first = answer]
    BY DEF FirstQuery
  <2>2. WorldOK'
    BY <2>1, QueryAnswers DEF FirstQuery, WorldOK
  <2>3. clients' = clients /\ page[b] \in Page
    BY DEF FirstQuery, PagesOK
  <2>4. [page[b] EXCEPT !.at = "asked", !.first = answer] \in Page
    BY <2>3 DEF Page
  <2>5. page' = [page EXCEPT ![b] = [page[b] EXCEPT !.at = "asked", !.first = answer]]
    BY <2>1 DEF PagesOK
  <2>6. PagesOK'
    BY <2>3, <2>4, <2>5 DEF PagesOK
  <2> QED BY <2>2, <2>6
<1>2. CasterOK' /\ PollerOK' /\ StatusOK'
  BY DEF FirstQuery, CasterOK, PollerOK, StatusOK
<1>3. Welcome' /\ Known' /\ DeadHaveLeft'
  BY DEF FirstQuery, PagesOK, Page, CasterOK, Welcome, Known, DeadHaveLeft
<1> QED BY <1>1, <1>2, <1>3

LEMMA GreetKeeps ==
  ASSUME PanelsInv, NEW b \in Pages, Greet(b)
  PROVE  PanelsInv'
<1> USE DEF PanelsInv, PanelsTypeOK
<1>1. WorldOK' /\ CasterOK' /\ PollerOK' /\ StatusOK'
  BY DEF Greet, WorldOK, CasterOK, PollerOK, StatusOK
<1>2. /\ PagesOK'
      /\ \A p \in Pages : /\ page'[p].here = page[p].here
                          /\ \/ page'[p].at = page[p].at
                             \/ page[p].at = "asked" /\ page'[p].at \in {"open", "over"}
  <2>1. page[b].first \in Answers
    BY DEF PagesOK, Page
  <2> page[b].at = "asked" /\ clients' = clients
    BY DEF Greet
  <2>2. CASE page' = [Receive(b, page[b].first) EXCEPT ![b].at = "open", ![b].first = Nothing]
    <3> DEFINE shown == Receive(b, page[b].first)
    <3>1. /\ shown \in [Pages -> Page]
          /\ \A p \in Pages : shown[p].at = page[p].at /\ shown[p].here = page[p].here
      BY <2>1, ReceiveKeeps
    <3>2. page' = [shown EXCEPT ![b].at = "open", ![b].first = Nothing]
      BY <2>2
    <3> HIDE DEF shown
    <3>3. page' = [shown EXCEPT ![b] = [shown[b] EXCEPT !.at = "open", !.first = Nothing]]
      BY <3>1, <3>2
    <3>4. /\ [shown[b] EXCEPT !.at = "open", !.first = Nothing] \in Page
          /\ [shown[b] EXCEPT !.at = "open", !.first = Nothing].at = "open"
          /\ [shown[b] EXCEPT !.at = "open", !.first = Nothing].here = shown[b].here
      BY <3>1, NothingIsAnAnswer DEF Page
    <3> QED BY <3>1, <3>3, <3>4 DEF PagesOK
  <2>3. CASE page' = [page EXCEPT ![b].at = "over", ![b].first = Nothing]
    BY <2>3, NothingIsAnAnswer DEF PagesOK, Page
  <2> QED BY <2>2, <2>3 DEF Greet
<1>3. Welcome' /\ Known' /\ DeadHaveLeft'
  BY <1>2 DEF Greet, PagesOK, CasterOK, Welcome, Known, DeadHaveLeft
<1> QED BY <1>1, <1>2, <1>3

LEMMA EndpointEndsKeeps ==
  ASSUME PanelsInv, NEW b \in Pages, EndpointEnds(b)
  PROVE  PanelsInv'
<1> USE DEF PanelsInv, PanelsTypeOK
<1>1. WorldOK' /\ CasterOK' /\ PollerOK' /\ StatusOK'
  BY DEF EndpointEnds, WorldOK, CasterOK, PollerOK, StatusOK
<1>2. PagesOK'
  BY DEF EndpointEnds, PagesOK, Page
<1>3. Welcome' /\ Known' /\ DeadHaveLeft'
  BY DEF EndpointEnds, PagesOK, Page, CasterOK, Welcome, Known, DeadHaveLeft
<1> QED BY <1>1, <1>2, <1>3

LEMMA EmitKeeps ==
  ASSUME PanelsInv, Emit
  PROVE  PanelsInv'
<1> USE DEF PanelsInv, PanelsTypeOK
<1>1. WorldOK' /\ PagesOK' /\ PollerOK' /\ StatusOK'
  BY DEF Emit, WorldOK, PagesOK, PollerOK, StatusOK
<1>2. CasterOK'
  BY ConstantsAssumption DEF Emit, CasterOK
<1>3. Welcome' /\ Known' /\ DeadHaveLeft'
  BY DEF Emit, Welcome, Known, DeadHaveLeft
<1> QED BY <1>1, <1>2, <1>3

LEMMA CastStartsKeeps ==
  ASSUME PanelsInv, CastStarts
  PROVE  PanelsInv'
<1> USE DEF PanelsInv, PanelsTypeOK
<1>1. WorldOK' /\ PagesOK' /\ PollerOK' /\ StatusOK'
  BY DEF CastStarts, WorldOK, PagesOK, PollerOK, StatusOK
<1>2. CasterOK'
  BY ConstantsAssumption DEF CastStarts, CasterOK, PagesOK
<1>3. Welcome' /\ Known' /\ DeadHaveLeft'
  BY DEF CastStarts, Welcome, Known, DeadHaveLeft
<1> QED BY <1>1, <1>2, <1>3

LEMMA CastsKeeps ==
  ASSUME PanelsInv, NEW b \in Pages, Casts(b)
  PROVE  PanelsInv'
<1> USE DEF PanelsInv, PanelsTypeOK
<1>1. WorldOK' /\ PagesOK' /\ PollerOK' /\ StatusOK'
  BY DEF Casts, WorldOK, PagesOK, PollerOK, StatusOK
<1>2. /\ CasterOK'
      /\ caster'.todo \subseteq caster.todo
      /\ \A p \in caster'.dead : p \in caster.dead \/ (p = b /\ b \in caster.todo /\ ~page[b].here)
  BY DEF Casts, Raised, CasterOK
<1>3. page' = page /\ clients' = clients
  BY DEF Casts
<1>4. Welcome' /\ Known' /\ DeadHaveLeft'
  BY <1>2, <1>3 DEF Welcome, Known, DeadHaveLeft
<1> QED BY <1>1, <1>2, <1>3, <1>4

LEMMA CastEndsKeeps ==
  ASSUME PanelsInv, CastEnds
  PROVE  PanelsInv'
<1> USE DEF PanelsInv, PanelsTypeOK
<1>1. WorldOK' /\ PagesOK' /\ PollerOK' /\ StatusOK'
  BY DEF CastEnds, WorldOK, PagesOK, PollerOK, StatusOK
<1>2. CasterOK'
  BY DEF CastEnds, CasterOK, Silent
<1>3. Welcome' /\ Known' /\ DeadHaveLeft'
  BY DEF CastEnds, Silent, CasterOK, Welcome, Known, DeadHaveLeft
<1> QED BY <1>1, <1>2, <1>3

LEMMA PollQueriesKeeps ==
  ASSUME PanelsInv, PollQueries
  PROVE  PanelsInv'
<1> USE DEF PanelsInv, PanelsTypeOK
<1>1. WorldOK' /\ PollerOK'
  <2>1. PICK answer \in Answers :
          Query(answer) /\ poller' = [poller EXCEPT !.at = "read", !.data = answer]
    BY DEF PollQueries
  <2>2. WorldOK'
    BY <2>1, QueryAnswers DEF PollQueries, WorldOK
  <2>3. PollerOK'
    BY <2>1 DEF PollerOK
  <2> QED BY <2>2, <2>3
<1>2. PagesOK' /\ CasterOK' /\ StatusOK'
  BY DEF PollQueries, PagesOK, CasterOK, StatusOK
<1>3. Welcome' /\ Known' /\ DeadHaveLeft'
  BY DEF PollQueries, Welcome, Known, DeadHaveLeft
<1> QED BY <1>1, <1>2, <1>3

LEMMA PollAnsweredKeeps ==
  ASSUME PanelsInv, PollAnswered
  PROVE  PanelsInv'
<1> USE DEF PanelsInv, PanelsTypeOK
<1>1. WorldOK' /\ PagesOK' /\ CasterOK' /\ StatusOK'
  BY DEF PollAnswered, WorldOK, PagesOK, CasterOK, StatusOK
<1>2. PollerOK'
  BY DEF PollAnswered, PollerOK, PagesOK, Audience
<1>3. Welcome' /\ Known' /\ DeadHaveLeft'
  BY DEF PollAnswered, Welcome, Known, DeadHaveLeft
<1> QED BY <1>1, <1>2, <1>3

LEMMA PollSendsKeeps ==
  ASSUME PanelsInv, NEW b \in Pages, PollSends(b)
  PROVE  PanelsInv'
<1> USE DEF PanelsInv, PanelsTypeOK
<1>1. WorldOK' /\ CasterOK' /\ StatusOK'
  BY DEF PollSends, WorldOK, CasterOK, StatusOK
<1>2. PollerOK' /\ poller.data \in Answers
  BY DEF PollSends, PollerOK
<1>3. /\ PagesOK'
      /\ \A p \in Pages : page'[p].at = page[p].at /\ page'[p].here = page[p].here
  BY <1>2, ReceiveKeeps DEF PollSends, PagesOK
<1>4. Welcome' /\ Known' /\ DeadHaveLeft'
  BY <1>3 DEF PollSends, PagesOK, CasterOK, Welcome, Known, DeadHaveLeft
<1> QED BY <1>1, <1>2, <1>3, <1>4

LEMMA PollEndsKeeps ==
  ASSUME PanelsInv, PollEnds
  PROVE  PanelsInv'
<1> USE DEF PanelsInv, PanelsTypeOK
<1>1. WorldOK' /\ PagesOK' /\ CasterOK' /\ StatusOK'
  BY DEF PollEnds, WorldOK, PagesOK, CasterOK, StatusOK
<1>2. PollerOK'
  BY NothingIsAnAnswer DEF PollEnds, PollerOK
<1>3. Welcome' /\ Known' /\ DeadHaveLeft'
  BY DEF PollEnds, Welcome, Known, DeadHaveLeft
<1> QED BY <1>1, <1>2, <1>3

LEMMA PollDbKeeps ==
  ASSUME PanelsInv, PollDb
  PROVE  PanelsInv'
<1> USE DEF PanelsInv, PanelsTypeOK
<1>1. WorldOK' /\ StatusOK'
  <2>1. PICK answer \in Answers :
          Query(answer) /\ status' = IF answer = Nothing THEN status ELSE answer
    BY DEF PollDb
  <2>2. WorldOK'
    BY <2>1, QueryAnswers DEF PollDb, WorldOK
  <2>3. StatusOK'
    BY <2>1 DEF PollDb, StatusOK
  <2> QED BY <2>2, <2>3
<1>2. PagesOK' /\ CasterOK' /\ PollerOK'
  BY DEF PollDb, PagesOK, CasterOK, PollerOK
<1>3. Welcome' /\ Known' /\ DeadHaveLeft'
  BY DEF PollDb, Welcome, Known, DeadHaveLeft
<1> QED BY <1>1, <1>2, <1>3

LEMMA BroadcastStateKeeps ==
  ASSUME PanelsInv, BroadcastState
  PROVE  PanelsInv'
<1> USE DEF PanelsInv, PanelsTypeOK
<1>1. WorldOK' /\ PagesOK' /\ CasterOK' /\ PollerOK'
  BY DEF BroadcastState, WorldOK, PagesOK, CasterOK, PollerOK
<1>2. StatusOK'
  <2> SUFFICES ASSUME NEW b \in Pages
               PROVE  sends'[b] \in Seq(Answers) /\ Len(sends'[b]) <= MaxSends
    BY DEF BroadcastState, StatusOK
  <2>1. sends[b] \in Seq(Answers) /\ Len(sends[b]) <= MaxSends /\ status \in Answers
    BY DEF StatusOK
  <2>2. CASE b \in clients
    <3>1. Len(sends[b]) < MaxSends /\ sends'[b] = Append(sends[b], status)
      BY <2>2 DEF BroadcastState
    <3> QED BY <3>1, <2>1, ConstantsAssumption
  <2>3. CASE b \notin clients
    BY <2>1, <2>3 DEF BroadcastState
  <2> QED BY <2>2, <2>3
<1>3. Welcome' /\ Known' /\ DeadHaveLeft'
  BY DEF BroadcastState, Welcome, Known, DeadHaveLeft
<1> QED BY <1>1, <1>2, <1>3

LEMMA SendDoneKeeps ==
  ASSUME PanelsInv, NEW b \in Pages, SendDone(b)
  PROVE  PanelsInv'
<1> USE DEF PanelsInv, PanelsTypeOK
<1>1. WorldOK' /\ CasterOK' /\ PollerOK'
  BY DEF SendDone, WorldOK, CasterOK, PollerOK
<1>2. StatusOK' /\ Head(sends[b]) \in Answers
  <2>1. /\ Head(sends[b]) \in Answers /\ Tail(sends[b]) \in Seq(Answers)
        /\ Len(Tail(sends[b])) <= MaxSends
    BY ConstantsAssumption DEF StatusOK, SendDone
  <2> QED BY <2>1 DEF StatusOK, SendDone
<1>3. /\ PagesOK'
      /\ \A p \in Pages : page'[p].at = page[p].at /\ page'[p].here = page[p].here
  BY <1>2, ReceiveKeeps DEF SendDone, PagesOK, WithoutTheDead
<1>4. /\ clients' \subseteq clients /\ \A p \in clients \ clients' : ~page[p].here
  BY DEF SendDone, WithoutTheDead, Raised
<1>5. Welcome' /\ Known' /\ DeadHaveLeft'
  BY <1>3, <1>4 DEF SendDone, PagesOK, CasterOK, Welcome, Known, DeadHaveLeft
<1> QED BY <1>1, <1>2, <1>3, <1>4, <1>5

LEMMA PanelsStutterKeeps == ASSUME PanelsInv, UNCHANGED panelsVars PROVE PanelsInv'
BY DEF panelsVars, PanelsInv, PanelsTypeOK, WorldOK, PagesOK, CasterOK, PollerOK, StatusOK,
       Welcome, Known, DeadHaveLeft

LEMMA PanelsInvInductive == PanelsInv /\ [PanelsNext]_panelsVars => PanelsInv'
BY ChangeKeeps, LeaveKeeps, ForgottenKeeps, ConnectKeeps,
   FirstQueryKeeps, GreetKeeps, EndpointEndsKeeps, EmitKeeps,
   CastStartsKeeps, CastsKeeps, CastEndsKeeps, PollQueriesKeeps,
   PollAnsweredKeeps, PollSendsKeeps, PollEndsKeeps, PollDbKeeps,
   BroadcastStateKeeps, SendDoneKeeps, PanelsStutterKeeps
   DEF PanelsNext, Endpoint, Broadcaster, Poller

LEMMA PanelsInvariance == PanelsSpec => []PanelsInv
<1>1. PanelsInv /\ [PanelsNext]_panelsVars => PanelsInv'
  BY PanelsInvInductive
<1> QED BY InitPanelsInv, <1>1, PTL DEF PanelsSpec

\* The types of the panels' state, among them that the broadcaster holds pages
\* only while it sends, and none of them twice.
THEOREM PanelsTypeCorrect == PanelsSpec => []PanelsTypeOK
<1>1. PanelsInv => PanelsTypeOK BY DEF PanelsInv
<1> QED BY PanelsInvariance, <1>1, PTL

\* However pages come and go while messages are on their way to them, and
\* whichever send ends first, a page that is looked at stays a client.
THEOREM LookedAtIsServed == PanelsSpec => []OpenPagesAreServed
<1>1. PanelsInv => OpenPagesAreServed
  BY DEF PanelsInv, Welcome, OpenPagesAreServed, Served
<1> QED BY PanelsInvariance, <1>1, PTL
================================================================================

----------------------- MODULE ToolActionServerProofs -----------------------
(***************************************************************************)
(* What the runs of ToolActionServer check for two requests, proved for    *)
(* any number of them: the invariants follow from one inductive invariant, *)
(* IInv, whose first part is the discipline of _action_lock.               *)
(***************************************************************************)
EXTENDS ToolActionServer, TLAPS

\* The lock belongs to the one request that is inside its body.
LockDiscipline == \A j \in Jobs : jobs[j].at \in Locked <=> lock = j

\* A late step is one begun under the latch, and no further one is on its way.
LateMeans ==
  \A j \in Jobs :
    /\ jobs[j].late \in {0, 1}
    /\ jobs[j].late = 1 => latch /\ jobs[j].at # "checked"
    /\ jobs[j].at \notin Locked => jobs[j].late = 0

\* Where a request is in its plan.
Progress ==
  \A j \in Jobs :
    /\ jobs[j].at = "accepted" => jobs[j].step = 1
    /\ jobs[j].at \in Running \cup {"accepted"} => ~jobs[j].ok
    /\ jobs[j].at \in {"checked", "executing"} => StepsLeft(j)

\* Only a hand-over has _grip_taken set, from its start to its finally block.
GripTakenIsOwned ==
  gripTaken => \E j \in Jobs : /\ lock = j
                               /\ jobs[j].kind \in HandOver
                               /\ jobs[j].at \in Running \cup {"ended", "closing"}

\* No grip or release of the tool is left in j's plan from its step s on.
SettledFrom(kind, s) ==
  \A i \in 1..Len(Plan(kind)) : i >= s => Plan(kind)[i] \notin {"grip", "release"}

\* Past its last release a sequence is empty-handed.
SettledIsEmpty ==
  \A j \in Jobs :
    jobs[j].at \in Running /\ SettledFrom(jobs[j].kind, jobs[j].step)
      => ~held /\ ~gripTaken

IInv ==
  /\ TypeOK
  /\ LockDiscipline
  /\ LateMeans
  /\ Progress
  /\ GripTakenIsOwned
  /\ SettledIsEmpty
  /\ AnnouncedWhileRunning
  /\ SuccessMeansEmptyHanded

----------------------------------------------------------------------------
(* The plans *)

\* Every plan releases the tool, and does so again after every grip of it.
LEMMA PlanFacts ==
  ASSUME NEW kind \in Kinds
  PROVE  /\ Len(Plan(kind)) \in 1..16
         /\ ~SettledFrom(kind, 1)
         /\ \A i \in 1..Len(Plan(kind)) :
              Plan(kind)[i] = "grip" => ~SettledFrom(kind, i + 1)
<1>1. CASE kind = "deliver"
  <2>1. Len(Plan(kind)) = 16 /\ Plan(kind)[15] = "release"
    BY <1>1 DEF Plan
  <2>2. Plan(kind)[16] # "grip"  BY <1>1 DEF Plan
  <2>3. QED  BY <2>1, <2>2 DEF SettledFrom
<1>2. CASE kind = "handover"
  <2>1. Len(Plan(kind)) = 9 /\ Plan(kind)[8] = "release"
    BY <1>2 DEF Plan
  <2>2. Plan(kind)[9] # "grip"  BY <1>2 DEF Plan
  <2>3. QED  BY <2>1, <2>2 DEF SettledFrom
<1>3. CASE kind = "handover_test"
  <2>1. Len(Plan(kind)) = 2 /\ Plan(kind)[1] = "move" /\ Plan(kind)[2] = "release"
    BY <1>3 DEF Plan
  <2>2. QED  BY <2>1 DEF SettledFrom
<1>4. CASE kind = "home"
  <2>1. Len(Plan(kind)) = 2 /\ Plan(kind)[1] = "release" /\ Plan(kind)[2] = "move"
    BY <1>4 DEF Plan
  <2>2. QED  BY <2>1 DEF SettledFrom
<1>5. CASE kind = "toolbox"
  <2>1. Len(Plan(kind)) = 6 /\ Plan(kind)[5] = "release"
    BY <1>5 DEF Plan
  <2>2. Plan(kind)[6] # "grip"  BY <1>5 DEF Plan
  <2>3. QED  BY <2>1, <2>2 DEF SettledFrom
<1>6. QED  BY <1>1, <1>2, <1>3, <1>4, <1>5 DEF Kinds, Goals, Services

\* A step that is no grip and no release does not settle anything new.
LEMMA SettledBefore ==
  ASSUME NEW kind \in Kinds, NEW s \in 1..Len(Plan(kind)),
         SettledFrom(kind, s + 1), Plan(kind)[s] \notin {"grip", "release"}
  PROVE  SettledFrom(kind, s)
BY PlanFacts DEF SettledFrom

----------------------------------------------------------------------------
(* The inductive invariant *)

\* The record of a free place is a job's.
LEMMA RestIsJob == Rest \in Job
BY DEF Rest, Job, Places, Kinds, Services

\* It holds when the node starts.
LEMMA InitHolds == Init => IInv
<1> SUFFICES ASSUME Init  PROVE IInv
  OBVIOUS
<1>1. TypeOK  BY RestIsJob DEF Init, TypeOK
<1>2. LockDiscipline /\ LateMeans
  BY NamesAssumption DEF Init, Rest, Locked, Running, LockDiscipline, LateMeans
<1>3. Progress /\ GripTakenIsOwned
  BY DEF Init, Rest, Running, Progress, GripTakenIsOwned
<1>4. SettledIsEmpty /\ AnnouncedWhileRunning /\ SuccessMeansEmptyHanded
  BY DEF Init, Rest, Running, SettledIsEmpty, AnnouncedWhileRunning, SuccessMeansEmptyHanded
<1>5. QED  BY <1>1, <1>2, <1>3, <1>4 DEF IInv

\* Whether a request begins, is refused or is cancelled.
LEMMA RequestsKeep ==
  ASSUME IInv, NEW j \in Jobs,
         (\E kind \in Kinds : Accept(j, kind)) \/ Busy(j) \/ Start(j) \/ Cancel(j)
  PROVE  IInv'
<1> USE NamesAssumption DEF IInv
<1>1. ASSUME NEW kind \in Kinds, Accept(j, kind)  PROVE IInv'
  <2>1. TypeOK'
    <3>1. [Rest EXCEPT !.at = "accepted", !.kind = kind] \in Job
      BY RestIsJob DEF Job, Places
    <3>2. jobs' \in [Jobs -> Job]  BY <1>1, <3>1 DEF Accept, TypeOK
    <3>3. QED  BY <1>1, <3>2 DEF Accept, TypeOK
  <2>2. LockDiscipline' /\ LateMeans'
    BY <1>1 DEF Accept, TypeOK, Job, Rest, Locked, Running, LockDiscipline, LateMeans
  <2>3. Progress'
    BY <1>1 DEF Accept, TypeOK, Job, Rest, Running, Progress, StepsLeft
  <2>4. GripTakenIsOwned'
    BY <1>1 DEF Accept, TypeOK, Job, Rest, Running, GripTakenIsOwned
  <2>5. SettledIsEmpty'
    BY <1>1 DEF Accept, TypeOK, Job, Rest, Running, SettledIsEmpty
  <2>6. AnnouncedWhileRunning'
    BY <1>1 DEF Accept, TypeOK, Job, Rest, Running, AnnouncedWhileRunning
  <2>7. SuccessMeansEmptyHanded'
    BY <1>1 DEF Accept, TypeOK, Job, Rest, Running, Locked, LockDiscipline,
       SuccessMeansEmptyHanded
  <2>8. QED  BY <2>1, <2>2, <2>3, <2>4, <2>5, <2>6, <2>7
<1>2. CASE Busy(j)
  <2>1. TypeOK'
    <3>1. jobs' \in [Jobs -> Job]
      BY <1>2, RestIsJob DEF Busy, TypeOK, Job, Places, Locked, Running
    <3>2. QED  BY <1>2, <3>1 DEF Busy, TypeOK
  <2>2. LockDiscipline' /\ LateMeans'
    BY <1>2 DEF Busy, TypeOK, Job, Rest, Locked, Running, LockDiscipline, LateMeans
  <2>3. Progress'
    BY <1>2 DEF Busy, TypeOK, Job, Rest, Running, Progress, StepsLeft
  <2>4. GripTakenIsOwned'
    BY <1>2 DEF Busy, TypeOK, Job, Rest, Running, GripTakenIsOwned
  <2>5. SettledIsEmpty'
    BY <1>2 DEF Busy, TypeOK, Job, Rest, Running, SettledIsEmpty
  <2>6. AnnouncedWhileRunning'
    BY <1>2 DEF Busy, TypeOK, Job, Rest, Running, AnnouncedWhileRunning
  <2>7. SuccessMeansEmptyHanded'
    BY <1>2 DEF Busy, TypeOK, Job, Rest, Running, Locked, LockDiscipline,
       SuccessMeansEmptyHanded
  <2>8. QED  BY <2>1, <2>2, <2>3, <2>4, <2>5, <2>6, <2>7
<1>3. CASE Start(j)
  <2>1. TypeOK'
    <3>1. "between" \in Places  BY DEF Places, Locked, Running
    <3>2. jobs' \in [Jobs -> Job]  BY <1>3, <3>1 DEF Start, Go, TypeOK, Job
    <3>3. QED  BY <1>3, <3>2 DEF Start, Go, TypeOK
  <2>2. LockDiscipline' /\ LateMeans'
    BY <1>3 DEF Start, Go, TypeOK, Job, Rest, Locked, Running, LockDiscipline, LateMeans
  <2>3. Progress'
    BY <1>3 DEF Start, Go, TypeOK, Job, Rest, Running, Progress, StepsLeft
  <2>4. GripTakenIsOwned'
    BY <1>3 DEF Start, Go, TypeOK, Job, Rest, Running, GripTakenIsOwned
  <2>5. SettledIsEmpty'
    <3>1. jobs[j].step = 1 /\ jobs[j].kind \in Kinds
      BY <1>3 DEF Start, Go, Progress, TypeOK, Job
    <3>2. ~SettledFrom(jobs[j].kind, 1)  BY <3>1, PlanFacts
    <3>3. \A i \in Jobs \ {j} : jobs[i].at \notin Locked
      BY <1>3 DEF Start, Go, LockDiscipline
    <3>4. QED  BY <1>3, <3>1, <3>2, <3>3 DEF Start, Go, SettledIsEmpty, TypeOK, Locked, Running
  <2>6. AnnouncedWhileRunning'
    BY <1>3 DEF Start, Go, TypeOK, Job, Rest, Running, AnnouncedWhileRunning
  <2>7. SuccessMeansEmptyHanded'
    BY <1>3 DEF Start, Go, TypeOK, Job, Rest, Running, Locked, LockDiscipline,
       SuccessMeansEmptyHanded
  <2>8. QED  BY <2>1, <2>2, <2>3, <2>4, <2>5, <2>6, <2>7
<1>4. CASE Cancel(j)
  <2>1. TypeOK'
    <3>1. jobs' \in [Jobs -> Job]
      BY ZenonT(60), <1>4 DEF Cancel, TypeOK, Job, Places, Locked, Running
    <3>2. QED  BY <1>4, <3>1 DEF Cancel, TypeOK
  <2>2. LockDiscipline' /\ LateMeans'
    BY <1>4 DEF Cancel, TypeOK, Job, Rest, Locked, Running, LockDiscipline, LateMeans
  <2>3. Progress'
    BY <1>4 DEF Cancel, TypeOK, Job, Rest, Running, Progress, StepsLeft
  <2>4. GripTakenIsOwned'
    BY <1>4 DEF Cancel, TypeOK, Job, Rest, Running, GripTakenIsOwned
  <2>5. SettledIsEmpty'
    BY <1>4 DEF Cancel, TypeOK, Job, Rest, Running, SettledIsEmpty
  <2>6. AnnouncedWhileRunning'
    BY <1>4 DEF Cancel, TypeOK, Job, Rest, Running, AnnouncedWhileRunning
  <2>7. SuccessMeansEmptyHanded'
    BY <1>4 DEF Cancel, TypeOK, Job, Rest, Running, Locked, LockDiscipline,
       SuccessMeansEmptyHanded
  <2>8. QED  BY <2>1, <2>2, <2>3, <2>4, <2>5, <2>6, <2>7
<1>5. QED  BY <1>1, <1>2, <1>3, <1>4

\* A failed step leaves the gripper with or without the tool.
LEMMA FailureTypes ==
  ASSUME TypeOK, NEW j \in Jobs
  PROVE  HeldAfterFailure(j) \subseteq BOOLEAN
BY DEF HeldAfterFailure, TypeOK

\* The loop over the steps.
LEMMA SequenceKeeps ==
  ASSUME IInv, NEW j \in Jobs,
         Check(j) \/ BeginStep(j) \/ StepSucceeds(j) \/ StepFails(j)
  PROVE  IInv'
<1> USE NamesAssumption DEF IInv
<1>1. CASE Check(j)
  <2>1. TypeOK'
    <3>1. jobs' \in [Jobs -> Job]
      BY <1>1 DEF Check, Go, TypeOK, Job, Places, Locked, Running
    <3>2. QED  BY <1>1, <3>1 DEF Check, TypeOK
  <2>2. LockDiscipline' /\ LateMeans'
    BY <1>1 DEF Check, Go, TypeOK, Job, Rest, Locked, Running, LockDiscipline, LateMeans
  <2>3. Progress'
    BY <1>1 DEF Check, Go, TypeOK, Job, Rest, Running, Progress, StepsLeft
  <2>4. GripTakenIsOwned'
    BY <1>1 DEF Check, Go, TypeOK, Job, Rest, Running, GripTakenIsOwned
  <2>5. SettledIsEmpty'
    BY <1>1 DEF Check, Go, TypeOK, Job, Rest, Running, SettledIsEmpty
  <2>6. AnnouncedWhileRunning'
    BY <1>1 DEF Check, Go, TypeOK, Job, Rest, Running, Locked, LockDiscipline,
       AnnouncedWhileRunning
  <2>7. SuccessMeansEmptyHanded'
    <3>1. StepsLeft(j) \/ SettledFrom(jobs[j].kind, jobs[j].step)
      <4>1. jobs[j].kind \in Kinds /\ jobs[j].step \in Nat  BY DEF TypeOK, Job
      <4>2. Len(Plan(jobs[j].kind)) \in Nat  BY <4>1, PlanFacts
      <4>3. QED  BY <4>1, <4>2 DEF StepsLeft, SettledFrom
    <3>2. ~StepsLeft(j) => ~held /\ ~gripTaken
      BY <1>1, <3>1 DEF Check, SettledIsEmpty, Running
    <3>3. QED
      BY <1>1, <3>2 DEF Check, Go, TypeOK, Job, Running, Progress, SuccessMeansEmptyHanded
  <2>8. QED  BY <2>1, <2>2, <2>3, <2>4, <2>5, <2>6, <2>7
<1>2. CASE BeginStep(j)
  <2>1. TypeOK'
    <3>1. jobs' \in [Jobs -> Job]
      <4>1. "executing" \in Places  BY DEF Places, Locked, Running
      <4>2. (IF latch THEN jobs[j].late + 1 ELSE jobs[j].late) \in Nat
        BY DEF TypeOK, Job
      <4>3. QED  BY ZenonT(60), <1>2, <4>1, <4>2 DEF BeginStep, TypeOK, Job
    <3>2. QED  BY <1>2, <3>1 DEF BeginStep, TypeOK
  <2>2. LockDiscipline' /\ LateMeans'
    BY <1>2 DEF BeginStep, Go, TypeOK, Job, Rest, Locked, Running, LockDiscipline, LateMeans
  <2>3. Progress'
    BY <1>2 DEF BeginStep, Go, TypeOK, Job, Rest, Running, Progress, StepsLeft
  <2>4. GripTakenIsOwned'
    BY <1>2 DEF BeginStep, Go, TypeOK, Job, Rest, Running, GripTakenIsOwned
  <2>5. SettledIsEmpty'
    BY <1>2 DEF BeginStep, Go, TypeOK, Job, Rest, Running, SettledIsEmpty
  <2>6. AnnouncedWhileRunning'
    BY <1>2 DEF BeginStep, Go, TypeOK, Job, Rest, Running, Locked, LockDiscipline,
       AnnouncedWhileRunning
  <2>7. SuccessMeansEmptyHanded'
    BY <1>2 DEF BeginStep, Go, TypeOK, Job, Rest, Running, Locked, LockDiscipline,
       Progress, SuccessMeansEmptyHanded
  <2>8. QED  BY <2>1, <2>2, <2>3, <2>4, <2>5, <2>6, <2>7
<1>3. CASE StepSucceeds(j)
  <2>1. TypeOK'
    <3>1. jobs' \in [Jobs -> Job]
      BY <1>3 DEF StepSucceeds, Go, TypeOK, Job, Places, Locked, Running
    <3>2. QED  BY <1>3, <3>1 DEF StepSucceeds, TypeOK
  <2>2. LockDiscipline' /\ LateMeans'
    BY <1>3 DEF StepSucceeds, Go, TypeOK, Job, Rest, Locked, Running, LockDiscipline, LateMeans
  <2>3. Progress'
    BY <1>3 DEF StepSucceeds, Go, TypeOK, Job, Rest, Running, Progress, StepsLeft
  <2>4. GripTakenIsOwned'
    BY <1>3 DEF StepSucceeds, Go, TypeOK, Job, Rest, Running, GripTakenIsOwned
  <2>5. SettledIsEmpty'
    <3> DEFINE kind == jobs[j].kind
               s    == jobs[j].step
    <3>1. kind \in Kinds /\ s \in 1..Len(Plan(kind))
      BY <1>3, PlanFacts DEF StepSucceeds, Progress, StepsLeft, TypeOK, Job
    <3>2. /\ jobs'[j].kind = kind
          /\ jobs'[j].step = s + 1
          /\ \A i \in Jobs \ {j} : jobs'[i].at \notin Running
      BY <1>3 DEF StepSucceeds, TypeOK, Job, LockDiscipline, Locked, Running
    <3>3. ASSUME SettledFrom(kind, s + 1)  PROVE ~held' /\ ~gripTaken'
      <4>1. Plan(kind)[s] # "grip"  BY <3>1, <3>3, PlanFacts
      <4>2. CASE Plan(kind)[s] = "release"
        <5>1. gripTaken => kind \in HandOver
          BY <1>3 DEF StepSucceeds, GripTakenIsOwned, LockDiscipline, Locked, Running
        <5>2. QED  BY <1>3, <4>2, <5>1 DEF StepSucceeds
      <4>3. CASE Plan(kind)[s] # "release"
        <5>1. ~held /\ ~gripTaken
          BY <1>3, <3>1, <3>3, <4>1, <4>3, SettledBefore
          DEF StepSucceeds, SettledIsEmpty, Running
        <5>2. QED  BY <1>3, <4>1, <4>3, <5>1 DEF StepSucceeds
      <4>4. QED  BY <4>2, <4>3
    <3>4. QED  BY <3>2, <3>3 DEF SettledIsEmpty
  <2>6. AnnouncedWhileRunning'
    BY <1>3 DEF StepSucceeds, Go, TypeOK, Job, Rest, Running, Locked, LockDiscipline,
       AnnouncedWhileRunning
  <2>7. SuccessMeansEmptyHanded'
    BY <1>3 DEF StepSucceeds, Go, TypeOK, Job, Rest, Running, Locked, LockDiscipline,
       Progress, SuccessMeansEmptyHanded
  <2>8. QED  BY <2>1, <2>2, <2>3, <2>4, <2>5, <2>6, <2>7
<1>4. CASE StepFails(j)
  <2>1. TypeOK'
    <3>1. jobs' \in [Jobs -> Job]
      BY <1>4 DEF StepFails, Go, TypeOK, Job, Places, Locked, Running
    <3>2. QED  BY <1>4, <3>1, FailureTypes DEF StepFails, TypeOK
  <2>2. LockDiscipline' /\ LateMeans'
    BY <1>4 DEF StepFails, Go, TypeOK, Job, Rest, Locked, Running, LockDiscipline, LateMeans
  <2>3. Progress'
    BY <1>4 DEF StepFails, Go, TypeOK, Job, Rest, Running, Progress, StepsLeft
  <2>4. GripTakenIsOwned'
    BY <1>4 DEF StepFails, Go, TypeOK, Job, Rest, Running, GripTakenIsOwned
  <2>5. SettledIsEmpty'
    BY <1>4 DEF StepFails, Go, TypeOK, Running, Locked, LockDiscipline, SettledIsEmpty
  <2>6. AnnouncedWhileRunning'
    BY <1>4 DEF StepFails, Go, TypeOK, Job, Rest, Running, Locked, LockDiscipline,
       AnnouncedWhileRunning
  <2>7. SuccessMeansEmptyHanded'
    BY <1>4 DEF StepFails, Go, TypeOK, Job, Rest, Running, Locked, LockDiscipline,
       Progress, SuccessMeansEmptyHanded
  <2>8. QED  BY <2>1, <2>2, <2>3, <2>4, <2>5, <2>6, <2>7
<1>5. QED  BY <1>1, <1>2, <1>3, <1>4

\* The end of a request.
LEMMA EndKeeps ==
  ASSUME IInv, NEW j \in Jobs,
         Report(j) \/ Raise(j) \/ Close(j) \/ Release(j)
  PROVE  IInv'
<1> USE NamesAssumption DEF IInv
<1>1. CASE Report(j)
  <2>1. TypeOK'
    <3>1. jobs' \in [Jobs -> Job]
      BY <1>1 DEF Report, Go, TypeOK, Job, Places, Locked, Running
    <3>2. QED  BY <1>1, <3>1 DEF Report, TypeOK
  <2>2. LockDiscipline' /\ LateMeans'
    BY <1>1 DEF Report, Go, TypeOK, Job, Rest, Locked, Running, LockDiscipline, LateMeans
  <2>3. Progress'
    BY <1>1 DEF Report, Go, TypeOK, Job, Rest, Running, Progress, StepsLeft
  <2>4. GripTakenIsOwned'
    BY <1>1 DEF Report, Go, TypeOK, Job, Rest, Running, Locked, LockDiscipline,
       GripTakenIsOwned
  <2>5. SettledIsEmpty'
    BY <1>1 DEF Report, Go, TypeOK, Job, Rest, Running, Locked, LockDiscipline,
       SettledIsEmpty
  <2>6. AnnouncedWhileRunning'
    BY <1>1 DEF Report, Go, TypeOK, Job, Rest, Running, Locked, LockDiscipline,
       AnnouncedWhileRunning
  <2>7. SuccessMeansEmptyHanded'
    BY <1>1 DEF Report, Go, TypeOK, Job, Rest, Running, Locked, LockDiscipline,
       Progress, SuccessMeansEmptyHanded
  <2>8. QED  BY <2>1, <2>2, <2>3, <2>4, <2>5, <2>6, <2>7
<1>2. CASE Raise(j)
  <2>1. TypeOK'
    <3>1. jobs' \in [Jobs -> Job]
      BY <1>2 DEF Raise, Go, TypeOK, Job, Places, Locked, Running
    <3>2. QED  BY <1>2, <3>1, FailureTypes DEF Raise, TypeOK
  <2>2. LockDiscipline' /\ LateMeans'
    BY <1>2 DEF Raise, Go, TypeOK, Job, Rest, Locked, Running, LockDiscipline, LateMeans
  <2>3. Progress'
    BY <1>2 DEF Raise, Go, TypeOK, Job, Rest, Running, Progress, StepsLeft
  <2>4. GripTakenIsOwned'
    BY <1>2 DEF Raise, Go, TypeOK, Job, Rest, Running, Locked, LockDiscipline,
       GripTakenIsOwned
  <2>5. SettledIsEmpty'
    BY <1>2 DEF Raise, Go, TypeOK, Job, Rest, Running, Locked, LockDiscipline,
       SettledIsEmpty
  <2>6. AnnouncedWhileRunning'
    BY <1>2 DEF Raise, Go, TypeOK, Job, Rest, Running, Locked, LockDiscipline,
       AnnouncedWhileRunning
  <2>7. SuccessMeansEmptyHanded'
    BY <1>2 DEF Raise, Go, TypeOK, Job, Rest, Running, Locked, LockDiscipline,
       Progress, SuccessMeansEmptyHanded
  <2>8. QED  BY <2>1, <2>2, <2>3, <2>4, <2>5, <2>6, <2>7
<1>3. CASE Close(j)
  <2>1. TypeOK'
    <3>1. jobs' \in [Jobs -> Job]
      BY <1>3 DEF Close, Go, TypeOK, Job, Places, Locked, Running
    <3>2. QED  BY <1>3, <3>1 DEF Close, TypeOK
  <2>2. LockDiscipline' /\ LateMeans'
    BY <1>3 DEF Close, Go, TypeOK, Job, Rest, Locked, Running, LockDiscipline, LateMeans
  <2>3. Progress'
    BY <1>3 DEF Close, Go, TypeOK, Job, Rest, Running, Progress, StepsLeft
  <2>4. GripTakenIsOwned'
    BY <1>3 DEF Close, Go, TypeOK, Job, Rest, Running, Locked, LockDiscipline,
       GripTakenIsOwned
  <2>5. SettledIsEmpty'
    BY <1>3 DEF Close, Go, TypeOK, Job, Rest, Running, Locked, LockDiscipline,
       SettledIsEmpty
  <2>6. AnnouncedWhileRunning'
    BY <1>3 DEF Close, Go, TypeOK, Job, Rest, Running, Locked, LockDiscipline,
       AnnouncedWhileRunning
  <2>7. SuccessMeansEmptyHanded'
    BY <1>3 DEF Close, Go, TypeOK, Job, Rest, Running, Locked, LockDiscipline,
       Progress, SuccessMeansEmptyHanded
  <2>8. QED  BY <2>1, <2>2, <2>3, <2>4, <2>5, <2>6, <2>7
<1>4. CASE Release(j)
  <2>1. TypeOK'
    <3>1. jobs' \in [Jobs -> Job]
      BY <1>4, RestIsJob DEF Release, Go, TypeOK, Job, Places, Locked, Running
    <3>2. QED  BY <1>4, <3>1 DEF Release, TypeOK
  <2>2. LockDiscipline' /\ LateMeans'
    BY <1>4 DEF Release, Go, TypeOK, Job, Rest, Locked, Running, LockDiscipline, LateMeans
  <2>3. Progress'
    BY <1>4 DEF Release, Go, TypeOK, Job, Rest, Running, Progress, StepsLeft
  <2>4. GripTakenIsOwned'
    BY <1>4 DEF Release, Go, TypeOK, Job, Rest, Running, Locked, LockDiscipline,
       GripTakenIsOwned
  <2>5. SettledIsEmpty'
    BY <1>4 DEF Release, Go, TypeOK, Job, Rest, Running, Locked, LockDiscipline,
       SettledIsEmpty
  <2>6. AnnouncedWhileRunning'
    BY <1>4 DEF Release, Go, TypeOK, Job, Rest, Running, Locked, LockDiscipline,
       AnnouncedWhileRunning
  <2>7. SuccessMeansEmptyHanded'
    BY <1>4 DEF Release, Go, TypeOK, Job, Rest, Running, Locked, LockDiscipline,
       Progress, SuccessMeansEmptyHanded
  <2>8. QED  BY <2>1, <2>2, <2>3, <2>4, <2>5, <2>6, <2>7
<1>5. QED  BY <1>1, <1>2, <1>3, <1>4

\* What an E-stop or a reset notes about the requests.
LEMMA DisturbedFacts ==
  ASSUME TypeOK, NEW by \in {"reset", "stop"}
  PROVE  /\ Disturbed(by) \in [Jobs -> Job]
         /\ \A j \in Jobs :
              /\ Disturbed(by)[j].at = jobs[j].at
              /\ Disturbed(by)[j].kind = jobs[j].kind
              /\ Disturbed(by)[j].step = jobs[j].step
              /\ Disturbed(by)[j].ok = jobs[j].ok
              /\ jobs[j].at \in Locked => /\ Disturbed(by)[j].late = 0
                                         /\ Disturbed(by)[j].disturbed # "no"
              /\ jobs[j].at \notin Locked => Disturbed(by)[j] = jobs[j]
<1>1. ASSUME NEW j \in Jobs, jobs[j].at \in Locked
      PROVE  /\ Disturbed(by)[j] \in Job
             /\ Disturbed(by)[j].at = jobs[j].at
             /\ Disturbed(by)[j].kind = jobs[j].kind
             /\ Disturbed(by)[j].step = jobs[j].step
             /\ Disturbed(by)[j].ok = jobs[j].ok
             /\ Disturbed(by)[j].late = 0
             /\ Disturbed(by)[j].disturbed # "no"
  BY <1>1 DEF Disturbed, TypeOK, Job
<1>2. ASSUME NEW j \in Jobs, jobs[j].at \notin Locked
      PROVE  Disturbed(by)[j] = jobs[j] /\ jobs[j] \in Job
  BY <1>2 DEF Disturbed, TypeOK
<1>3. Disturbed(by) = [j \in Jobs |-> Disturbed(by)[j]]
  BY DEF Disturbed
<1>4. QED
  BY <1>1, <1>2, <1>3

\* E-stop and reset, whatever is running.
LEMMA EStopKeeps ==
  ASSUME IInv, EStop \/ EStopReset
  PROVE  IInv'
<1> USE DEF IInv
<1>1. PICK by \in {"reset", "stop"} : jobs' = Disturbed(by)
  BY DEF EStop, EStopReset
<1>2. UNCHANGED <<lock, held>> /\ (gripTaken' => gripTaken)
  BY DEF EStop, EStopReset
<1>3. TypeOK'
  BY <1>1, DisturbedFacts DEF EStop, EStopReset, TypeOK
<1>4. LockDiscipline' /\ LateMeans'
  BY <1>1, <1>2, DisturbedFacts DEF LockDiscipline, LateMeans
<1>5. Progress'
  BY <1>1, DisturbedFacts DEF Progress, StepsLeft
<1>6. GripTakenIsOwned'
  BY <1>1, <1>2, DisturbedFacts DEF GripTakenIsOwned
<1>7. SettledIsEmpty' /\ SuccessMeansEmptyHanded'
  <2>1. \A j \in Jobs : /\ jobs'[j].at = jobs[j].at /\ jobs'[j].ok = jobs[j].ok
                        /\ jobs'[j].kind = jobs[j].kind /\ jobs'[j].step = jobs[j].step
    BY <1>1, DisturbedFacts
  <2>2. QED  BY <1>2, <2>1 DEF SettledIsEmpty, SuccessMeansEmptyHanded
<1>8. AnnouncedWhileRunning'
  BY <1>1, DisturbedFacts DEF AnnouncedWhileRunning, Locked
<1>9. QED
  BY <1>3, <1>4, <1>5, <1>6, <1>7, <1>8

----------------------------------------------------------------------------
(* Theorems *)

\* The inductive invariant holds throughout, for any number of requests.
THEOREM InvariantHolds == Spec => []IInv
<1>1. IInv /\ [Next]_vars => IInv'
  <2> SUFFICES ASSUME IInv, [Next]_vars  PROVE IInv'
    OBVIOUS
  <2>1. CASE Next
    BY <2>1, RequestsKeep, SequenceKeeps, EndKeeps, EStopKeeps DEF Next, JobStep
  <2>2. CASE UNCHANGED vars
    BY <2>2 DEF vars, IInv, TypeOK, LockDiscipline, LateMeans, Progress, StepsLeft,
       GripTakenIsOwned, SettledIsEmpty, AnnouncedWhileRunning, SuccessMeansEmptyHanded
  <2>3. QED  BY <2>1, <2>2
<1>2. QED
  BY InitHolds, <1>1, PTL DEF Spec

\* The state of tool_action_server.py is always well formed.
THEOREM TypeCorrect == Spec => []TypeOK
BY InvariantHolds, PTL DEF IInv

\* While an undisturbed sequence runs, /robot/status says so: nobody but the
\* owner of _action_lock, an E-stop or a reset takes it back.
THEOREM AlwaysAnnounced == Spec => []AnnouncedWhileRunning
BY InvariantHolds, PTL DEF IInv

\* At most one step begins between an E-stop and its reset.
THEOREM StopIsAtMostOneStepLate == Spec => []AtMostOneStepLate
<1>1. IInv => AtMostOneStepLate
  BY DEF IInv, LateMeans, AtMostOneStepLate
<1>2. QED
  BY InvariantHolds, <1>1, PTL

\* A sequence that reports success has let go of the tool.
THEOREM SuccessIsEmptyHanded == Spec => []SuccessMeansEmptyHanded
BY InvariantHolds, PTL DEF IInv
=============================================================================

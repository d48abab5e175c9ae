-------------------------- MODULE ToolStoreProofs --------------------------
(***************************************************************************)
(* Theorems about ToolStore, for any finite set of tools, any clients and  *)
(* any values of the timeouts and bounds.                                  *)
(*                                                                         *)
(* The argument is in three layers: what appending one event does to a log *)
(* (lemmas about sequences), the only three ways a step can treat a tool   *)
(* (StepOnTool), and then one inductive invariant per tool.                *)
(***************************************************************************)
EXTENDS ToolStore, TLAPS

\* What a thread is in the middle of is told by the kind of its record.
LEMMA OpKinds ==
  ASSUME NEW o \in {Idle} \cup Updating \cup Rejecting
  PROVE  /\ o.kind = "reject" => o \in Rejecting
         /\ o.kind = "update" => o \in Updating
<1>1. Idle.kind = "idle"
  BY DEF Idle
<1>2. \A u \in Updating : u.kind = "update"
  BY DEF Updating
<1>3. \A r \in Rejecting : r.kind = "reject"
  BY DEF Rejecting
<1>4. QED
  BY <1>1, <1>2, <1>3

\* Every step leaves the types alone: the code's rows, caches and threads.
THEOREM TypeCorrect == Spec => []TypeOK
<1>1. Init => TypeOK
  BY DEF Init, TypeOK, Statuses
<1>2. TypeOK /\ [Next]_vars => TypeOK'
  <2> SUFFICES ASSUME TypeOK, [Next]_vars PROVE TypeOK'
    OBVIOUS
  <2> USE DEF TypeOK, storeVars
  <2>1. CASE Tick
    BY <2>1 DEF Tick
  <2>2. ASSUME NEW c \in Clients, NEW t \in Tools, NEW intent \in Intents,
               CheckFeasibility(c, intent, t)
        PROVE  TypeOK'
    <3>1. cache' \in [Clients -> [Tools -> {NoEntry} \cup Entry]]
      BY <2>2 DEF CheckFeasibility, Entry
    <3>2. op' \in [Clients -> {Idle} \cup Updating \cup Rejecting]
      BY <2>2 DEF CheckFeasibility, Judge, Rejecting
    <3>3. QED
      BY <2>2, <3>1, <3>2 DEF CheckFeasibility
  <2>3. ASSUME NEW c \in Clients, NEW t \in Tools, NEW intent \in Intents,
               CheckFromCache(c, intent, t)
        PROVE  TypeOK'
    <3>1. cache[c][t].value \in Statuses
      BY <2>3 DEF CheckFromCache, Usable, Entry
    <3>2. op' \in [Clients -> {Idle} \cup Updating \cup Rejecting]
      BY <2>3, <3>1 DEF CheckFromCache, Judge, Rejecting
    <3>3. QED
      BY <2>3, <3>2 DEF CheckFromCache
  <2>4. ASSUME NEW c \in Clients, NEW t \in Tools, LogRejection(c, t)
        PROVE  TypeOK'
    BY <2>4 DEF LogRejection, Rejecting
  <2>5. ASSUME NEW c \in Clients, RecordRejection(c)
        PROVE  TypeOK'
    <3>1. op[c] \in Rejecting
      BY <2>5, OpKinds DEF RecordRejection
    <3> DEFINE t == op[c].tool
               e == [type |-> "rejected", before |-> op[c].seen,
                     after |-> op[c].seen, stamp |-> 0, committedAt |-> 0]
    <3>2. t \in Tools /\ e \in Event
      BY <3>1 DEF Rejecting, Event, EventTypes
    <3>3. log' = [log EXCEPT ![t] = Append(@, e)]
      BY <2>5 DEF RecordRejection
    <3>4. Append(log[t], e) \in Seq(Event)
      BY <3>2
    <3>5. log' \in [Tools -> Seq(Event)]
      BY <3>2, <3>3, <3>4
    <3>6. lastEvent' = [lastEvent EXCEPT ![t] = Len(log'[t])] /\ Len(log'[t]) \in Nat
      BY <2>5, <3>2, <3>5 DEF RecordRejection
    <3>7. QED
      BY <2>5, <3>2, <3>5, <3>6 DEF RecordRejection
  <2>6. ASSUME NEW c \in Clients, BeginUpdate(c)
        PROVE  TypeOK'
    BY <2>6 DEF BeginUpdate, Updating
  <2>7. ASSUME NEW c \in Clients, NEW t \in Tools, NEW new \in Statuses,
               NEW type \in EventTypes, NEW confirmed \in BOOLEAN,
               CommitUpdate(c, t, new, type, confirmed)
        PROVE  TypeOK'
    <3>1. op[c] \in Updating
      BY <2>7, OpKinds DEF CommitUpdate
    <3> DEFINE e == [type |-> type, before |-> status[t], after |-> new,
                     stamp |-> op[c].stamp, committedAt |-> now]
    <3>2. e \in Event
      BY <3>1 DEF Updating, Event
    <3>3. log' = [log EXCEPT ![t] = Append(@, e)]
      BY <2>7 DEF CommitUpdate, WriteEvent
    <3>4. Append(log[t], e) \in Seq(Event)
      BY <3>2
    <3>5. log' \in [Tools -> Seq(Event)] /\ Len(log'[t]) \in Nat
      BY <3>3, <3>4
    <3>6. cache' \in [Clients -> [Tools -> {NoEntry} \cup Entry]]
      BY <2>7 DEF CommitUpdate, Entry
    <3>7. op[c].stamp \in Nat
      BY <3>1 DEF Updating
    <3>8. /\ status' \in [Tools -> Statuses]
          /\ updated' \in [Tools -> Nat]
          /\ lastEvent' \in [Tools -> Nat]
      BY <2>7, <3>5, <3>7 DEF CommitUpdate, WriteEvent
    <3>9. QED
      BY <2>7, <3>5, <3>6, <3>8 DEF CommitUpdate
  <2>8. ASSUME NEW c \in Clients, Abandon(c) \/ RestartClient(c)
        PROVE  TypeOK'
    BY ZenonT(60), <2>8 DEF Abandon, RestartClient
  <2>9. CASE StartSweep
    BY <2>9 DEF StartSweep, Sweeping
  <2>10. CASE CommitSweep
    <3>1. monitor \in Sweeping
      BY <2>10 DEF CommitSweep, Resting, Reporting
    <3> DEFINE due == {t \in Tools : Overdue(t, monitor.stamp)}
               ev(t) == [type |-> StageEvent(status[t]), before |-> status[t],
                         after |-> NextStage(status[t]),
                         stamp |-> monitor.stamp, committedAt |-> now]
    <3>2. monitor.stamp \in Nat
      BY <3>1 DEF Sweeping
    <3>3. \A t \in Tools : NextStage(status[t]) \in Statuses
      BY DEF NextStage, Statuses
    <3>4. \A t \in Tools : ev(t) \in Event
      BY <3>2, <3>3 DEF Event, StageEvent, EventTypes
    <3>5. log' = [t \in Tools |-> IF t \in due THEN Append(log[t], ev(t)) ELSE log[t]]
      BY <2>10 DEF CommitSweep
    <3>6. \A t \in Tools : Append(log[t], ev(t)) \in Seq(Event)
      BY <3>4
    <3>7. log' \in [Tools -> Seq(Event)]
      BY <3>5, <3>6
    <3>8. \A t \in Tools : Len(log'[t]) \in Nat
      BY <3>7
    <3>9. status' \in [Tools -> Statuses]
      BY <2>10, <3>3 DEF CommitSweep
    <3>10. updated' \in [Tools -> Nat] /\ lastEvent' \in [Tools -> Nat]
      BY <2>10, <3>2, <3>8 DEF CommitSweep
    <3>11. monitor' \in Reporting
      <4>1. \E A \in SUBSET Tools :
              monitor' = [kind |-> "report", todo |-> {<<t, Len(log'[t])>> : t \in A}]
        BY <2>10 DEF CommitSweep, Alerts
      <4>2. QED
        BY <4>1, <3>8 DEF Reporting
    <3>12. QED
      BY <2>10, <3>7, <3>9, <3>10, <3>11 DEF CommitSweep
  <2>11. CASE AbandonSweep
    BY <2>11 DEF AbandonSweep
  <2>12. ASSUME NEW written \in BOOLEAN, ReportAlert(written)
         PROVE  TypeOK'
    <3>1. monitor \in Reporting
      BY <2>12 DEF ReportAlert, Resting, Sweeping
    <3>2. monitor' \in Reporting
      BY SMTT(30), <2>12, <3>1 DEF ReportAlert, Reporting
    <3>3. alertRows' \subseteq Tools \X Nat
      BY <2>12, <3>1 DEF ReportAlert, Reporting
    <3>4. QED
      BY <2>12, <3>2, <3>3 DEF ReportAlert
  <2>13. CASE EndSweep
    BY <2>13 DEF EndSweep
  <2>14. CASE RestartMonitor
    BY <2>14 DEF RestartMonitor
  <2>15. CASE UNCHANGED vars
    BY <2>15 DEF vars
  <2>16. QED
    BY SMTT(30), <2>1, <2>2, <2>3, <2>4, <2>5, <2>6, <2>7, <2>8, <2>9, <2>10, <2>11,
       <2>12, <2>13, <2>14, <2>15
    DEF Next, ClientNext, MonitorNext
<1>3. QED
  BY <1>1, <1>2, PTL DEF Spec

----------------------------------------------------------------------------
(* One more event in a log *)

\* What Append adds to a log and what it leaves as it was.
LEMMA AppendFacts ==
  ASSUME NEW l \in Seq(Event), NEW e \in Event
  PROVE  /\ Append(l, e) \in Seq(Event)
         /\ Len(l) + 1 \in Nat /\ Len(l) + 1 \notin DOMAIN l
         /\ \A i \in DOMAIN l : i \in Nat /\ i < Len(l) + 1
         /\ DOMAIN Append(l, e) = DOMAIN l \cup {Len(l) + 1}
         /\ \A i \in DOMAIN l : Append(l, e)[i] = l[i]
         /\ Append(l, e)[Len(l) + 1] = e
  OBVIOUS

\* The changes of a log are positions, so they can be compared.
LEMMA ChangesAreNumbers ==
  ASSUME NEW l \in Seq(Event)
  PROVE  Changes(l) \subseteq Nat
  BY DEF Changes

\* A rejection adds nothing to the changes of a log.
LEMMA AppendRejected ==
  ASSUME NEW l \in Seq(Event), NEW e \in Event, e.type = "rejected"
  PROVE  /\ Changes(Append(l, e)) = Changes(l)
         /\ \A i, j : Follows(Append(l, e), i, j) <=> Follows(l, i, j)
         /\ \A i : Newest(Append(l, e), i) <=> Newest(l, i)
         /\ \A i : Oldest(Append(l, e), i) <=> Oldest(l, i)
<1>1. Changes(Append(l, e)) = Changes(l)
  BY AppendFacts DEF Changes
<1>2. QED
  BY <1>1 DEF Follows, Newest, Oldest

\* A change becomes the newest one, and follows what was the newest.
LEMMA AppendChange ==
  ASSUME NEW l \in Seq(Event), NEW e \in Event, e.type # "rejected",
         NEW n, n = Len(l) + 1
  PROVE  /\ Changes(Append(l, e)) = Changes(l) \cup {n}
         /\ \A i : Newest(Append(l, e), i) <=> i = n
         /\ \A i, j : Follows(Append(l, e), i, j) <=>
                        Follows(l, i, j) \/ (j = n /\ Newest(l, i))
         /\ \A i : Oldest(Append(l, e), i) <=>
                        Oldest(l, i) \/ (Changes(l) = {} /\ i = n)
<1>1. Changes(Append(l, e)) = Changes(l) \cup {n}
  BY AppendFacts DEF Changes
<1>2. n \in Nat /\ n \notin Changes(l) /\ \A k \in Changes(l) : k \in Nat /\ k < n
  BY AppendFacts, ChangesAreNumbers DEF Changes
<1>3. \A i : Newest(Append(l, e), i) <=> i = n
  BY <1>1, <1>2 DEF Newest
<1>4. \A i, j : Follows(Append(l, e), i, j) <=>
                  Follows(l, i, j) \/ (j = n /\ Newest(l, i))
  BY <1>1, <1>2 DEF Follows, Newest
<1>5. \A i : Oldest(Append(l, e), i) <=>
               Oldest(l, i) \/ (Changes(l) = {} /\ i = n)
  BY <1>1, <1>2 DEF Oldest
<1>6. QED
  BY <1>1, <1>3, <1>4, <1>5

\* A log has at most one newest change.
LEMMA NewestIsUnique ==
  ASSUME NEW l \in Seq(Event), NEW i, NEW j, Newest(l, i), Newest(l, j)
  PROVE  i = j
  BY ChangesAreNumbers DEF Newest

----------------------------------------------------------------------------
(* What one step does to one tool *)

Untouched(t) ==
  log'[t] = log[t] /\ status'[t] = status[t] /\ updated'[t] = updated[t]

Refused(t) ==
  \E e \in Event : /\ e.type = "rejected"
                   /\ log'[t] = Append(log[t], e)
                   /\ status'[t] = status[t] /\ updated'[t] = updated[t]

Recorded(t) ==
  \E e \in Event :
    /\ e.type # "rejected"
    /\ e.before = status[t] /\ e.committedAt = now
    /\ log'[t] = Append(log[t], e)
    /\ status'[t] = e.after /\ updated'[t] = e.stamp
    /\ e.type = "timeout" => /\ status[t] \in {"out", "staged"}
                             /\ updated[t] + Timeout <= e.stamp
    /\ e.type = "fod_alert" => /\ status[t] = "missing"
                               /\ updated[t] + Grace <= e.stamp

\* A step leaves a tool alone, records a refusal about it, or records one
\* change of it that starts from its status.
LEMMA StepOnTool ==
  ASSUME TypeOK, [Next]_vars, NEW t \in Tools
  PROVE  Untouched(t) \/ Refused(t) \/ Recorded(t)
<1> USE DEF TypeOK
<1>1. CASE UNCHANGED storeVars
  BY <1>1 DEF storeVars, Untouched
<1>2. ASSUME NEW c \in Clients, RecordRejection(c)
      PROVE  Untouched(t) \/ Refused(t)
  <2>1. op[c] \in Rejecting
    BY <1>2, OpKinds DEF RecordRejection
  <2> DEFINE e == [type |-> "rejected", before |-> op[c].seen,
                   after |-> op[c].seen, stamp |-> 0, committedAt |-> 0]
  <2>2. op[c].tool \in Tools /\ e \in Event
    BY <2>1 DEF Rejecting, Event, EventTypes
  <2>3. /\ log' = [log EXCEPT ![op[c].tool] = Append(@, e)]
        /\ UNCHANGED <<status, updated>>
    BY <1>2 DEF RecordRejection
  <2>4. CASE t = op[c].tool
    <3>1. log'[t] = Append(log[t], e) /\ e.type = "rejected"
      BY <2>2, <2>3, <2>4
    <3>2. QED
      BY <2>2, <2>3, <3>1 DEF Refused
  <2>5. CASE t # op[c].tool
    BY <2>2, <2>3, <2>5 DEF Untouched
  <2>6. QED
    BY <2>4, <2>5
<1>3. ASSUME NEW c \in Clients, NEW u \in Tools, NEW new \in Statuses,
             NEW type \in EventTypes, NEW confirmed \in BOOLEAN,
             CommitUpdate(c, u, new, type, confirmed)
      PROVE  Untouched(t) \/ Recorded(t)
  <2>1. op[c] \in Updating
    BY <1>3, OpKinds DEF CommitUpdate
  <2> DEFINE e == [type |-> type, before |-> status[u], after |-> new,
                   stamp |-> op[c].stamp, committedAt |-> now]
  <2>2. e \in Event
    BY <2>1 DEF Updating, Event
  <2>3. /\ log' = [log EXCEPT ![u] = Append(@, e)]
        /\ status' = [status EXCEPT ![u] = new]
        /\ updated' = [updated EXCEPT ![u] = op[c].stamp]
    BY <1>3 DEF CommitUpdate, WriteEvent
  <2>4. type \notin {"rejected", "timeout", "fod_alert"}
    BY <1>3 DEF CommitUpdate, LegalTransition, Allowed
  <2>5. CASE t = u
    <3>1. /\ log'[t] = Append(log[t], e)
          /\ status'[t] = e.after /\ updated'[t] = e.stamp
      BY <2>3, <2>5
    <3>2. QED
      BY <2>2, <2>4, <2>5, <3>1 DEF Recorded
  <2>6. CASE t # u
    BY <2>3, <2>6 DEF Untouched
  <2>7. QED
    BY <2>5, <2>6
<1>4. ASSUME CommitSweep
      PROVE  Untouched(t) \/ Recorded(t)
  <2>1. monitor \in Sweeping
    BY <1>4 DEF CommitSweep, Resting, Reporting
  <2> DEFINE e == [type |-> StageEvent(status[t]), before |-> status[t],
                   after |-> NextStage(status[t]),
                   stamp |-> monitor.stamp, committedAt |-> now]
             due == Overdue(t, monitor.stamp)
  <2>2. e \in Event
    BY <2>1 DEF Sweeping, Event, NextStage, StageEvent, EventTypes, Statuses
  <2>3. /\ log'[t] = IF due THEN Append(log[t], e) ELSE log[t]
        /\ status'[t] = IF due THEN NextStage(status[t]) ELSE status[t]
        /\ updated'[t] = IF due THEN monitor.stamp ELSE updated[t]
    BY <1>4 DEF CommitSweep
  <2>4. CASE ~due
    BY <2>3, <2>4 DEF Untouched
  <2>5. CASE due
    <3>1. /\ e.type # "rejected"
          /\ e.type = "timeout" => status[t] \in {"out", "staged"}
          /\ e.type = "fod_alert" => status[t] = "missing"
      BY <2>5 DEF Overdue, StageEvent
    <3>2. updated[t] \in Nat /\ monitor.stamp \in Nat
      BY <2>1 DEF Sweeping
    <3>3. /\ e.type = "timeout" => updated[t] + Timeout <= e.stamp
          /\ e.type = "fod_alert" => updated[t] + Grace <= e.stamp
      BY <2>5, <3>1, <3>2, TimesAssumption DEF Overdue, Limit
    <3>4. QED
      BY <2>2, <2>3, <2>5, <3>1, <3>3 DEF Recorded
  <2>6. QED
    BY <2>4, <2>5
<1>5. QED
  BY <1>1, <1>2, <1>3, <1>4
  DEF Next, ClientNext, MonitorNext, vars, storeVars, Tick, CheckFeasibility,
      CheckFromCache, LogRejection, BeginUpdate, Abandon, StartSweep,
      AbandonSweep, ReportAlert, EndSweep, RestartClient, RestartMonitor

----------------------------------------------------------------------------
(* The log explains the snapshot, and the escalation is paced *)

\* The inductive invariant of one tool.  That a log with a change has a newest
\* one is arithmetic, but it is what lets the next change find its predecessor.
Accounted(l, s, u) ==
  /\ Explains(l, s, u)
  /\ Paced(l)
  /\ Changes(l) # {} => \E i \in DOMAIN l : Newest(l, i)

\* A rejection changes nothing of what a log accounts for.
LEMMA AccountedAfterRejection ==
  ASSUME NEW l \in Seq(Event), NEW e \in Event, e.type = "rejected",
         NEW s, NEW u, Accounted(l, s, u)
  PROVE  Accounted(Append(l, e), s, u)
<1> DEFINE m == Append(l, e)
           n == Len(l) + 1
<1>1. /\ DOMAIN m = DOMAIN l \cup {n}
      /\ \A i \in DOMAIN l : m[i] = l[i]
      /\ m[n] = e
  BY AppendFacts
<1>2. /\ Changes(m) = Changes(l)
      /\ \A i, j : Follows(m, i, j) <=> Follows(l, i, j)
      /\ \A i : Newest(m, i) <=> Newest(l, i)
      /\ \A i : Oldest(m, i) <=> Oldest(l, i)
  BY AppendRejected
<1>3. Changes(l) \subseteq DOMAIN l
  BY DEF Changes
<1> HIDE DEF m, n
<1>4. Explains(m, s, u)
  <2>1. \A i \in DOMAIN m : Oldest(m, i) => m[i].before = "in_slot"
    BY <1>1, <1>2, <1>3 DEF Accounted, Explains, Oldest
  <2>2. \A i \in DOMAIN m : Newest(m, i) => m[i].after = s /\ m[i].stamp = u
    BY <1>1, <1>2, <1>3 DEF Accounted, Explains, Newest
  <2>3. \A i, j \in DOMAIN m : Follows(m, i, j) => m[j].before = m[i].after
    BY <1>1, <1>2, <1>3 DEF Accounted, Explains, Follows
  <2>4. QED
    BY <1>2, <2>1, <2>2, <2>3 DEF Accounted, Explains
<1>5. Paced(m)
  <2>1. \A j \in DOMAIN l : \A S, d : WaitedIn(l, j, S, d) => WaitedIn(m, j, S, d)
    BY <1>1, <1>2 DEF WaitedIn
  <2>2. QED
    BY <1>1, <2>1 DEF Accounted, Paced
<1>6. Changes(m) # {} => \E i \in DOMAIN m : Newest(m, i)
  BY <1>1, <1>2 DEF Accounted
<1>7. QED
  BY <1>4, <1>5, <1>6 DEF Accounted, m

\* A change that starts from the present status extends the account.
LEMMA AccountedAfterChange ==
  ASSUME NEW l \in Seq(Event), NEW e \in Event, e.type # "rejected",
         NEW s, NEW u, Accounted(l, s, u), e.before = s,
         e.type = "timeout" => s \in {"out", "staged"} /\ u + Timeout <= e.stamp,
         e.type = "fod_alert" => s = "missing" /\ u + Grace <= e.stamp
  PROVE  Accounted(Append(l, e), e.after, e.stamp)
<1> DEFINE m == Append(l, e)
           n == Len(l) + 1
<1>1. /\ DOMAIN m = DOMAIN l \cup {n}
      /\ \A i \in DOMAIN l : m[i] = l[i]
      /\ m[n] = e
      /\ n \notin DOMAIN l
  BY AppendFacts
<1>2. /\ Changes(m) = Changes(l) \cup {n}
      /\ \A i : Newest(m, i) <=> i = n
      /\ \A i, j : Follows(m, i, j) <=> Follows(l, i, j) \/ (j = n /\ Newest(l, i))
      /\ \A i : Oldest(m, i) <=> Oldest(l, i) \/ (Changes(l) = {} /\ i = n)
  BY AppendChange
<1>3. Changes(l) \subseteq DOMAIN l
  BY DEF Changes
<1> HIDE DEF m, n
<1>4. Explains(m, e.after, e.stamp)
  <2>1. \A i \in DOMAIN m : Oldest(m, i) => m[i].before = "in_slot"
    <3>1. \A i : Oldest(l, i) => i \in DOMAIN l
      BY <1>3 DEF Oldest
    <3>2. QED
      BY <1>1, <1>2, <3>1 DEF Accounted, Explains
  <2>2. \A i \in DOMAIN m : Newest(m, i) => m[i].after = e.after /\ m[i].stamp = e.stamp
    BY <1>1, <1>2
  <2>3. \A i, j \in DOMAIN m : Follows(m, i, j) => m[j].before = m[i].after
    <3>1. \A i, j : Follows(l, i, j) => i \in DOMAIN l /\ j \in DOMAIN l
      BY <1>3 DEF Follows
    <3>2. \A i : Newest(l, i) => i \in DOMAIN l
      BY <1>3 DEF Newest
    <3>3. QED
      BY <1>1, <1>2, <3>1, <3>2 DEF Accounted, Explains
  <2>4. QED
    BY <1>2, <2>1, <2>2, <2>3 DEF Explains
<1>5. Paced(m)
  <2>1. \A j \in DOMAIN l : \A S, d : WaitedIn(l, j, S, d) => WaitedIn(m, j, S, d)
    BY <1>1, <1>2 DEF WaitedIn
  <2>2. ASSUME s # "in_slot"
        PROVE  \E i \in DOMAIN m :
                 /\ Follows(m, i, n)
                 /\ m[i].after = s /\ m[i].stamp = u
    <3>1. Changes(l) # {}
      BY <2>2 DEF Accounted, Explains
    <3>2. PICK i \in DOMAIN l : Newest(l, i)
      BY <3>1 DEF Accounted
    <3>3. Follows(m, i, n) /\ l[i].after = s /\ l[i].stamp = u
      BY <1>2, <3>2 DEF Accounted, Explains
    <3>4. QED
      BY <1>1, <3>2, <3>3
  <2>3. e.type = "timeout" => WaitedIn(m, n, {"out", "staged"}, Timeout)
    BY <1>1, <2>2 DEF WaitedIn
  <2>4. e.type = "fod_alert" => WaitedIn(m, n, {"missing"}, Grace)
    BY <1>1, <2>2 DEF WaitedIn
  <2>5. QED
    BY <1>1, <2>1, <2>3, <2>4 DEF Accounted, Paced
<1>6. \E i \in DOMAIN m : Newest(m, i)
  BY <1>1, <1>2
<1>7. QED
  BY <1>4, <1>5, <1>6 DEF Accounted, m

AllAccounted == \A t \in Tools : Accounted(log[t], status[t], updated[t])

\* Whatever is refused, retried, abandoned or restarted, every tool's log tells
\* how its row came about and every escalation in it waited its full time.
THEOREM StoreIsAccounted == Spec => []AllAccounted
<1>1. Init => AllAccounted
  BY DEF Init, AllAccounted, Accounted, Explains, Paced, Changes, Newest, Oldest
<1>2. TypeOK /\ AllAccounted /\ [Next]_vars => AllAccounted'
  <2> SUFFICES ASSUME TypeOK, AllAccounted, [Next]_vars, NEW t \in Tools
               PROVE  Accounted(log'[t], status'[t], updated'[t])
    BY DEF AllAccounted
  <2>1. log[t] \in Seq(Event) /\ Accounted(log[t], status[t], updated[t])
    BY DEF TypeOK, AllAccounted
  <2>2. CASE Untouched(t)
    BY <2>1, <2>2 DEF Untouched
  <2>3. CASE Refused(t)
    BY <2>1, <2>3, AccountedAfterRejection DEF Refused
  <2>4. CASE Recorded(t)
    <3>1. PICK e \in Event :
            /\ e.type # "rejected"
            /\ e.before = status[t]
            /\ log'[t] = Append(log[t], e)
            /\ status'[t] = e.after /\ updated'[t] = e.stamp
            /\ e.type = "timeout" => /\ status[t] \in {"out", "staged"}
                                     /\ updated[t] + Timeout <= e.stamp
            /\ e.type = "fod_alert" => /\ status[t] = "missing"
                                       /\ updated[t] + Grace <= e.stamp
      BY <2>4 DEF Recorded
    <3>2. Accounted(Append(log[t], e), e.after, e.stamp)
      BY <2>1, <3>1, AccountedAfterChange
    <3>3. QED
      BY <3>1, <3>2
  <2>5. QED
    BY <2>2, <2>3, <2>4, StepOnTool
<1>3. QED
  BY <1>1, <1>2, TypeCorrect, PTL DEF Spec

\* The audit trail accounts for the snapshot (db_core's single source of truth).
THEOREM LogAlwaysExplains == Spec => []LogExplainsSnapshot
<1>1. AllAccounted => LogExplainsSnapshot
  BY DEF AllAccounted, Accounted, LogExplainsSnapshot
<1>2. QED
  BY <1>1, StoreIsAccounted, PTL

\* The S-8 escalation never fires early.
THEOREM EscalationAlwaysPaced == Spec => []EscalationIsPaced
<1>1. AllAccounted => EscalationIsPaced
  BY DEF AllAccounted, Accounted, EscalationIsPaced
<1>2. QED
  BY <1>1, StoreIsAccounted, PTL

----------------------------------------------------------------------------
(* What the caches remember was true when they say it was *)

CachesWereTrue ==
  \A c \in Clients, t \in Tools :
    cache[c][t] # NoEntry =>
      /\ cache[c][t].loadedAt <= now
      /\ HeldSince(log[t], status[t], cache[c][t].value, cache[c][t].loadedAt)

\* What was recently true of a tool stays so in the next state.
LEMMA HeldPersists ==
  ASSUME TypeOK, [Next]_vars, NEW t \in Tools, NEW s, NEW x \in Int, x <= now,
         HeldSince(log[t], status[t], s, x)
  PROVE  HeldSince(log'[t], status'[t], s, x)
<1>1. log[t] \in Seq(Event) /\ now \in Nat
  BY DEF TypeOK
<1>2. CASE Untouched(t)
  BY <1>2 DEF Untouched, HeldSince
<1>3. CASE Refused(t)
  <2>1. PICK e \in Event : /\ e.type = "rejected"
                           /\ log'[t] = Append(log[t], e)
                           /\ status'[t] = status[t]
    BY <1>3 DEF Refused
  <2>2. /\ Changes(log'[t]) = Changes(log[t])
        /\ \A i \in DOMAIN log[t] : log'[t][i] = log[t][i]
    BY <1>1, <2>1, AppendRejected, AppendFacts
  <2>3. Changes(log[t]) \subseteq DOMAIN log[t]
    BY DEF Changes
  <2>4. QED
    BY <2>1, <2>2, <2>3 DEF HeldSince
<1>4. CASE Recorded(t)
  <2>1. PICK e \in Event : /\ e.type # "rejected"
                           /\ e.before = status[t] /\ e.committedAt = now
                           /\ log'[t] = Append(log[t], e)
    BY <1>4 DEF Recorded
  <2> DEFINE n == Len(log[t]) + 1
  <2>2. /\ Changes(log'[t]) = Changes(log[t]) \cup {n}
        /\ \A i \in DOMAIN log[t] : log'[t][i] = log[t][i]
        /\ log'[t][n] = e
    BY <1>1, <2>1, AppendChange, AppendFacts
  <2>3. Changes(log[t]) \subseteq DOMAIN log[t]
    BY DEF Changes
  <2>4. CASE status[t] = s
    BY <1>1, <2>1, <2>2, <2>4 DEF HeldSince
  <2>5. CASE \E i \in Changes(log[t]) :
               log[t][i].before = s /\ log[t][i].committedAt >= x
    BY <2>2, <2>3, <2>5 DEF HeldSince
  <2>6. QED
    BY <2>4, <2>5 DEF HeldSince
<1>5. QED
  BY <1>2, <1>3, <1>4, StepOnTool

\* A cached answer is kept, forgotten, or read anew from the row.
LEMMA CacheStep ==
  ASSUME TypeOK, [Next]_vars, NEW c \in Clients, NEW t \in Tools
  PROVE  \/ cache'[c][t] = cache[c][t]
         \/ cache'[c][t] = NoEntry
         \/ cache'[c][t] = [kind |-> "entry", value |-> status'[t], loadedAt |-> now]
<1> USE DEF TypeOK
<1>1. CASE UNCHANGED cache
  BY <1>1
<1>2. ASSUME NEW d \in Clients, NEW u \in Tools, NEW intent \in Intents,
             CheckFeasibility(d, intent, u)
      PROVE  \/ cache'[c][t] = cache[c][t]
             \/ cache'[c][t] = [kind |-> "entry", value |-> status'[t], loadedAt |-> now]
  BY <1>2 DEF CheckFeasibility, storeVars
<1>3. ASSUME NEW d \in Clients, NEW u \in Tools, NEW new \in Statuses,
             NEW type \in EventTypes, NEW confirmed \in BOOLEAN,
             CommitUpdate(d, u, new, type, confirmed)
      PROVE  \/ cache'[c][t] = cache[c][t]
             \/ cache'[c][t] = [kind |-> "entry", value |-> status'[t], loadedAt |-> now]
  BY <1>3 DEF CommitUpdate, WriteEvent
<1>4. ASSUME NEW d \in Clients, RestartClient(d)
      PROVE  cache'[c][t] = cache[c][t] \/ cache'[c][t] = NoEntry
  BY <1>4 DEF RestartClient
<1>5. QED
  BY <1>1, <1>2, <1>3, <1>4
  DEF Next, ClientNext, MonitorNext, vars, Tick,
      CheckFromCache, LogRejection, RecordRejection, BeginUpdate, Abandon,
      StartSweep, CommitSweep, AbandonSweep, ReportAlert, EndSweep, RestartMonitor

\* The clock never goes back.
LEMMA ClockStep ==
  ASSUME TypeOK, [Next]_vars
  PROVE  now \in Nat /\ now' \in Nat /\ now <= now'
<1>1. CASE Tick
  BY <1>1 DEF Tick, TypeOK
<1>2. ASSUME NEW c \in Clients, ClientNext(c)
      PROVE  now' = now
  BY <1>2 DEF ClientNext, CheckFeasibility, CheckFromCache, LogRejection,
     RecordRejection, BeginUpdate, CommitUpdate, Abandon, RestartClient
<1>3. CASE MonitorNext
  BY <1>3 DEF MonitorNext, StartSweep, CommitSweep, AbandonSweep, ReportAlert,
     EndSweep, RestartMonitor, TypeOK
<1>4. QED
  BY <1>1, <1>2, <1>3 DEF Next, vars, TypeOK

\* A grant given while the database is out of reach rests on a status that held
\* no longer ago than the time to live, whatever other processes wrote since.
THEOREM CachedGrantsAreRecent == Spec => []CachedGrantIsRecent
<1>1. Init => CachesWereTrue
  BY DEF Init, CachesWereTrue
<1>2. TypeOK /\ CachesWereTrue /\ [Next]_vars => CachesWereTrue'
  <2> SUFFICES ASSUME TypeOK, CachesWereTrue, [Next]_vars,
                      NEW c \in Clients, NEW t \in Tools, cache'[c][t] # NoEntry
               PROVE  /\ cache'[c][t].loadedAt <= now'
                      /\ HeldSince(log'[t], status'[t], cache'[c][t].value,
                                   cache'[c][t].loadedAt)
    BY DEF CachesWereTrue
  <2>1. now \in Nat /\ now' \in Nat /\ now <= now'
    BY ClockStep
  <2>2. CASE cache'[c][t] = cache[c][t]
    <3>1. cache[c][t] \in Entry
      BY <2>2 DEF TypeOK
    <3>2. cache[c][t].loadedAt \in Nat
      BY <3>1 DEF Entry
    <3>3. /\ cache[c][t].loadedAt <= now
          /\ HeldSince(log[t], status[t], cache[c][t].value, cache[c][t].loadedAt)
      BY <2>2 DEF CachesWereTrue
    <3>4. HeldSince(log'[t], status'[t], cache[c][t].value, cache[c][t].loadedAt)
      BY <3>2, <3>3, HeldPersists
    <3>5. QED
      BY <2>1, <2>2, <3>2, <3>3, <3>4
  <2>3. CASE cache'[c][t] = [kind |-> "entry", value |-> status'[t], loadedAt |-> now]
    BY <2>1, <2>3 DEF HeldSince
  <2>4. QED
    BY <2>2, <2>3, CacheStep
<1>3. TypeOK /\ CachesWereTrue => CachedGrantIsRecent
  <2> SUFFICES ASSUME TypeOK, CachesWereTrue, NEW c \in Clients, NEW t \in Tools,
                      NEW intent \in Intents, GrantsFromCache(c, intent, t)
               PROVE  HeldSince(log[t], status[t], Required(intent), now - TTL)
    BY DEF CachedGrantIsRecent
  <2>1. cache[c][t] \in Entry
    BY DEF GrantsFromCache, Usable, TypeOK
  <2>2. /\ cache[c][t].loadedAt \in Nat /\ now \in Nat
        /\ now - TTL <= cache[c][t].loadedAt
        /\ cache[c][t].value = Required(intent)
    BY <2>1, TimesAssumption DEF GrantsFromCache, Usable, TypeOK, Entry
  <2>3. HeldSince(log[t], status[t], Required(intent), cache[c][t].loadedAt)
    BY <2>2 DEF CachesWereTrue, GrantsFromCache, Usable
  <2>4. \A i \in Changes(log[t]) : log[t][i].committedAt \in Nat
    <3>1. log[t] \in Seq(Event) /\ Changes(log[t]) \subseteq DOMAIN log[t]
      BY DEF TypeOK, Changes
    <3>2. \A i \in DOMAIN log[t] : log[t][i] \in Event
      BY <3>1
    <3>3. QED
      BY <3>1, <3>2 DEF Event
  <2>5. QED
    BY <2>2, <2>3, <2>4, TimesAssumption DEF HeldSince
<1>4. QED
  BY <1>1, <1>2, <1>3, TypeCorrect, PTL DEF Spec

----------------------------------------------------------------------------
(* The critical rows *)

\* a = <<tool, position>> is an alert committed in the logs lg.
IsAlert(lg, a) ==
  a[1] \in Tools /\ a[2] \in DOMAIN lg[a[1]] /\ lg[a[1]][a[2]].type = "fod_alert"

\* The rows written, and those the monitor still means to write.
AlertsAreReal ==
  /\ \A a \in alertRows : IsAlert(log, a)
  /\ monitor.kind = "report" => \A a \in monitor.todo : IsAlert(log, a)

\* tool_events is append-only: no step removes or alters an event.
LEMMA LogKeeps ==
  ASSUME TypeOK, [Next]_vars, NEW t \in Tools, NEW i \in DOMAIN log[t]
  PROVE  i \in DOMAIN log'[t] /\ log'[t][i] = log[t][i]
<1>1. log[t] \in Seq(Event)
  BY DEF TypeOK
<1>2. CASE Untouched(t)
  BY <1>2 DEF Untouched
<1>3. CASE \E e \in Event : log'[t] = Append(log[t], e)
  BY <1>1, <1>3, AppendFacts
<1>4. QED
  BY <1>2, <1>3, StepOnTool DEF Refused, Recorded

\* A critical row is always the row of an escalation that was committed.
THEOREM AlertRowsAlwaysReal == Spec => []AlertRowsAreReal
<1>1. Init => AlertsAreReal
  BY DEF Init, AlertsAreReal, Resting
<1>2. TypeOK /\ AlertsAreReal /\ [Next]_vars => AlertsAreReal'
  <2> SUFFICES ASSUME TypeOK, AlertsAreReal, [Next]_vars PROVE AlertsAreReal'
    OBVIOUS
  <2>1. \A a : IsAlert(log, a) => IsAlert(log', a)
    BY LogKeeps DEF IsAlert
  <2>2. CASE UNCHANGED <<alertRows, monitor>>
    BY <2>1, <2>2 DEF AlertsAreReal
  <2>3. CASE CommitSweep
    <3>1. monitor \in Sweeping
      BY <2>3 DEF CommitSweep, Resting, Reporting, TypeOK
    <3> DEFINE due == {t \in Tools : Overdue(t, monitor.stamp)}
               alerted == Alerts(due)
               ev(t) == [type |-> StageEvent(status[t]), before |-> status[t],
                         after |-> NextStage(status[t]),
                         stamp |-> monitor.stamp, committedAt |-> now]
    <3>2. /\ alertRows' = alertRows
          /\ monitor' = [kind |-> "report", todo |-> {<<t, Len(log'[t])>> : t \in alerted}]
      BY <2>3 DEF CommitSweep
    <3>3. ASSUME NEW t \in alerted
          PROVE  IsAlert(log', <<t, Len(log'[t])>>)
      <4>0. t \in due /\ t \in Tools /\ NextStage(status[t]) = "fod_alert"
        BY DEF Alerts
      <4>1. log'[t] = Append(log[t], ev(t))
        BY <2>3, <4>0 DEF CommitSweep
      <4>2. ev(t) \in Event
        BY <3>1, <4>0 DEF Sweeping, Event, NextStage, StageEvent, EventTypes, Statuses,
           TypeOK
      <4>3. log[t] \in Seq(Event) /\ ev(t).type = "fod_alert"
        BY <4>0 DEF TypeOK, NextStage, StageEvent
      <4>4. /\ Len(log'[t]) \in DOMAIN log'[t]
            /\ log'[t][Len(log'[t])] = ev(t)
        BY <4>1, <4>2, <4>3
      <4>5. QED
        BY <4>0, <4>3, <4>4 DEF IsAlert
    <3>4. \A a \in monitor'.todo : IsAlert(log', a)
      BY <3>2, <3>3
    <3>5. QED
      BY <2>1, <3>2, <3>4 DEF AlertsAreReal
  <2>4. ASSUME NEW written \in BOOLEAN, ReportAlert(written)
        PROVE  AlertsAreReal'
    BY <2>1, <2>4 DEF AlertsAreReal, ReportAlert, TypeOK, Resting, Sweeping, Reporting
  <2>5. CASE StartSweep \/ AbandonSweep \/ EndSweep \/ RestartMonitor
    BY <2>1, <2>5
    DEF AlertsAreReal, StartSweep, AbandonSweep, EndSweep, RestartMonitor, Resting
  <2>6. ASSUME NEW c \in Clients, ClientNext(c)
        PROVE  UNCHANGED <<alertRows, monitor>>
    BY <2>6 DEF ClientNext, CheckFeasibility, CheckFromCache, LogRejection,
       RecordRejection, BeginUpdate, CommitUpdate, Abandon, RestartClient
  <2>7. QED
    BY <2>2, <2>3, <2>4, <2>5, <2>6 DEF Next, MonitorNext, Tick, vars
<1>3. AlertsAreReal => AlertRowsAreReal
  BY DEF AlertsAreReal, AlertRowsAreReal, IsAlert
<1>4. QED
  BY <1>1, <1>2, <1>3, TypeCorrect, PTL DEF Spec

----------------------------------------------------------------------------
(* The store implements the life cycle *)

\* The cause of a status is the type of the newest change.
LEMMA CauseOfNewest ==
  ASSUME NEW l \in Seq(Event), NEW i \in DOMAIN l, Newest(l, i)
  PROVE  Cause(l) = l[i].type
<1>1. \A j \in DOMAIN l : Newest(l, j) => j = i
  BY NewestIsUnique
<1>2. QED
  BY <1>1 DEF Cause

\* A change becomes the cause of the status.
LEMMA CauseAfterChange ==
  ASSUME NEW l \in Seq(Event), NEW e \in Event, e.type # "rejected"
  PROVE  Cause(Append(l, e)) = e.type
<1> DEFINE m == Append(l, e)
           n == Len(l) + 1
<1>1. m \in Seq(Event) /\ n \in DOMAIN m /\ m[n] = e
  BY AppendFacts
<1>2. Newest(m, n)
  BY AppendChange
<1>3. QED
  BY <1>1, <1>2, CauseOfNewest

\* A rejection is never the cause of a status.
LEMMA CauseAfterRejection ==
  ASSUME NEW l \in Seq(Event), NEW e \in Event, e.type = "rejected"
  PROVE  Cause(Append(l, e)) = Cause(l)
<1> DEFINE m == Append(l, e)
<1>1. /\ \A i : Newest(m, i) <=> Newest(l, i)
      /\ DOMAIN l \subseteq DOMAIN m /\ m \in Seq(Event)
      /\ \A i \in DOMAIN l : m[i] = l[i]
  BY AppendRejected, AppendFacts
<1>2. \A i : Newest(l, i) => i \in DOMAIN l
  BY DEF Newest, Changes
<1>3. CASE \E i \in DOMAIN l : Newest(l, i)
  <2>1. PICK i \in DOMAIN l : Newest(l, i)
    BY <1>3
  <2>2. Cause(l) = l[i].type
    BY <2>1, CauseOfNewest
  <2>3. Cause(m) = m[i].type
    BY <1>1, <2>1, CauseOfNewest
  <2>4. QED
    BY <1>1, <2>2, <2>3
<1>4. CASE ~\E i \in DOMAIN l : Newest(l, i)
  BY <1>1, <1>2, <1>4 DEF Cause
<1>5. QED
  BY <1>3, <1>4

\* A tool nothing was recorded about has no cause.
LEMMA EmptyLogHasNoCause == Cause(<<>>) = "none"
  BY DEF Cause

\* update_tool_status is a move, a noted error or a reconciliation.
LEMMA UpdateImplements ==
  ASSUME TypeOK, NEW c \in Clients, NEW t \in Tools, NEW new \in Statuses,
         NEW type \in EventTypes, NEW confirmed \in BOOLEAN,
         CommitUpdate(c, t, new, type, confirmed)
  PROVE  Lifecycle!Move(t) \/ Lifecycle!NoteError(t) \/ Lifecycle!Reconcile(t)
<1>1. op[c] \in Updating
  BY OpKinds DEF CommitUpdate, TypeOK
<1> DEFINE e == [type |-> type, before |-> status[t], after |-> new,
                 stamp |-> op[c].stamp, committedAt |-> now]
<1>2. e \in Event /\ log[t] \in Seq(Event)
  BY <1>1 DEF Updating, Event, TypeOK
<1>3. /\ log' = [log EXCEPT ![t] = Append(@, e)]
      /\ status' = [status EXCEPT ![t] = new]
      /\ LegalTransition(status[t], new, type, confirmed)
  BY DEF CommitUpdate, WriteEvent
<1>4. type # "rejected"
  BY <1>3 DEF LegalTransition, Allowed
<1>5. Cause(log'[t]) = type
  BY <1>2, <1>3, <1>4, CauseAfterChange DEF TypeOK
<1>6. \A u \in Tools : u # t => log'[u] = log[u]
  BY <1>3 DEF TypeOK
<1>7. [u \in Tools |-> Cause(log[u])]' = [[u \in Tools |-> Cause(log[u])] EXCEPT ![t] = type]
  BY <1>5, <1>6
<1>8. Lifecycle!Record(t, new, type)
  BY <1>3, <1>7 DEF Lifecycle!Record
<1>9. QED
  BY <1>3, <1>8
  DEF LegalTransition, Allowed, Lifecycle!Move, Lifecycle!NoteError,
      Lifecycle!Reconcile, Lifecycle!Moves, Lifecycle!Statuses, Statuses

\* One sweep of the monitor is one escalation of the overdue tools.
LEMMA SweepImplements ==
  ASSUME TypeOK, CommitSweep
  PROVE  Lifecycle!Escalate
<1>1. monitor \in Sweeping
  BY DEF CommitSweep, Resting, Reporting, TypeOK
<1> DEFINE due == {t \in Tools : Overdue(t, monitor.stamp)}
           ev(t) == [type |-> StageEvent(status[t]), before |-> status[t],
                     after |-> NextStage(status[t]),
                     stamp |-> monitor.stamp, committedAt |-> now]
<1>2. /\ log' = [t \in Tools |-> IF t \in due THEN Append(log[t], ev(t)) ELSE log[t]]
      /\ status' = [t \in Tools |-> IF t \in due THEN NextStage(status[t]) ELSE status[t]]
  BY DEF CommitSweep
<1>3. ASSUME NEW t \in due
      PROVE  Cause(log'[t]) = StageEvent(status[t])
  <2>1. ev(t) \in Event /\ log[t] \in Seq(Event) /\ ev(t).type # "rejected"
    BY <1>1 DEF Sweeping, Event, NextStage, StageEvent, EventTypes, Statuses, TypeOK
  <2>2. QED
    BY <1>2, <2>1, CauseAfterChange
<1>4. due \in SUBSET {t \in Tools : status[t] \in {"out", "staged", "missing"}}
  BY DEF Overdue
<1>5. status' = [t \in Tools |-> IF t \in due THEN Lifecycle!Escalated(status[t])
                                             ELSE status[t]]
  BY <1>2 DEF NextStage, Lifecycle!Escalated
<1>6. [t \in Tools |-> Cause(log[t])]' =
        [t \in Tools |-> IF t \in due THEN Lifecycle!Reason(status[t])
                         ELSE [u \in Tools |-> Cause(log[u])][t]]
  BY <1>2, <1>3 DEF StageEvent, Lifecycle!Reason
<1> HIDE DEF due
<1>7. QED
  BY <1>4, <1>5, <1>6 DEF Lifecycle!Escalate

\* Every run of the store is a run of the tool life cycle: no interleaving of
\* clients, monitor, refusals and restarts lets a tool leave missing or
\* fod_alert unattended, or take a move the whitelist does not have.
THEOREM StoreImplementsLifecycle == Spec => ImplementsLifecycle
<1>1. Init => Lifecycle!Init
  BY EmptyLogHasNoCause DEF Init, Lifecycle!Init
<1>2. TypeOK /\ [Next]_vars => [Lifecycle!Next]_(Lifecycle!vars)
  <2> SUFFICES ASSUME TypeOK, [Next]_vars
               PROVE  Lifecycle!Next \/ UNCHANGED Lifecycle!vars
    OBVIOUS
  <2>1. CASE UNCHANGED <<status, log>>
    BY <2>1 DEF Lifecycle!vars
  <2>2. ASSUME NEW c \in Clients, RecordRejection(c)
        PROVE  UNCHANGED Lifecycle!vars
    <3>1. op[c] \in Rejecting
      BY <2>2, OpKinds DEF RecordRejection, TypeOK
    <3> DEFINE u == op[c].tool
               e == [type |-> "rejected", before |-> op[c].seen,
                     after |-> op[c].seen, stamp |-> 0, committedAt |-> 0]
    <3>2. u \in Tools /\ e \in Event /\ log[u] \in Seq(Event) /\ e.type = "rejected"
      BY <3>1 DEF Rejecting, Event, EventTypes, TypeOK
    <3>3. log' = [log EXCEPT ![u] = Append(@, e)] /\ status' = status
      BY <2>2 DEF RecordRejection
    <3>4. Cause(Append(log[u], e)) = Cause(log[u])
      BY <3>2, CauseAfterRejection
    <3>5. \A t \in Tools : Cause(log'[t]) = Cause(log[t])
      BY <3>2, <3>3, <3>4 DEF TypeOK
    <3>6. QED
      BY <3>3, <3>5 DEF Lifecycle!vars
  <2>3. ASSUME NEW c \in Clients, NEW t \in Tools, NEW new \in Statuses,
               NEW type \in EventTypes, NEW confirmed \in BOOLEAN,
               CommitUpdate(c, t, new, type, confirmed)
        PROVE  Lifecycle!Next
    BY <2>3, UpdateImplements DEF Lifecycle!Next
  <2>4. CASE CommitSweep
    BY <2>4, SweepImplements DEF Lifecycle!Next
  <2>5. QED
    BY <2>1, <2>2, <2>3, <2>4
    DEF Next, ClientNext, MonitorNext, vars, storeVars, Tick, CheckFeasibility,
        CheckFromCache, LogRejection, BeginUpdate, Abandon, StartSweep,
        AbandonSweep, ReportAlert, EndSweep, RestartClient, RestartMonitor
<1>3. QED
  BY <1>1, <1>2, TypeCorrect, PTL DEF Spec, ImplementsLifecycle, Lifecycle!Spec
=============================================================================

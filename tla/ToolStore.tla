----------------------------- MODULE ToolStore -----------------------------
(***************************************************************************)
(* db_core/repository.py and the processes that share its SQLite file: the *)
(* db service node and any in-process client (Clients, each one            *)
(* ToolRepository with a status cache of its own) and the FOD monitor      *)
(* node.  Every process is single threaded; SQLite serialises their        *)
(* BEGIN IMMEDIATE transactions, so a committed transaction is one step.   *)
(* What is NOT one step is what the code does around it: the instant is    *)
(* taken before the write lock is waited for, a rejection is appended on a *)
(* connection opened after the status was read on another, and the alert   *)
(* rows follow the escalation in transactions of their own.                *)
(*                                                                         *)
(* Any statement may raise sqlite3.Error (busy timeout, disk, schema) and  *)
(* any process may die between two steps.                                  *)
(***************************************************************************)
EXTENDS Integers, Sequences, FiniteSets

CONSTANTS
  Tools,      \* rows of table tools
  Clients,    \* processes that hold a ToolRepository and serve requests
  Timeout,    \* checkout_timeout: out/staged -> missing
  Grace,      \* alert_grace: missing -> fod_alert
  TTL,        \* DB_CACHE_TTL_SECONDS
  MaxClock,   \* bound on the clock
  MaxLog      \* bound on the events one tool collects from the clients

ASSUME ToolsAssumption == IsFiniteSet(Tools)
ASSUME TimesAssumption == /\ Timeout \in Nat \ {0}
                          /\ Grace \in Nat \ {0}
                          /\ TTL \in Nat
ASSUME BoundsAssumption == MaxClock \in Nat /\ MaxLog \in Nat

VARIABLES
  now,        \* the clock, in units of the timeouts
  status,     \* tools.current_status
  updated,    \* tools.last_updated
  lastEvent,  \* tools.last_event_id, as a position in the tool's own log
  log,        \* tool_events, one append-only sequence per tool
  alertRows,  \* system_events: the <<tool, position>> alerts that got a row
  cache,      \* per process: _status_cache
  op,         \* per client: what its single thread is in the middle of
  monitor     \* the FOD monitor's poll

storeVars == <<status, updated, lastEvent, log>>
vars == <<now, status, updated, lastEvent, log, alertRows, cache, op, monitor>>

----------------------------------------------------------------------------
Statuses   == {"in_slot", "out", "staged", "missing", "fod_alert"}
EventTypes == {"fetch", "return", "rejected", "error", "timeout",
               "fod_alert", "reconciled"}
Intents    == {"fetch", "return"}

\* committedAt is not a column: it is the instant the transaction became
\* visible, where stamp is the instant the code read before it began.  The
\* instants of a 'rejected' event are left out (0): no other code reads them.
Event == [type : EventTypes, before : Statuses, after : Statuses,
          stamp : Nat, committedAt : Nat]

NoEntry == [kind |-> "none"]
Entry   == [kind : {"entry"}, value : Statuses, loadedAt : Nat]

Idle      == [kind |-> "idle"]
Updating  == [kind : {"update"}, stamp : Nat]
Rejecting == [kind : {"reject"}, tool : Tools, seen : Statuses]

Resting   == [kind |-> "resting"]
Sweeping  == [kind : {"sweep"}, stamp : Nat]
Reporting == [kind : {"report"}, todo : SUBSET (Tools \X Nat)]

TypeOK ==
  /\ now \in Nat
  /\ status \in [Tools -> Statuses]
  /\ updated \in [Tools -> Nat]
  /\ lastEvent \in [Tools -> Nat]
  /\ log \in [Tools -> Seq(Event)]
  /\ alertRows \subseteq Tools \X Nat
  /\ cache \in [Clients -> [Tools -> {NoEntry} \cup Entry]]
  /\ op \in [Clients -> {Idle} \cup Updating \cup Rejecting]
  /\ monitor \in {Resting} \cup Sweeping \cup Reporting

\* scripts/seed_demo_db.py: a fresh file, every tool registered in its slot.
Init ==
  /\ now = 0
  /\ status = [t \in Tools |-> "in_slot"]
  /\ updated = [t \in Tools |-> 0]
  /\ lastEvent = [t \in Tools |-> 0]
  /\ log = [t \in Tools |-> <<>>]
  /\ alertRows = {}
  /\ cache = [c \in Clients |-> [t \in Tools |-> NoEntry]]
  /\ op = [c \in Clients |-> Idle]
  /\ monitor = Resting

Tick ==
  /\ now < MaxClock
  /\ now' = now + 1
  /\ UNCHANGED <<storeVars, alertRows, cache, op, monitor>>

----------------------------------------------------------------------------
(* The DB gate: check_feasibility *)

\* _check_status: the only status each intent may start from.
Required(intent) == IF intent = "fetch" THEN "in_slot" ELSE "staged"

\* Mutant: the age of the entry is not looked at.
UsableForever(c, t) == cache[c][t] # NoEntry

\* _cached_status: the entry counts only while it is within the TTL.
Usable(c, t) ==
  /\ cache[c][t] # NoEntry
  /\ now - cache[c][t].loadedAt <= TTL

\* The gate's verdict on a status.  A refusal leaves the client about to
\* append a 'rejected' event that repeats the status it has just seen.
Judge(c, intent, t, seen) ==
  op' = IF seen = Required(intent)
        THEN op
        ELSE [op EXCEPT ![c] = [kind |-> "reject", tool |-> t, seen |-> seen]]

\* The read and the stamp of its cache entry, two statements on
\* (repository.py:182), fall into one unit of the clock.
CheckFeasibility(c, intent, t) ==
  /\ op[c] = Idle
  /\ cache' = [cache EXCEPT ![c][t] =
                 [kind |-> "entry", value |-> status[t], loadedAt |-> now]]
  /\ Judge(c, intent, t, status[t])
  /\ UNCHANGED <<now, storeVars, alertRows, monitor>>

\* The SELECT raised sqlite3.Error: the answer comes from this process's
\* cache, or is a plain refusal when there is nothing usable in it.
CheckFromCache(c, intent, t) ==
  /\ op[c] = Idle
  /\ Usable(c, t)
  /\ Judge(c, intent, t, cache[c][t].value)
  /\ UNCHANGED <<now, storeVars, alertRows, cache, monitor>>

\* Whether the gate could answer "feasible" from its cache now.
GrantsFromCache(c, intent, t) ==
  Usable(c, t) /\ cache[c][t].value = Required(intent)

----------------------------------------------------------------------------
(* Rejections: log_rejection, and the second half of a refused check *)

LogRejection(c, t) ==
  /\ op[c] = Idle
  /\ op' = [op EXCEPT ![c] = [kind |-> "reject", tool |-> t, seen |-> status[t]]]
  /\ UNCHANGED <<now, storeVars, alertRows, cache, monitor>>

\* The bound MaxLog counts what the clients record, never the escalations.
Room(t) ==
  Cardinality({i \in DOMAIN log[t] : log[t][i].type \notin {"timeout", "fod_alert"}})
    < MaxLog

\* Mutant: the rejection writes the whole row back (_update_tool_row).
RejectionRewritesRow(c) ==
  /\ op[c].kind = "reject"
  /\ LET t == op[c].tool IN
       /\ Room(t)
       /\ log' = [log EXCEPT ![t] = Append(@,
                    [type |-> "rejected", before |-> op[c].seen,
                     after |-> op[c].seen, stamp |-> 0, committedAt |-> 0])]
       /\ status' = [status EXCEPT ![t] = op[c].seen]
       /\ lastEvent' = [lastEvent EXCEPT ![t] = Len(log'[t])]
  /\ op' = [op EXCEPT ![c] = Idle]
  /\ UNCHANGED <<now, updated, alertRows, cache, monitor>>

\* _append_rejection: the event and last_event_id, nothing else of the row.
RecordRejection(c) ==
  /\ op[c].kind = "reject"
  /\ LET t == op[c].tool IN
       /\ Room(t)
       /\ log' = [log EXCEPT ![t] = Append(@,
                    [type |-> "rejected", before |-> op[c].seen,
                     after |-> op[c].seen, stamp |-> 0, committedAt |-> 0])]
       /\ lastEvent' = [lastEvent EXCEPT ![t] = Len(log'[t])]
  /\ op' = [op EXCEPT ![c] = Idle]
  /\ UNCHANGED <<now, status, updated, alertRows, cache, monitor>>

----------------------------------------------------------------------------
(* update_tool_status *)

\* _ALLOWED_TRANSITIONS
Allowed == { <<"in_slot", "out",     "fetch">>,
             <<"out",     "staged",  "fetch">>,
             <<"staged",  "out",     "return">>,
             <<"out",     "in_slot", "return">> }

\* Mutant: an error may come with a new status.
ErrorMovesTool(before, new, type, confirmed) ==
  \/ type = "reconciled" /\ confirmed
  \/ type = "error"
  \/ /\ type \notin {"reconciled", "error"}
     /\ new \notin {"missing", "fod_alert"}
     /\ <<before, new, type>> \in Allowed

\* _validate_transition.  confirmed: the notes are not blank.
LegalTransition(before, new, type, confirmed) ==
  \/ type = "reconciled" /\ confirmed
  \/ type = "error" /\ new = before
  \/ /\ type \notin {"reconciled", "error"}
     /\ new \notin {"missing", "fod_alert"}
     /\ <<before, new, type>> \in Allowed

\* Insert one event and rewrite the snapshot row, in one transaction.
\* last_updated is the instant taken before the transaction.
WriteEvent(t, type, new, stamp) ==
  /\ log' = [log EXCEPT ![t] = Append(@,
               [type |-> type, before |-> status[t], after |-> new,
                stamp |-> stamp, committedAt |-> now])]
  /\ status' = [status EXCEPT ![t] = new]
  /\ updated' = [updated EXCEPT ![t] = stamp]
  /\ lastEvent' = [lastEvent EXCEPT ![t] = Len(log'[t])]

\* The request has been validated and its instant taken; BEGIN IMMEDIATE waits.
BeginUpdate(c) ==
  /\ op[c] = Idle
  /\ op' = [op EXCEPT ![c] = [kind |-> "update", stamp |-> now]]
  /\ UNCHANGED <<now, storeVars, alertRows, cache, monitor>>

CommitUpdate(c, t, new, type, confirmed) ==
  /\ op[c].kind = "update"
  /\ Room(t)
  /\ LegalTransition(status[t], new, type, confirmed)
  /\ WriteEvent(t, type, new, op[c].stamp)
  /\ cache' = [cache EXCEPT ![c][t] =
                 [kind |-> "entry", value |-> new, loadedAt |-> now]]
  /\ op' = [op EXCEPT ![c] = Idle]
  /\ UNCHANGED <<now, alertRows, monitor>>

\* A request the transition check refuses, or a transaction that raised:
\* an update or a rejection is dropped with nothing written.
Abandon(c) ==
  /\ op[c] # Idle
  /\ op' = [op EXCEPT ![c] = Idle]
  /\ UNCHANGED <<now, storeVars, alertRows, cache, monitor>>

----------------------------------------------------------------------------
(* mark_checkout_timeouts, called by the FOD monitor's timer *)

\* Mutant: the two delays are handed over in the wrong order.
LimitSwapped(s) == IF s = "missing" THEN Timeout ELSE Grace

Limit(s) == IF s = "missing" THEN Grace ELSE Timeout

\* Mutant: the SELECT forgets the staging area.
OverdueUnlessStaged(t, stamp) ==
  /\ status[t] \in {"out", "missing"}
  /\ stamp - updated[t] >= Limit(status[t])

Overdue(t, stamp) ==
  /\ status[t] \in {"out", "staged", "missing"}
  /\ stamp - updated[t] >= Limit(status[t])

\* Mutant: a status taken from the event types.
NextStageIsEvent(s) == IF s = "missing" THEN "fod_alert" ELSE "timeout"

NextStage(s)  == IF s = "missing" THEN "fod_alert" ELSE "missing"
StageEvent(s) == IF s = "missing" THEN "fod_alert" ELSE "timeout"

StartSweep ==
  /\ monitor = Resting
  /\ monitor' = [kind |-> "sweep", stamp |-> now]
  /\ UNCHANGED <<now, storeVars, alertRows, cache, op>>

\* Mutant: every change of the sweep is reported as an alert.
EveryChange(due) == due

\* The changes of a sweep that also get a row in system_events.
Alerts(due) == {t \in due : NextStage(status[t]) = "fod_alert"}

\* One transaction over every overdue tool.
CommitSweep ==
  /\ monitor.kind = "sweep"
  /\ LET due == {t \in Tools : Overdue(t, monitor.stamp)}
     IN  /\ log' = [t \in Tools |->
              IF t \in due
              THEN Append(log[t], [type |-> StageEvent(status[t]),
                                   before |-> status[t],
                                   after |-> NextStage(status[t]),
                                   stamp |-> monitor.stamp,
                                   committedAt |-> now])
              ELSE log[t]]
         /\ status' = [t \in Tools |-> IF t \in due THEN NextStage(status[t])
                                                    ELSE status[t]]
         /\ updated' = [t \in Tools |-> IF t \in due THEN monitor.stamp
                                                     ELSE updated[t]]
         /\ lastEvent' = [t \in Tools |-> IF t \in due THEN Len(log'[t])
                                                       ELSE lastEvent[t]]
         /\ monitor' = [kind |-> "report",
                        todo |-> {<<t, Len(log'[t])>> : t \in Alerts(due)}]
  /\ UNCHANGED <<now, alertRows, cache, op>>

\* The transaction raised: the poll logs it and waits for the next timer.
AbandonSweep ==
  /\ monitor.kind = "sweep"
  /\ monitor' = Resting
  /\ UNCHANGED <<now, storeVars, alertRows, cache, op>>

\* log_system_event for one committed alert.  written = FALSE: that
\* transaction failed, which the code only reports to its own logger.
ReportAlert(written) ==
  /\ monitor.kind = "report"
  /\ \E a \in monitor.todo :
       /\ alertRows' = IF written THEN alertRows \cup {a} ELSE alertRows
       /\ monitor' = [monitor EXCEPT !.todo = @ \ {a}]
  /\ UNCHANGED <<now, storeVars, cache, op>>

EndSweep ==
  /\ monitor.kind = "report"
  /\ monitor.todo = {}
  /\ monitor' = Resting
  /\ UNCHANGED <<now, storeVars, alertRows, cache, op>>

----------------------------------------------------------------------------
(* A process dies and is started again: its memory is gone, the file stays *)

RestartClient(c) ==
  /\ op' = [op EXCEPT ![c] = Idle]
  /\ cache' = [cache EXCEPT ![c] = [t \in Tools |-> NoEntry]]
  /\ UNCHANGED <<now, storeVars, alertRows, monitor>>

RestartMonitor ==
  /\ monitor' = Resting
  /\ UNCHANGED <<now, storeVars, alertRows, cache, op>>

----------------------------------------------------------------------------
ClientNext(c) ==
  \/ \E t \in Tools, intent \in Intents :
       CheckFeasibility(c, intent, t) \/ CheckFromCache(c, intent, t)
  \/ \E t \in Tools : LogRejection(c, t)
  \/ RecordRejection(c)
  \/ BeginUpdate(c)
  \/ \E t \in Tools, new \in Statuses, type \in EventTypes, confirmed \in BOOLEAN :
       CommitUpdate(c, t, new, type, confirmed)
  \/ Abandon(c)
  \/ RestartClient(c)

MonitorNext ==
  \/ StartSweep
  \/ CommitSweep
  \/ AbandonSweep
  \/ \E written \in BOOLEAN : ReportAlert(written)
  \/ EndSweep
  \/ RestartMonitor

Next == Tick \/ MonitorNext \/ \E c \in Clients : ClientNext(c)

Spec == Init /\ [][Next]_vars

\* The clock runs, the timer fires, and a sweep does not fail for ever
\* (WAL and the busy timeout make a writer wait, not fail).  Nothing is
\* assumed of the clients: they may stop, fail or die at any point.
Fairness ==
  /\ WF_vars(Tick)
  /\ WF_vars(StartSweep)
  /\ SF_vars(CommitSweep)
  /\ WF_vars(EndSweep)
  /\ WF_vars(\E written \in BOOLEAN : ReportAlert(written))

FairSpec == Spec /\ Fairness

----------------------------------------------------------------------------
(* Properties *)

\* The positions of a log that changed (or confirmed) the tool's status.
Changes(l) == {i \in DOMAIN l : l[i].type # "rejected"}

\* j is the change that comes next after the change i.
Follows(l, i, j) ==
  /\ i \in Changes(l) /\ j \in Changes(l) /\ i < j
  /\ \A k \in Changes(l) : k <= i \/ j <= k

Newest(l, i) == i \in Changes(l) /\ \A k \in Changes(l) : k <= i
Oldest(l, i) == i \in Changes(l) /\ \A k \in Changes(l) : i <= k

\* The log l accounts for a row with status s, last updated at u.
Explains(l, s, u) ==
  /\ Changes(l) = {} => s = "in_slot"
  /\ \A i \in DOMAIN l :
       /\ Oldest(l, i) => l[i].before = "in_slot"
       /\ Newest(l, i) => l[i].after = s /\ l[i].stamp = u
  /\ \A i, j \in DOMAIN l : Follows(l, i, j) => l[j].before = l[i].after

\* The audit log is a complete account of the snapshot: the changes of a tool
\* chain from its first status to the current one, with no gap, whichever
\* process wrote each of them and whatever was stale when it did
\* (update_tool_status and mark_checkout_timeouts re-read the row inside the
\* transaction that writes it).
LogExplainsSnapshot ==
  \A t \in Tools : Explains(log[t], status[t], updated[t])

\* Event j of the log comes at least d after a change to one of the statuses S,
\* with no change in between.
WaitedIn(l, j, S, d) ==
  \E i \in DOMAIN l : /\ Follows(l, i, j)
                      /\ l[i].after \in S
                      /\ l[i].stamp + d <= l[j].stamp

\* The monitor never hurries: it declares a tool missing only when nothing was
\* recorded about it for the whole checkout timeout, and raises the alert only
\* when it had been missing for the whole grace period, both measured between
\* the recorded instants, however long each writer waited for the lock.
Paced(l) ==
  \A j \in DOMAIN l :
    /\ l[j].type = "timeout"   => WaitedIn(l, j, {"out", "staged"}, Timeout)
    /\ l[j].type = "fod_alert" => WaitedIn(l, j, {"missing"}, Grace)
EscalationIsPaced == \A t \in Tools : Paced(log[t])

\* Status s was, at some instant not before x, what the database said of a
\* tool whose log is l and whose status is now cur.
HeldSince(l, cur, s, x) ==
  \/ cur = s
  \/ \E i \in Changes(l) : l[i].before = s /\ l[i].committedAt >= x

\* With the database unreachable the gate answers from memory, but never from
\* a status that stopped being true longer ago than the cache's time to live.
CachedGrantIsRecent ==
  \A c \in Clients, t \in Tools, intent \in Intents :
    GrantsFromCache(c, intent, t) =>
      HeldSince(log[t], status[t], Required(intent), now - TTL)

\* A critical row for the operators is only ever the row of an escalation that
\* was committed: it is written after the transition and never instead of it.
AlertRowsAreReal ==
  \A a \in alertRows :
    a[2] \in DOMAIN log[a[1]] /\ log[a[1]][a[2]].type = "fod_alert"

\* The event that explains a tool's current status.
Cause(l) == IF \E i \in DOMAIN l : Newest(l, i)
            THEN l[CHOOSE i \in DOMAIN l : Newest(l, i)].type
            ELSE "none"

\* The store implements the life cycle it promises to its readers.
Lifecycle == INSTANCE ToolLifecycle WITH cause <- [t \in Tools |-> Cause(log[t])]
ImplementsLifecycle == Lifecycle!Spec

\* A tool left out, staged or missing past its limit is not forgotten: within
\* the horizon of the clock, either somebody records something about it or the
\* monitor raises it to the next stage.
EscalationHappens ==
  \A t \in Tools, s \in {"out", "staged", "missing"} :
    LET Pending == status[t] = s /\ updated[t] + Limit(s) <= MaxClock
    IN  Pending ~> ~Pending
=============================================================================

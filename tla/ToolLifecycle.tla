--------------------------- MODULE ToolLifecycle ---------------------------
(***************************************************************************)
(* What the tool store promises about one cabinet of tools, whoever writes *)
(* to it: a tool only moves along the pick/place edges, is declared        *)
(* missing and then raised as a FOD alert by the monitor, and leaves those *)
(* two statuses only by a reconciliation an operator confirmed.            *)
(*                                                                         *)
(* cause[t] names the kind of event that produced status[t]; a status and  *)
(* the reason for it change together, which is what "the snapshot and the  *)
(* event are written in one transaction" means to a reader of the store.   *)
(***************************************************************************)
CONSTANT Tools

VARIABLES status, cause

vars == <<status, cause>>

Statuses == {"in_slot", "out", "staged", "missing", "fod_alert"}

\* The two-step moves of a tool: <<from, to>> -> the event that records it.
Moves == { <<"in_slot", "out",     "fetch">>,
           <<"out",     "staged",  "fetch">>,
           <<"staged",  "out",     "return">>,
           <<"out",     "in_slot", "return">> }

Init ==
  /\ status = [t \in Tools |-> "in_slot"]
  /\ cause  = [t \in Tools |-> "none"]

Record(t, s, why) ==
  /\ status' = [status EXCEPT ![t] = s]
  /\ cause'  = [cause  EXCEPT ![t] = why]

\* One half of a fetch or of a return.
Move(t) ==
  \E m \in Moves : status[t] = m[1] /\ Record(t, m[2], m[3])

\* A failure is noted; the tool is where it was.
NoteError(t) == Record(t, status[t], "error")

\* An operator confirmed where the tool really is.
Reconcile(t) == \E s \in Statuses : Record(t, s, "reconciled")

\* The next stage of the monitor's escalation.
Escalated(s) == IF s = "missing" THEN "fod_alert" ELSE "missing"
Reason(s)    == IF s = "missing" THEN "fod_alert" ELSE "timeout"

\* One sweep of the monitor raises every overdue tool by one stage, together.
Escalate ==
  \E overdue \in SUBSET {t \in Tools : status[t] \in {"out", "staged", "missing"}} :
    /\ status' = [t \in Tools |-> IF t \in overdue THEN Escalated(status[t])
                                                   ELSE status[t]]
    /\ cause'  = [t \in Tools |-> IF t \in overdue THEN Reason(status[t])
                                                   ELSE cause[t]]

Next ==
  \/ \E t \in Tools : Move(t) \/ NoteError(t) \/ Reconcile(t)
  \/ Escalate

Spec == Init /\ [][Next]_vars
=============================================================================

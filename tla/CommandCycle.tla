---------------------------- MODULE CommandCycle ----------------------------
(***************************************************************************)
(* What the orchestrator promises about spoken commands: it serves one at  *)
(* a time, asks the robot to move only after the store has allowed that    *)
(* kind of command in the same cycle, and asks once per permission.  The   *)
(* robot carries out what it was asked for one by one, nothing twice, and  *)
(* may still be at one command when the next is being served.              *)
(***************************************************************************)
EXTENDS Integers, Sequences

CONSTANTS Tools, Intents,
          Required(_)   \* the status a command of each intent must start from

VARIABLES
  status,   \* the store's view of the tools, which others may change
  cached,   \* copies of it, from which a permission may come as well
  serving,  \* the intent being served, or "none"
  stage,    \* how far it has got
  sent,     \* the intents the robot was asked to carry out, in order
  doing,    \* the one it is carrying out, by its place in sent; 0: none
  over      \* those it is done with

robot == <<doing, over>>
vars  == <<status, cached, serving, stage, sent, doing, over>>

Init ==
  /\ \A t \in Tools : status[t] = "in_slot" /\ cached[t] = "none"
  /\ serving = "none"
  /\ stage = "free"
  /\ sent = <<>>
  /\ doing = 0 /\ over = {}

Begin ==
  /\ stage = "free"
  /\ stage' = "asking"
  /\ serving' \in Intents
  /\ UNCHANGED <<status, cached, sent, robot>>

\* A copy may be renewed from the store, or lost; it is never made up.
Refresh == \A t \in Tools : cached'[t] \in {cached[t], status[t], "none"}

\* The store allows the command for one of its tools.
Grant ==
  /\ stage = "asking"
  /\ \E t \in Tools : Required(serving) \in {status[t], cached[t]}
  /\ stage' = "granted"
  /\ Refresh
  /\ UNCHANGED <<status, serving, sent, robot>>

Dispatch ==
  /\ stage = "granted"
  /\ stage' = "moving"
  /\ sent' = Append(sent, serving)
  /\ UNCHANGED <<status, cached, serving, robot>>

\* Done, refused, failed or given up.
End ==
  /\ stage # "free"
  /\ stage' = "free"
  /\ serving' = "none"
  /\ UNCHANGED <<status, cached, sent, robot>>

\* The robot sets about a command, and is done with it or has refused it.
Move(g) ==
  /\ doing = 0
  /\ g \notin over
  /\ doing' = g
  /\ UNCHANGED <<status, cached, serving, stage, sent, over>>

Conclude(g) ==
  /\ g \notin over
  /\ over' = over \cup {g}
  /\ doing' = IF doing = g THEN 0 ELSE doing
  /\ UNCHANGED <<status, cached, serving, stage, sent>>

StoreChanges == Refresh /\ UNCHANGED <<serving, stage, sent, robot>>

Next ==
  \/ Begin \/ Grant \/ Dispatch \/ End
  \/ \E g \in DOMAIN sent : Move(g) \/ Conclude(g)
  \/ StoreChanges

Spec == Init /\ [][Next]_vars
=============================================================================

--------------------------- MODULE MCOrchestrator ---------------------------
(* Orchestrator for TLC: small instances, see the .cfg files for the bounds. *)
EXTENDS Orchestrator, TLC

Interchangeable == Permutations(Tools) \cup Permutations(Threads)

\* Bounds of the two-thread run: two things at once, among the intents in work
\* and the markers on their way from the robot to the store, and one of them
\* once the second goal is sent; no tool is lost; every intent names a tool.
MaxAtOnce == IF Len(goals) < MaxGoals THEN 2 ELSE 1
AtOnce    == Cardinality({th \in Threads : work[th].at # "free"})
               + Cardinality(feedback) + Cardinality(updates)
Bounded ==
  /\ AtOnce <= MaxAtOnce
  /\ \A t \in Tools : status[t] # "lost"
  /\ activeTool = NoTool => \A th \in Threads : work[th].at = "free"

\* Bounds of the run with one thread: one marker on its way, no tool is lost, an
\* intent that is not a request names no tool.
BoundedAlone ==
  /\ Cardinality(feedback) + Cardinality(updates) <= 1
  /\ \A t \in Tools : status[t] # "lost"
  /\ \A th \in Threads : work[th].intent = "other" => work[th].tool = NoTool
=============================================================================

-------------------------- MODULE MCSequenceRunner --------------------------
(* Instances of SequenceRunner for TLC. *)
EXTENDS SequenceRunner

CONSTANT Asker   \* of the processes, the one that never gets past the S-7 check

\* The Asker asks to start beside another; what it would do then is left out.
OneRunsOneAsks == run[Asker].at \in {"off", "waiting"} /\ run[Asker].name = "home"
=============================================================================

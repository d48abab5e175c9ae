----------------------------- MODULE MCHandOver -----------------------------
(* Instances of HandOver for TLC. *)
EXTENDS HandOver
=============================================================================

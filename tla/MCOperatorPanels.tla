-------------------------- MODULE MCOperatorPanels --------------------------
(* Instance of OperatorPanels for TLC. *)
EXTENDS OperatorPanels
=============================================================================

--------------------------- MODULE MCGripperLink ----------------------------
(* Instances of GripperLink for TLC. *)
EXTENDS GripperLink
=============================================================================

--------------------------- MODULE ToolboxMotion ---------------------------
(***************************************************************************)
(* unit_actions/toolbox_motion.py: the sequences of steps that open and    *)
(* close the drawers and carry a tool between slot, staging area and hand. *)
(*                                                                         *)
(* A waypoint is the place it belongs to and its name there; coordinates,  *)
(* speeds and strokes are left out, except that a stroke says what the     *)
(* gripper is closed on.  The v2 waypoints of a drawer are points of their *)
(* own: a handle left at "open" is not found at "open_v2".                 *)
(***************************************************************************)
EXTENDS Naturals, Sequences

Layers == {"layer0", "layer1"}

At(place, spot) == [place |-> place, spot |-> spot]
Home    == At("free", "home")         \* JOINT_HOME_DEG
Nowhere == At("free", "nowhere")      \* not at a waypoint; what the step knows

Step(kind, at, stroke) ==
  [kind |-> kind, at |-> at, stroke |-> stroke, marker |-> "none"]

\* The role of a step, reported as feedback once it is done.
marked(step, m) == [step EXCEPT !.marker = m]

ml_abs(at) == Step("MOVE_L", at, "none")
mj_abs(at) == Step("MOVE_J", at, "none")
grip(stroke) == Step("GRIP", Nowhere, stroke)

GRIP_RELEASE == grip("release")
GRIP_BOX     == grip("box")
GRIP_TOOL    == grip("tool")
JOINT_HOME   == mj_abs(Home)

\* A step whose target the runner takes from vision or from toolbox.yaml.
Vision(kind, place, spot) == Step(kind, At(place, spot), "none")
SERVO_XZ   == Step("VISUAL_SERVO_XZ", Nowhere, "none")
WAIT_TOOL  == Step("WAIT_VISION_XY", Nowhere, "none")
WAIT_HAND  == Step("WAIT_HAND_POSE", Nowhere, "none")
ABOVE_TOOL == Vision("MOVE_L_TOP_XY", "tool", "above")
AT_TOOL    == Vision("MOVE_L_TOOL_XYZ", "slot", "down")
AT_STAGED  == Vision("MOVE_L_STAGING_XYZ", "staging", "down")
ABOVE_SLOT == Vision("MOVE_L_SLOT_XY", "slot", "above")
AT_SLOT    == Vision("MOVE_L_SLOT_XYZ", "slot", "down")

AboveStaging == At("staging", "above")   \* SOCKET_BOTTOM_XY
OnStaging    == At("staging", "down")    \* SOCKET_BOTTOM
AboveSocket  == At("slot", "above")      \* SOCKET_APPROACH_XY
OnSocket     == At("slot", "down")       \* SOCKET_APPROACH_Z
CatchHome    == At("free", "catch_home") \* SOCKET_CATCH_HOME_L

----------------------------------------------------------------------------
\* Mutant: home first, the gripper opened there.
home_seq_late_release == <<JOINT_HOME, GRIP_RELEASE>>

home_seq == <<GRIP_RELEASE, JOINT_HOME>>

\* pulled, lowered: where v1 or v2 leave the handle of an open drawer;
\* align: the servo step of the vision variants, or nothing.
OpenDrawer(layer, pulled, lowered, inner, align) ==
  <<GRIP_RELEASE, mj_abs(At(layer, "setup_j")), ml_abs(At(layer, "approach"))>>
  \o align \o
  <<GRIP_BOX, ml_abs(At(layer, pulled)), ml_abs(At(layer, lowered)),
    GRIP_RELEASE, ml_abs(At(layer, inner)), JOINT_HOME>>

CloseDrawer(layer, below, pulled, end, align) ==
  <<GRIP_RELEASE, mj_abs(At(layer, "close_setup_j")), ml_abs(At(layer, below))>>
  \o align \o
  <<GRIP_BOX, ml_abs(At(layer, pulled)), ml_abs(At(layer, "approach")),
    GRIP_RELEASE, ml_abs(At(layer, end)), JOINT_HOME>>

drawer_open_seq(layer)     == OpenDrawer(layer, "open", "silence", "inner", <<>>)
drawer_open_seq_v2(layer)  == OpenDrawer(layer, "open_v2", "silence_v2", "inner_v2", <<>>)
vision_drawer_open_seq(layer) == OpenDrawer(layer, "open", "silence", "inner", <<SERVO_XZ>>)

drawer_close_seq(layer)    == CloseDrawer(layer, "opendown", "open", "close_end", <<>>)
drawer_close_seq_v2(layer) == CloseDrawer(layer, "opendown_v2", "open_v2", "close_end_v2", <<>>)
vision_drawer_close_seq(layer) ==
  CloseDrawer(layer, "opendown", "open", "close_end", <<SERVO_XZ>>)

----------------------------------------------------------------------------
socket_fetch_seq ==
  <<JOINT_HOME, GRIP_RELEASE, ml_abs(AboveSocket), ml_abs(OnSocket), GRIP_TOOL,
    ml_abs(AboveSocket), ml_abs(AboveStaging), ml_abs(OnStaging), GRIP_RELEASE,
    ml_abs(AboveStaging), ml_abs(CatchHome)>>

socket_return_seq ==
  <<JOINT_HOME, GRIP_RELEASE, ml_abs(AboveStaging), ml_abs(OnStaging), GRIP_TOOL,
    ml_abs(AboveStaging), ml_abs(AboveSocket), ml_abs(OnSocket), GRIP_RELEASE,
    ml_abs(AboveSocket), JOINT_HOME>>

\* From home to a tool seen from the scan pose, and up again with it.
PickSeen(scan, down) ==
  <<JOINT_HOME, grip("wide"), mj_abs(At("free", scan)), WAIT_TOOL, GRIP_RELEASE,
    ABOVE_TOOL, down, GRIP_TOOL, ABOVE_TOOL>>

vision_fetch_seq ==
  PickSeen("fetch_scan", AT_TOOL)
  \o <<ml_abs(AboveStaging), ml_abs(OnStaging), GRIP_RELEASE,
       ml_abs(AboveStaging), JOINT_HOME>>

vision_return_seq ==
  PickSeen("return_scan", AT_STAGED)
  \o <<ABOVE_SLOT, AT_SLOT, GRIP_RELEASE, ABOVE_SLOT, JOINT_HOME>>

\* The hand-overs differ in where above the hand they go.
PlaceInHand(approach, place) ==
  <<Vision(approach, "hand", "above"), Vision(place, "hand", "down"),
    marked(GRIP_RELEASE, "place")>>

HandOver(approach, place) ==
  <<WAIT_HAND>> \o PickSeen("fetch_scan", marked(AT_TOOL, "pick"))
  \o PlaceInHand(approach, place) \o <<JOINT_HOME>>

handover_fetch_seq == HandOver("MOVE_L_HAND_RZ_APPROACH", "MOVE_L_HAND_PLACE")
handover_fetch_handle_first_seq ==
  HandOver("MOVE_L_HAND_RZ_APPROACH_HANDLE", "MOVE_L_HAND_PLACE_HANDLE")
handover_place_only_seq(handle_first) ==
  <<WAIT_HAND>> \o
  IF handle_first
  THEN PlaceInHand("MOVE_L_HAND_RZ_APPROACH_HANDLE", "MOVE_L_HAND_PLACE_HANDLE")
  ELSE PlaceInHand("MOVE_L_HAND_RZ_APPROACH", "MOVE_L_HAND_PLACE")

full_socket_fetch_seq ==
  drawer_open_seq("layer1")
  \o <<JOINT_HOME, ml_abs(AboveSocket), ml_abs(OnSocket), marked(GRIP_TOOL, "pick"),
       ml_abs(AboveSocket), ml_abs(AboveStaging), ml_abs(OnStaging),
       marked(GRIP_RELEASE, "place"), ml_abs(AboveStaging), ml_abs(CatchHome), JOINT_HOME>>
  \o drawer_close_seq("layer1") \o <<JOINT_HOME>>

full_socket_return_seq ==
  drawer_open_seq("layer1")
  \o <<JOINT_HOME, ml_abs(CatchHome), ml_abs(AboveStaging), ml_abs(OnStaging),
       marked(GRIP_TOOL, "pick"), ml_abs(AboveStaging), ml_abs(AboveSocket),
       ml_abs(OnSocket), marked(GRIP_RELEASE, "place"), ml_abs(AboveSocket), JOINT_HOME>>
  \o drawer_close_seq("layer1") \o <<JOINT_HOME>>
=============================================================================

------------------------------- MODULE MarkerScan -------------------------------
(***************************************************************************)
(* The two nodes that measure with printed markers.  The one over the table *)
(* (marker_scan_node.py, hand_eye_loader.py) publishes a map of all markers *)
(* it sees; the one on the gripper (gripper_marker_scan_node.py) publishes   *)
(* where the best detected tool is in the base frame, and how it is turned.  *)
(* Pure functions of a frame and of what the node keeps from earlier ones.   *)
(* Space is a plane <<x, z>> with z away from the camera and, for the frames *)
(* of the robot, a line; an angle is one of Circle steps; what the marker    *)
(* detector, solvePnP and the network return is input.                       *)
(***************************************************************************)
EXTENDS Integers, Sequences, FiniteSets
LOCAL INSTANCE SequencesExt
LOCAL INSTANCE FiniteSetsExt

CONSTANTS
  Circle,    \* 360 degrees
  Jump,      \* _THETA_OUTLIER_DEG, 30 degrees
  Fresh,     \* _MASK_STALE_SEC, 0.5 s
  Patch,     \* _DEPTH_PATCH_HALF, 2 pixels
  None       \* Python's None; a model value

----------------------------------------------------------------------------
(* A transformation of the line: a turn, 1 or -1, and a shift *)

Apply(T, point) == T.turn * point + T.shift

\* load_transform: without a date the calibration counts as not done.
load_transform(file) == IF file.date = None THEN None ELSE file.T

camera_to_base(point, T) == Apply(T, point)

----------------------------------------------------------------------------
(* MarkerScanNode over the table: a corner is a detected marker with its id, *)
(* the pixel of its centre, and its direction; depth a row of pixels.        *)

\* The window is cut at the border of the image.
Window(depth, pixel) ==
  SubSeq(depth, Max({1, pixel - Patch}), Min({Len(depth), pixel + Patch}))

Median(values) ==
  LET sorted == SortSeq(values, <)
      middle == Len(sorted) \div 2
  IN  IF Len(sorted) % 2 = 1 THEN sorted[middle + 1]
      ELSE (sorted[middle] + sorted[middle + 1]) \div 2

\* A pixel without depth reads 0.
sample_depth(depth, pixel) ==
  LET valid == SelectSeq(Window(depth, pixel), LAMBDA d : d > 0)
  IN  IF valid = <<>> THEN None ELSE Median(valid)

\* _estimate_pose: along the ray of the pixel, in units of the focal length.
estimate_pose(corner, depth, T) ==
  LET z  == sample_depth(depth, corner.pixel)
      at == corner.pixel * z
  IN  CASE z = None -> None
        [] z # None /\ T = None -> [position |-> at, turn |-> corner.turn]
        [] OTHER -> [position |-> camera_to_base(at, T), turn |-> T.turn * corner.turn]

\* _build_marker_map_msg: an empty map too is published, and at once; the age of
\* the last detection is only logged.
build_marker_map(corners, depth, T) ==
  LET seen == SelectSeq(corners, LAMBDA c : estimate_pose(c, depth, T) # None)
  IN  [frame |-> IF T = None THEN "camera" ELSE "base", calibrated |-> T # None,
       marker_ids  |-> [i \in DOMAIN seen |-> seen[i].id],
       poses_robot |-> [i \in DOMAIN seen |-> estimate_pose(seen[i], depth, T)]]

----------------------------------------------------------------------------
(* The node on the gripper: what it takes from a frame *)

MARKER_ID_TO_LAYER == {0, 1, 3}

\* _select_drawer_marker: two layers in sight are no answer.
select_drawer_marker(markers) ==
  LET valid == SelectSeq(markers, LAMBDA m : m.id \in MARKER_ID_TO_LAYER)
  IN  IF Len(valid) = 1 THEN valid[1] ELSE None

\* The first of the most certain.
Best(detections) ==
  LET top == Max({detections[i].score : i \in DOMAIN detections})
  IN  detections[Min({i \in DOMAIN detections : detections[i].score = top})]

\* toolbox.yaml: the height, or the diameter; 20 mm where it has neither, and for a
\* tool it does not know.
tool_height(tool, heights) ==
  IF tool \notin DOMAIN heights THEN 20
  ELSE CASE heights[tool].height # None -> heights[tool].height
         [] heights[tool].height = None /\ heights[tool].diameter # None ->
              heights[tool].diameter
         [] OTHER -> 20

Dot(v, w)   == v[1] * w[1] + v[2] * w[2]
Facing(n)   == IF n[2] > 0 THEN <<-n[1], -n[2]>> ELSE n

\* _ray_plane_cam: where the ray <<u, 1>> meets the plane of the marker, moved half
\* a tool along its normal, as a fraction of the ray; None if it is parallel to the
\* plane or meets it behind the camera.
ray_plane(u, marker, half) ==
  LET n      == Facing(marker.normal)
      plane  == <<marker.at[1] - half * n[1], marker.at[2] - half * n[2]>>
      sign   == IF Dot(n, <<u, 1>>) < 0 THEN -1 ELSE 1
      denom  == sign * Dot(n, <<u, 1>>)
      along  == sign * Dot(n, plane)
  IN  IF denom = 0 \/ along < 0 THEN None ELSE [num |-> along, den |-> denom]

\* From the camera to the flange by the calibration, and from the flange to the base
\* by the newest transform there is, whose time is not that of the image.
ToBase(cameraPoint, handEye, flange) == Apply(flange, Apply(handEye, cameraPoint))

----------------------------------------------------------------------------
(* How the tool is turned *)

\* _compute_pca_rz, _compute_pca_rz_from_mask: axis is the principal axis, of either
\* sign, and proj the points along it; the longer side is made the positive one.
compute_pca_rz(axis, proj) ==
  CASE Len(proj) < 5 -> 0
    [] Len(proj) >= 5 /\ -Min(Range(proj)) > Max(Range(proj)) ->
         (axis + Circle \div 2) % Circle
    [] OTHER -> axis

\* The angle of the cached mask if it is fresh for this image, else that of the edges.
Raw(mask, frame) ==
  IF mask # None /\ frame.stamp - mask.stamp \in -(Fresh - 1)..Fresh - 1
  THEN mask.angle ELSE frame.edges

Turn(from, to)  == ((to - from + Circle \div 2) % Circle) - Circle \div 2
Apart(a, b)     == Max({Turn(a, b), -Turn(a, b)})

\* The mean of sine and cosine with weight 1/4: a quarter of the way, down to a step.
Smoothed(ema, raw) ==
  (IF Turn(ema, raw) < 0 THEN ema - Apart(ema, raw) \div 4
                         ELSE ema + Apart(ema, raw) \div 4) % Circle

\* The first angle is believed; later ones only if they are near.
NextEma(ema, raw) ==
  CASE ema = None -> raw
    [] ema # None /\ Apart(ema, raw) > Jump -> ema
    [] OTHER -> Smoothed(ema, raw)

\* _on_mask
on_mask(node, stamp, angle) == [node EXCEPT !.mask = [stamp |-> stamp, angle |-> angle]]

\* _on_sync: the node keeps the angle and the mask; every early return leaves both,
\* and publishes nothing.
on_sync(node, frame, handEye, flange, heights) ==
  LET quiet  == [node EXCEPT !.pose = None]
      best   == Best(frame.detections)
      marker == select_drawer_marker(frame.markers)
      hit    == ray_plane(best.ray, marker, tool_height(best.tool, heights) \div 2)
      ema    == NextEma(node.ema, Raw(node.mask, frame))
  IN  IF \/ frame.detections = <<>> \/ marker = None \/ ~marker.solved
         \/ hit = None \/ flange = None
      THEN quiet
      ELSE [node EXCEPT !.ema = ema,
              !.pose = [stamp |-> frame.stamp, angle |-> ema,
                        at |-> ToBase((best.ray * hit.num) \div hit.den, handEye, flange)]]
=============================================================================

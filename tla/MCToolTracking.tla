---------------------------- MODULE MCToolTracking ----------------------------
(***************************************************************************)
(* Model-checking instance of ToolTracking: one tool class, three spots in *)
(* a row of two slots (the centres of both and a place near their border), *)
(* and the limits of config/vision.yaml in steps of the model; and what    *)
(* the functions of MarkerScan promise, over every small input.            *)
(***************************************************************************)
EXTENDS ToolTracking

CONSTANT None
Scan == INSTANCE MarkerScan WITH Circle <- 360, Jump <- 30, Fresh <- 3, Patch <- 1

-----------------------------------------------------------------------------
(* Over the table                                                             *)

Depths == [1..5 -> {0, 4, 5, 9}]

\* One wrong pixel of three does not count, and a hole in the depth gives nothing
\* rather than a place at the camera (marker_scan_node.py:271).
ASSUME DepthIsRobust ==
  \A depth \in Depths : \A pixel \in 1..5 :
    LET near == {i \in pixel - 1..pixel + 1 : i \in 1..5 /\ depth[i] > 0}
    IN  /\ Scan!sample_depth(depth, pixel) = None <=> near = {}
        /\ \A d \in {4, 5, 9} :
             Cardinality({i \in near : depth[i] = d}) >= 2
               => Scan!sample_depth(depth, pixel) = d

Corner(id, pixel) == [id |-> id, pixel |-> pixel, turn |-> 1]

\* A marker without depth is left out of both lists, and takes no other's place:
\* the two lists go together (marker_scan_node.py:185).
ASSUME MapsCorrespond ==
  \A depth \in [1..3 -> {0, 5}] : \A T \in {None} \cup [turn : {1, -1}, shift : {0, 7}] :
    \A pixels \in [1..3 -> 1..3] :
      LET corners == [i \in 1..3 |-> Corner(i, pixels[i])]
          map == Scan!build_marker_map(corners, depth, T)
      IN  /\ Len(map.marker_ids) = Len(map.poses_robot)
          /\ \A k \in DOMAIN map.marker_ids :
               map.poses_robot[k] =
                 Scan!estimate_pose(corners[map.marker_ids[k]], depth, T)
          /\ \A i \in 1..3 : Scan!sample_depth(depth, pixels[i]) # None
                              => i \in ToSet(map.marker_ids)
          /\ map.frame = "base" <=> map.calibrated

-----------------------------------------------------------------------------
(* On the gripper                                                             *)

Ids == {0, 1, 3, 7}
Seen(ids) == [i \in DOMAIN ids |-> [id |-> ids[i]]]

\* A foreign marker changes nothing; two of the drawers' are no answer
\* (gripper_marker_scan_node.py:77).
ASSUME OneDrawerOnly ==
  \A ids \in UNION {[1..n -> Ids] : n \in 0..3} :
    LET marker == Scan!select_drawer_marker(Seen(ids))
        drawers == {i \in DOMAIN ids : ids[i] # 7}
    IN  /\ marker = None <=> Cardinality(drawers) # 1
        /\ \A i \in drawers : marker # None => marker.id = ids[i]

Normals == (-2..2) \X (-2..2) \ {<<0, 0>>}

\* The point hit is on the plane of the marker and not behind the camera, and it does
\* not matter which of the two normals solvePnP returned
\* (gripper_marker_scan_node.py:232).
ASSUME HitsAreOnThePlane ==
  \A u \in -2..2 : \A n \in Normals : \A at \in (-2..2) \X (1..4) : \A half \in 0..1 :
    LET hit   == Scan!ray_plane(u, [normal |-> n, at |-> at], half)
        f     == Scan!Facing(n)
        plane == <<at[1] - half * f[1], at[2] - half * f[2]>>
    IN  /\ hit # None =>
             /\ hit.num >= 0 /\ hit.den > 0
             /\ Scan!Dot(f, <<u * hit.num, hit.num>>) = hit.den * Scan!Dot(f, plane)
        /\ n[2] # 0 =>
             hit = Scan!ray_plane(u, [normal |-> <<-n[1], -n[2]>>, at |-> at], half)

Poses == [turn : {1, -1}, shift : -2..2]

\* The place of a tool is exact while the gripper is still; if it moved between the
\* image and the newest transform, the place is off by as much
\* (gripper_marker_scan_node.py:271).
ASSUME ExactOnlyAtRest ==
  \A handEye, flange \in Poses : \A point, moved \in -2..2 :
    LET later == [flange EXCEPT !.shift = @ + moved]
    IN  Scan!ToBase(point, handEye, later) = Scan!ToBase(point, handEye, flange) + moved

Sides == {<<a, b, 0, 0, c>> : a, b, c \in -3..3}
Mirrored(proj) == [i \in DOMAIN proj |-> -proj[i]]

\* The angle does not depend on the sign of the axis that the solver returned, unless
\* the tool is as long on either side of its middle: then it may turn round at any
\* frame (gripper_marker_scan_node.py:474).
ASSUME SignIsResolved ==
  \A axis \in {0, 30, 179} : \A proj \in Sides :
    LET one == Scan!compute_pca_rz(axis, proj)
        two == Scan!compute_pca_rz((axis + 180) % 360, Mirrored(proj))
        low == {i \in DOMAIN proj : \A j \in DOMAIN proj : proj[i] <= proj[j]}
        top == {i \in DOMAIN proj : \A j \in DOMAIN proj : proj[i] >= proj[j]}
        symmetric == \E i \in low, j \in top : proj[i] = -proj[j]
    IN  IF symmetric THEN Scan!Apart(one, two) = 180 ELSE one = two

Often(n, ema, raw) == FoldLeft(LAMBDA e, i : Scan!NextEma(e, raw), ema, [i \in 1..n |-> i])

\* A jump of the angle never turns the published one by more than the gate lets
\* through, a tool turned round does not turn it at all, and the angle follows a tool
\* that is turned a little (gripper_marker_scan_node.py:355).
ASSUME AnglesAreSmooth ==
  \A ema \in {0, 15, 180, 350} : \A raw \in 0..359 :
    LET next == Scan!NextEma(ema, raw)
    IN  /\ 4 * Scan!Apart(ema, next) <= 30
        /\ Scan!Apart(next, raw) <= Scan!Apart(ema, raw)
        /\ Scan!Apart(ema, raw) = 180 => next = ema
        /\ Scan!Apart(ema, raw) <= 30 => Scan!Apart(Often(20, ema, raw), raw) <= 3

\* But a tool turned by more than that at once is never followed, however long it
\* lies there.
ASSUME FarAnglesAreLockedOut ==
  \A ema \in {0, 15, 180, 350} : \A raw \in 0..359 :
    Scan!Apart(ema, raw) > 30 => Often(20, ema, raw) = ema

AFrame(tool, stamp, edges, markers) ==
  [stamp |-> stamp, edges |-> edges, detections |-> tool,
   markers |-> [i \in DOMAIN markers |->
     [id |-> markers[i], solved |-> TRUE, normal |-> <<0, -1>>, at |-> <<0, 100>>]]]

ADetection == [tool |-> "t", score |-> 9, ray |-> 1]
Rest      == [turn |-> 1, shift |-> 0]
Heights   == ("t" :> [height |-> None, diameter |-> 40])

\* A frame that says nothing certain publishes nothing and does not touch the angle;
\* one that does uses a mask only if it is fresh (gripper_marker_scan_node.py:303).
ASSUME UncertainFramesAreSkipped ==
  \A stamp \in 0..4 : \A markers \in {<<>>, <<0>>, <<7>>, <<0, 1>>, <<3, 7>>} :
    \A tool \in {<<>>, <<ADetection>>} : \A flange \in {None, Rest} :
      LET node == Scan!on_mask([ema |-> 100, mask |-> None, pose |-> None], 0, 110)
          next == Scan!on_sync(node, AFrame(tool, stamp, 96, markers), Rest, flange, Heights)
          good == tool # <<>> /\ flange # None /\ markers \in {<<0>>, <<3, 7>>}
      IN  IF ~good THEN next = node
          ELSE /\ next.pose.at = 120 /\ next.pose.stamp = stamp
               /\ next.ema = IF stamp < 3 THEN 102 ELSE 99
=============================================================================

---------------------------- MODULE ToolTracking ----------------------------
(***************************************************************************)
(* The top-view chain of the vision package: yolo_node (detections of one  *)
(* image), pose_node (a 3D position for each detection whose depth can be  *)
(* read), tracker_node (one list of tracks per tool class) and             *)
(* context_builder (which slots are taken, and the empty one it offers).   *)
(*                                                                         *)
(* The topics are best effort: a frame may be lost between any two nodes.  *)
(* Positions are whole steps along one drawer row; the exponential mean of *)
(* a track is rounded to the nearest step.                                 *)
(***************************************************************************)
EXTENDS Integers, Sequences, FiniteSets, SequencesExt

CONSTANTS
  Tools,      \* class names of the model
  Places,     \* where a tool is detected
  MaxDets,    \* detections of one tool in one frame (bounds the model)
  MaxTwins,   \* frames with several detections of one tool (bounds the model)
  MinHits,    \* tracker.min_hits
  MaxMisses,  \* tracker.max_misses
  MaxDist,    \* tracker.max_match_dist_m
  Cols,       \* grid_cols
  HalfSlot    \* half of slot_size

ASSUME PlacesAssumption == Places \subseteq Nat /\ Places # {}
ASSUME LimitsAssumption ==
  {MaxDets, MinHits, MaxMisses, MaxDist, Cols, HalfSlot} \subseteq Nat \ {0} /\ MaxTwins \in Nat

\* A track is confirmed by an update, so never by its first detection.
ASSUME HitsAssumption == MinHits > 1

VARIABLES
  tracks,   \* TrackerNode._tracks
  tracked,  \* /vision/tracked_poses: the messages not yet received, at most one
  scene,    \* /vision/scene_context and /vision/slot_top_pose: the last ones
  recent,   \* history: the frames the tracker received last, newest first
  twins     \* frames with several detections of one tool, up to MaxTwins

tracksVars == <<tracks, tracked, scene, recent, twins>>

----------------------------------------------------------------------------
(* yolo_node.py, pose_node.py: what may reach the tracker *)

Nothing == [t \in Tools |-> <<>>]    \* an array without detections

\* YoloNode._on_image: per class the boxes of one image, in the order of the
\* model's output, some of them perhaps the same tool twice.
Detections == [Tools -> UNION {[1..n -> Places] : n \in 0..MaxDets}]

\* The elements of s at the positions in I, in their order: a list comprehension
\* (SelectSeq, by positions).
Only(s, I) ==
  LET only[n \in 0..Len(s)] ==
        IF n = 0 THEN <<>>
                 ELSE IF n \in I THEN Append(only[n - 1], s[n]) ELSE only[n - 1]
  IN only[Len(s)]

\* PoseNode._on_detections_depth: a detection without enough valid depth is left
\* out of the array.
WithDepth(dets, ok) == [t \in Tools |-> Only(dets[t], {i \in DOMAIN dets[t] : dets[t][i] \in ok})]

Frames == {WithDepth(d, ok) : d \in Detections, ok \in SUBSET Places}

----------------------------------------------------------------------------
Track == [at : Nat, hits : 0..MinHits, misses : 0..MaxMisses, confirmed : BOOLEAN]

\* Frames the properties look back on.
Memory == IF MinHits > MaxMisses THEN MinHits ELSE MaxMisses + 1

TracksInit ==
  /\ tracks = [t \in Tools |-> <<>>]
  /\ tracked = {}
  /\ scene = [shown |-> Nothing, offer |-> 0, held |-> {}]
  /\ recent = <<>>
  /\ twins = 0

----------------------------------------------------------------------------
(* tracker_node.py *)

Dist(a, b) == IF a > b THEN a - b ELSE b - a

\* Mutant: the first track of the class, near or not.
FirstTrack(ts, p) == 1

\* _find_closest: numpy's argmin, the first of the nearest.
Closest(ts, p) ==
  CHOOSE i \in DOMAIN ts :
    \A j \in DOMAIN ts : \/ Dist(ts[i].at, p) < Dist(ts[j].at, p)
                         \/ Dist(ts[i].at, p) = Dist(ts[j].at, p) /\ i <= j

\* alpha = 0.3
Smoothed(old, p) == (3 * p + 7 * old + 5) \div 10

\* How far from the place of n detections in a row the mean of a track may be.
Off[n \in 0..MinHits] == IF n = 0 THEN MaxDist - 1 ELSE (7 * Off[n - 1] + 5) \div 10

\* A tool detected MinHits times is taken for one in the slot where it lies.
ASSUME SettlesAssumption == Off[MinHits] < HalfSlot

\* _Track.update, and the confirmation that follows it; hits are counted up to
\* MinHits, the only value they are compared with.
Updated(k, p) ==
  LET hits == IF k.hits < MinHits THEN k.hits + 1 ELSE MinHits
  IN [at |-> Smoothed(k.at, p), hits |-> hits, misses |-> 0,
      confirmed |-> k.confirmed \/ hits >= MinHits]

NewTrack(p) == [at |-> p, hits |-> 1, misses |-> 0, confirmed |-> FALSE]

\* One detection of a frame: the nearest track of its class, or a new one.
Associate(acc, p) ==
  LET ts == acc.tracks
      i  == Closest(ts, p)
  IN IF ts # <<>> /\ Dist(ts[i].at, p) < MaxDist
     THEN [tracks |-> [ts EXCEPT ![i] = Updated(ts[i], p)], matched |-> acc.matched \cup {i}]
     ELSE [tracks |-> Append(ts, NewTrack(p)), matched |-> acc.matched \cup {Len(ts) + 1}]

\* Mutant: only the hits are reset.
MissedForgetsAge(k) == [k EXCEPT !.hits = 0]

\* _Track.mark_missed
Missed(k) == [k EXCEPT !.misses = @ + 1, !.hits = 0]

\* Mutant: one frame too many.
SurvivesOneMore(k) == k.misses <= MaxMisses + 1

Survives(k) == k.misses <= MaxMisses

\* The tracks of one class with the detections of a frame, one after the other.
Associated(ts, dets) ==
  LET after[n \in 0..Len(dets)] ==
        IF n = 0 THEN [tracks |-> ts, matched |-> {}]
                 ELSE Associate(after[n - 1], dets[n])
  IN after[Len(dets)]

\* The tracks of one class after a frame.
Advance(ts, dets) ==
  LET acc  == Associated(ts, dets)
      aged == [i \in DOMAIN acc.tracks |->
                 IF i \in acc.matched THEN acc.tracks[i] ELSE Missed(acc.tracks[i])]
  IN Only(aged, {i \in DOMAIN aged : Survives(aged[i])})

\* Only confirmed tracks are published.
Shown(all) ==
  [t \in Tools |-> LET ks == Only(all[t], {i \in DOMAIN all[t] : all[t][i].confirmed})
                   IN [i \in DOMAIN ks |-> ks[i].at]]

\* In each of the last k frames the tool was detected at p and nowhere else.
Lies(frames, t, p, k) == k <= Len(frames) /\ \A n \in 1..k : Range(frames[n][t]) = {p}

\* History: the slots at whose centre a tool lay for the last MinHits frames.
Centre(c) == (2 * c - 1) * HalfSlot
Held(frames) == {c \in 1..Cols : \E t \in Tools : Lies(frames, t, Centre(c), MinHits)}

\* TrackerNode._on_poses: one array.
Follow(f) ==
  /\ tracks' = [t \in Tools |-> Advance(tracks[t], f[t])]
  /\ recent' = SubSeq(<<f>> \o recent, 1, Min({Memory, Len(recent) + 1}))
  /\ tracked' = {[shown |-> Shown(tracks'), held |-> Held(recent')]}
  /\ UNCHANGED scene

\* One image goes down the chain as far as the tracker.
OnPoses ==
  \E f \in Frames :
    /\ twins' = twins + (IF \E t \in Tools : Len(f[t]) > 1 THEN 1 ELSE 0)
    /\ twins' <= MaxTwins
    /\ Follow(f)

----------------------------------------------------------------------------
(* context_builder.py *)

Slots == 1..Cols

\* Mutant: only the inner half of a slot counts as the slot.
AssignSlotNarrowly(p) ==
  LET c == CHOOSE c \in Slots : \A d \in Slots : Dist(Centre(c), p) <= Dist(Centre(d), p)
  IN IF 4 * Dist(Centre(c), p) <= HalfSlot THEN c ELSE 0

\* _assign_slot: the nearest slot, the first of two, and not beyond 1.5 times
\* the half width; 0 is None.
AssignSlot(p) ==
  LET c == CHOOSE c \in Slots :
             \A d \in Slots : \/ Dist(Centre(c), p) < Dist(Centre(d), p)
                              \/ Dist(Centre(c), p) = Dist(Centre(d), p) /\ c <= d
  IN IF 2 * Dist(Centre(c), p) <= 3 * HalfSlot THEN c ELSE 0

Occupied(shown) == UNION {{AssignSlot(p) : p \in Range(shown[t])} : t \in Tools}

\* ContextBuilder._on_poses and _publish_slot_top_pose: with no empty slot
\* nothing is offered, and what was offered before stands.  A scene is a function
\* of one message and of the offer before it, and the message carries its own
\* history, so a subscription that keeps five builds no sequence of scenes which
\* one that keeps the newest does not (context_builder.py:48).
BuildScene ==
  /\ tracked # {}
  /\ \E m \in tracked :
       LET empty == Slots \ Occupied(m.shown)
       IN scene' = IF empty = {} THEN [scene EXCEPT !.shown = m.shown]
                   ELSE [shown |-> m.shown, offer |-> Min(empty), held |-> m.held]
  /\ tracked' = {}
  /\ UNCHANGED <<tracks, recent, twins>>

----------------------------------------------------------------------------
TracksNext == OnPoses \/ BuildScene

TracksSpec == TracksInit /\ [][TracksNext]_tracksVars

----------------------------------------------------------------------------
(* Properties *)

TracksTypeOK ==
  /\ tracks \in [Tools -> Seq(Track)]
  /\ \A m \in tracked : m.shown \in [Tools -> Seq(Nat)] /\ m.held \subseteq Slots
  /\ scene.shown \in [Tools -> Seq(Nat)]
  /\ scene.offer \in 0..Cols /\ scene.held \subseteq Slots
  /\ recent \in Seq(Detections) /\ Len(recent) <= Memory
  /\ twins \in 0..MaxTwins

\* What is published was there a moment ago: a tool of that class was detected
\* in one of the last MaxMisses + 1 frames, within MaxDist of the place shown.
ShownWasSeen ==
  \A t \in Tools : \A i \in DOMAIN tracks[t] :
    tracks[t][i].confirmed =>
      \E n \in 1..Min({Len(recent), MaxMisses + 1}) :
        \E p \in Range(recent[n][t]) : Dist(p, tracks[t][i].at) < MaxDist

\* A slot at whose centre a tool lay for MinHits frames is not offered as an
\* empty one, whatever was seen before.
TakenSlotNotOffered == scene.offer \notin scene.held

\* A tool that was detected at one place only in each of the last frames (as many
\* as confirm a track and forget one) is published once and in the slot where it
\* lies, whatever was seen before and however often it was detected in a frame.
StillToolIsShownOnce ==
  \A t \in Tools, p \in Places :
    Lies(recent, t, p, Memory) =>
      /\ Len(Shown(tracks)[t]) = 1
      /\ Dist(Shown(tracks)[t][1], p) < HalfSlot
=============================================================================

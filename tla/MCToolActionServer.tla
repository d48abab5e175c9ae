------------------------- MODULE MCToolActionServer -------------------------
(* ToolActionServer for TLC: see the .cfg files for the bounds. *)
EXTENDS ToolActionServer, SequencesExt

Motion == INSTANCE ToolboxMotion

GripOf(step) ==
  CASE step.kind # "GRIP"   -> "move"
    [] step.stroke = "box"  -> "clamp"
    [] step.stroke = "tool" -> "grip"
    [] OTHER                -> "release"

\* A sequence of steps as its grips, with one "move" between two of them.
Grips(steps) ==
  FoldLeft(LAMBDA grips, step :
             IF grips # <<>> /\ Last(grips) = "move" /\ GripOf(step) = "move"
             THEN grips ELSE Append(grips, GripOf(step)),
           <<>>, steps)

\* What Plan says of a request is so of every sequence that the request runs
\* (tool_action_server.py _on_place_at_staging .. _on_close_toolbox).
ASSUME PlansAreTheSequences ==
  /\ Plan("deliver") = Grips(Motion!full_socket_fetch_seq)
  /\ Plan("deliver") = Grips(Motion!full_socket_return_seq)
  /\ Plan("handover") = Grips(Motion!handover_fetch_seq)
  /\ Plan("handover") = Grips(Motion!handover_fetch_handle_first_seq)
  /\ \A handle_first \in BOOLEAN :
       Plan("handover_test") = Grips(Motion!handover_place_only_seq(handle_first))
  /\ Plan("home") = Grips(Motion!home_seq)
  /\ \A layer \in Motion!Layers :
       /\ Plan("toolbox") = Grips(Motion!drawer_open_seq(layer))
       /\ Plan("toolbox") = Grips(Motion!drawer_close_seq(layer))

-----------------------------------------------------------------------------
(* The start of the robot                                                     *)

AtStart == INSTANCE HomeOnStart
Pairs == [register : AtStart!Services, set : AtStart!Services]
Runs(mode, triggered) ==
  {AtStart!run_once(mode, tcp, tool, movej, triggered) :
     tcp \in Pairs, tool \in Pairs, movej \in AtStart!Services}
Index(run, call) == CHOOSE i \in DOMAIN run : run[i] = call

\* The robot moves home only after both set calls were made, only a virtual one, and
\* not when the E-stop was seen; nothing is called after a failure
\* (home_on_start.py:143).
ASSUME HomeIsLast ==
  \A mode \in {"virtual", "real"} : \A triggered \in BOOLEAN : \A run \in Runs(mode, triggered) :
    <<"move", "home">> \in Range(run) =>
      /\ mode = "virtual" /\ ~triggered
      /\ Index(run, <<"set", "tcp">>) < Index(run, <<"set", "tool">>)
      /\ Index(run, <<"set", "tool">>) < Index(run, <<"move", "home">>)

\* Whatever fails, what listens to /motion/is_moving is told in the end that the robot
\* is still, if it was ever told otherwise (home_on_start.py:148).
ASSUME StillInTheEnd ==
  \A mode \in {"virtual", "real"} : \A triggered \in BOOLEAN : \A run \in Runs(mode, triggered) :
    <<"is_moving", "TRUE">> \in Range(run) => Last(run) = <<"is_moving", "FALSE">>

\* What could not be registered is not set, but for an absent service of registering,
\* which nobody misses (home_on_start.py:165).
ASSUME RefusedIsNotSet ==
  \A tcp, tool \in Pairs : \A movej \in AtStart!Services :
    LET run == AtStart!run_once("virtual", tcp, tool, movej, FALSE)
    IN  /\ tcp.register = "fails" => run = <<<<"register", "tcp">>>>
        /\ tool.register = "fails" => <<"set", "tool">> \notin Range(run)
        /\ tcp = [register |-> "absent", set |-> "ok"] /\ tool = tcp
             => {<<"set", "tcp">>, <<"set", "tool">>} \subseteq Range(run)

\* The first file there is counts whole: what it leaves out comes from the defaults and
\* not from the next file (home_on_start.py:47).
ASSUME OneFileCounts ==
  \A keys \in SUBSET {"name", "offset"} : \A exists \in BOOLEAN :
    LET files == <<[exists |-> exists, content |-> [k \in keys |-> "first"]],
                   [exists |-> TRUE, content |-> [k \in {"name", "offset"} |-> "second"]]>>
        loaded == AtStart!Loaded(AtStart!robot_poses(files),
                               [k \in {"name", "offset"} |-> "default"])
    IN  \A k \in {"name", "offset"} :
          loaded[k] = CASE exists /\ k \in keys    -> "first"
                        [] exists /\ k \notin keys -> "default"
                        [] OTHER                   -> "second"
=============================================================================

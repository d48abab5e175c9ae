------------------------------- MODULE HomeOnStart -------------------------------
(***************************************************************************)
(* motion/home_on_start.py: what the start of the robot registers and sets,  *)
(* and when it moves home.  A service is absent, answers success, or fails,  *)
(* which is a refusal or no answer in time.                                  *)
(***************************************************************************)
EXTENDS Integers, Sequences

Services == {"absent", "ok", "fails"}

\* _load_*_config: what the file does not say is a default.
Loaded(file, defaults) ==
  [key \in DOMAIN defaults |-> IF key \in DOMAIN file THEN file[key] ELSE defaults[key]]

\* The file is the first of the candidates that exists, or an empty one.
robot_poses(files) ==
  LET there == {i \in DOMAIN files : files[i].exists}
  IN  IF there = {} THEN [k \in {} |-> 0]
      ELSE files[CHOOSE i \in there : \A j \in there : i <= j].content

\* _setup_tcp, _setup_tool: a service to register that is absent is passed over.
setup(what, register, set) ==
  LET registering == IF register = "absent" THEN <<>> ELSE <<<<"register", what>>>>
      setting == IF register = "fails" \/ set = "absent" THEN <<>> ELSE <<<<"set", what>>>>
  IN  [calls |-> registering \o setting, ok |-> register # "fails" /\ set = "ok"]

\* _move_home: what the service answers changes only what is logged.
move_home(movej) == IF movej = "absent" THEN <<>> ELSE <<<<"move", "home">>>>

\* _on_estop: a release does not take the flag back.
on_estop(triggered, data) == triggered \/ data

\* _run_once; triggered is the flag when it is looked at, before the wait for move_joint.
run_once(mode, tcp, tool, movej, triggered) ==
  LET first  == setup("tcp", tcp.register, tcp.set)
      second == setup("tool", tool.register, tool.set)
      home   == IF mode = "virtual" /\ ~triggered
                THEN <<<<"is_moving", "TRUE">>>> \o move_home(movej) \o <<<<"is_moving", "FALSE">>>>
                ELSE <<>>
  IN  CASE ~first.ok -> first.calls
        [] first.ok /\ ~second.ok -> first.calls \o second.calls
        [] OTHER -> first.calls \o second.calls \o home
=============================================================================

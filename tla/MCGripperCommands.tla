------------------------- MODULE MCGripperCommands --------------------------
(* Instances of GripperCommands for TLC, and what the functions of GripperWords  *)
(* promise, over small inputs.                                                   *)
EXTENDS GripperCommands, TLC

CONSTANT None
LOCAL INSTANCE SequencesExt
Gw == INSTANCE GripperWords WITH Magic <- 9, QueueSize <- 3

Perms == Permutations(Callers)

-----------------------------------------------------------------------------
(* Frames                                                                      *)

Payloads == <<<<1>>, <<2, 3>>, <<>>, <<4>>, <<5, 6>>>>
Frames(Framed(_)) == [i \in DOMAIN Payloads |-> Framed(Payloads[i])]

\* What a reader has read of the chunks, each one reception.
Received(reads, chunks) ==
  FoldLeft(LAMBDA reader, chunk :
             LET more == reads[reader.rest \o chunk]
             IN  [rest |-> more.rest, read |-> reader.read \o more.read],
           [rest |-> <<>>, read |-> <<>>], chunks).read

ByNode(chunks)    == Received(Gw!NodeReads, chunks)
ByProgram(chunks) == Received(Gw!ProgramReads, chunks)
ByJson(chunks)    == Received(Gw!JsonReads, chunks)

Garbage == UNION {[1..n -> {0, 1}] : n \in 0..4}

\* Wherever the stream is cut into receptions, the frames are those that were sent.
ASSUME FramesSurviveCutting ==
  LET bin  == FlattenSeq(Frames(Gw!BinFrame))
      json == FlattenSeq(Frames(Gw!JsonFrame))
      Two(s, i, j) == <<SubSeq(s, 1, i), SubSeq(s, i + 1, j), SubSeq(s, j + 1, Len(s))>>
  IN  \A i \in 0..Len(bin) : \A j \in i..Len(bin) :
        /\ ByNode(Two(bin, i, j)) = Payloads
        /\ ByProgram(Two(bin, i, j)) = Payloads
        /\ i <= Len(json) /\ j <= Len(json) => ByJson(Two(json, i, j)) = Payloads

\* Behind garbage the program reads at once; the node wants one more reception for each
\* byte of it, and then has lost nothing (gripper_node.py:866).
ASSUME NodeCatchesUpByTheByte ==
  \A garbage \in Garbage :
    LET frames == Frames(Gw!BinFrame)
        chunks == <<garbage \o frames[1]>> \o Tail(frames)
        n == Len(garbage)
    IN  /\ ByProgram(chunks) = Payloads
        /\ ByNode(chunks) = Payloads
        /\ \A k \in 1..n : ByNode(SubSeq(chunks, 1, k)) = <<>>

\* After a frame that was cut short (gripper_node.py:368) the binary readers lose some
\* frames and then read on; the JSON readers may never again (:1026).
Again == <<2, 0>>
CutStream(Framed(_), n) ==
  <<Gw!SentPart(Framed(<<1, 2, 3>>), n)>> \o [i \in 1..12 |-> Framed(Again)]

ASSUME OnlyBinaryFindsItsWay ==
  /\ \A n \in 0..5 : /\ Last(ByProgram(CutStream(Gw!BinFrame, n))) = Again
                     /\ Last(ByNode(CutStream(Gw!BinFrame, n))) = Again
  /\ \E n \in 1..3 : Again \notin Range(ByJson(CutStream(Gw!JsonFrame, n)))

\* So it is after the node has thrown away the front of too long a buffer
\* (gripper_node.py:975).
Backlog(Framed(_), keep) ==
  LET frames == [i \in 1..12 |-> Framed(<<2, 3>>)]
  IN  <<Gw!Kept(FlattenSeq(frames), 20, keep)>> \o frames

ASSUME BinaryOutlivesTheCut ==
  /\ \A keep \in 1..20 : Len(ByNode(Backlog(Gw!BinFrame, keep))) >= 12
  /\ \E keep \in 1..20 : <<2, 3>> \notin Range(ByJson(Backlog(Gw!JsonFrame, keep)))

-----------------------------------------------------------------------------
(* Registers                                                                   *)

Params(regs, mode) ==
  [slave |-> 1, curReg |-> 287, posReg |-> 282, posRegs |-> regs, writeMode |-> mode,
   open |-> 100, closed |-> 420, init |-> 400, grip |-> 300, tolerance |-> 20,
   threshold |-> 50]

Blank == [r \in 280..291 |-> 7]
Written(regs, frames) == FoldLeft(Gw!Obeyed, regs, frames)

Flipped(frame, i, bit) ==
  [frame EXCEPT ![i] = IF (@ \div 2^bit) % 2 = 1 THEN @ - 2^bit ELSE @ + 2^bit]

\* Every frame carries the check sum that its reader finds zero, and any one bit that
\* flips is noticed.
ASSUME CheckSumsHold ==
  \A frame \in {Gw!fc06(1, 287, 300), Gw!fc16(1, 282, <<420, 0>>), Gw!fc03(1, 287, 5)} :
    /\ Gw!crc16(frame) = 0
    /\ \A i \in DOMAIN frame : \A bit \in 0..7 : Gw!crc16(Flipped(frame, i, bit)) # 0

\* A target from 0 to 65535 is read back as it was written; a negative one is not, nor
\* is anything if one register is written and two are read (gripper_node.py:1606).
ReadBack(regs, mode, pulse) ==
  LET p == Params(regs, mode)
  IN  Gw!read_pos(<<Gw!Answered(Written(Blank, Gw!pos_frames(p, pulse)), 282, 2)>>, 2)

ASSUME TargetsAreReadBack ==
  /\ \A pulse \in {0, 1, 255, 256, 700, 32767, 32768, 65535} : ReadBack(2, "fc16", pulse) = pulse
  /\ ReadBack(2, "fc16", -5) = 65531
  /\ ReadBack(2, "fc06", 420) # 420

\* One reading of all registers gives what separate readings give, wherever they lie,
\* and too few words are never taken for the right ones (gripper_node.py:296).
ASSUME BulkReadsTheSame ==
  \A cur \in 280..290, pos \in 280..290, posRegs \in 1..2 :
    LET regs  == [r \in 280..291 |-> IF r % 2 = 0 THEN 65000 + r ELSE r]
        start == Gw!BulkStart(cur, pos)
        count == Gw!BulkCount(cur, pos, posRegs)
        good  == Gw!Answered(regs, start, count)
        short == Gw!Answered(regs, start, count - 1)
        apart == [cur |-> Gw!read_cur(<<None, Gw!Answered(regs, cur, 1)>>),
                  pos |-> Gw!read_pos(<<Gw!Answered(regs, pos, posRegs)>>, posRegs)]
    IN  \A answers \in {<<good>>, <<None, short, good>>, <<short, None, short, good>>} :
          Gw!read_cur_pos_bulk(answers, cur, pos, posRegs, apart) = apart

\* The node shows the position the program read unless a setting says otherwise.  The
\* goal is sent as a word whether it was read or not (gripper_node.py:563).
ASSUME StateIsWhatWasRead ==
  /\ \A pos \in {-1, 0, 700, 65536} :
       /\ Gw!position(pos, FALSE, "hi_lo") = pos
       /\ Gw!position(pos, TRUE, "hi_lo") \in 0..65535
       /\ Gw!position(Gw!position(pos, FALSE, "lo_hi"), FALSE, "lo_hi") = pos
  /\ Gw!StateSent(300, 420, 300, Gw!read_reg16(<<None, None>>))[4] \in 0..65535
  /\ Gw!StateSent(300, 420, Gw!read_reg16(<<None, None>>), 420) = <<>>

\* The program of the other transport takes the first word for the high one: a target
\* that lies in the registers as fc16 writes it is not seen reached
\* (gripper_node.py:149 against 1606).
ASSUME PollReadsHighFirst ==
  \A words \in {<<420, 0>>, <<0, 420>>} :
    LET look == [cur |-> 0, words |-> words]
    IN  Gw!PollEnds(<<look, look, look>>, 50, 420, 20, 3)
          = IF words = <<420, 0>> THEN 3 ELSE 1

-----------------------------------------------------------------------------
(* Requests                                                                    *)

P == Params(2, "fc16")
Named == {Gw!resolve_preset_action(P, action, pulse, cur) :
            action \in {"open", "release", "close", "custom"}, pulse \in {-1, 0, 500},
            cur \in {0, 250}}

\* Known actions have a target; only an unknown one is refused.
ASSUME ActionsHaveTargets ==
  /\ \A target \in Named : target.pulse >= 0 /\ target.cur > 0
  /\ Gw!resolve_preset_action(P, "grip", 500, 250).pulse = -1

\* Without a worker the queue holds the newest commands, in order; the next one that is
\* done is the newest of all if only the latest counts.
ASSUME NewestAreKept ==
  \A n \in 1..6 : \A latestOnly \in BOOLEAN :
    LET queue == FoldLeft(LAMBDA q, i : Gw!Queued(q, i, latestOnly), <<>>, [i \in 1..n |-> i])
    IN  IF latestOnly THEN Gw!Taken(queue, TRUE) = [item |-> n, queue |-> <<>>]
        ELSE queue = SubSeq([i \in 1..n |-> i], IF n > 3 THEN n - 2 ELSE 1, n)

\* A history of requests to a node that is online: what the last one asked of the
\* gripper, and what its registers hold.
Fresh == [active |-> TRUE, last |-> None, pos |-> 0, cur |-> 0]
Requests == {"direct", "service", "lost"} \X {Gw!Target(100, 400), Gw!Target(420, 300),
                                              Gw!Target(420, 400)}

Did(state, request) ==
  LET kind == request[1]
      target == request[2]
      done == IF kind = "service"
              THEN Gw!set_position(P, state.node, "real", target.pulse, target.cur, TRUE, FALSE,
                                   <<>>)
              ELSE Gw!direct_cmd_streaming_inline(P, state.node, target, kind = "direct")
  IN  [node |-> done.node, regs |-> Written(state.regs, done.frames)]

History(requests) == FoldLeft(Did, [node |-> Fresh, regs |-> Blank], requests)
AtTarget(regs, target) ==
  regs[287] = target.cur /\ regs[282] = target.pulse /\ regs[283] = 0

\* Whatever direct commands were sent or lost, one that is sent is in the registers: the
\* current may be left out only if it is there (gripper_node.py:1572).  A request of the
\* service in between breaks it: the command that equals the last direct one is skipped,
\* though the gripper has gone elsewhere (gripper_node.py:1566).
ASSUME StreamForgetsTheService ==
  LET Ends == UNION {[1..n -> Requests] : n \in 1..3}
      Bad(requests) == /\ Last(requests)[1] # "lost"
                       /\ ~AtTarget(History(requests).regs, Last(requests)[2])
  IN  /\ \A requests \in Ends :
           Bad(requests) => \E i \in DOMAIN requests : requests[i][1] = "service"
      /\ \E requests \in Ends : Bad(requests)
      /\ \A requests \in Ends : Last(requests)[1] = "service" => ~Bad(requests)

\* Success of the service and of the action means that the frames were acknowledged, in
\* the order current, position; it does not mean that the gripper is there, which
\* the message says (gripper_node.py:1822), and a node offline has moved nothing.
Looks == {[pos |-> 0, cur |-> 0], [pos |-> 401, cur |-> 0], [pos |-> 440, cur |-> -51]}

ASSUME SuccessIsNotArrival ==
  LET Acts == {Gw!execute(P, [Fresh EXCEPT !.active = online], action, 0, 0, force, a, b, looks) :
                 online \in BOOLEAN, action \in {"close", "grip"}, force \in {0, 5, 2000},
                 a \in BOOLEAN, b \in BOOLEAN, looks \in [1..2 -> Looks]}
  IN  /\ \A act \in Acts :
           /\ act.success => /\ Written(Blank, act.frames)[282] = 420
                             /\ Written(Blank, act.frames)[287] \in {300, 10, 1000}
           /\ ~act.node.active => ~act.success /\ act.frames = <<>>
      /\ \E act \in Acts : act.success /\ act.node.pos = 0 /\ act.node.cur = 0

\* Over the other transport the same: the node shows the target of a program that looked
\* in vain (gripper_node.py:1771).
ASSUME TakenIsNotArrival ==
  LET target == Gw!Target(420, 300)
      vain == [i \in 1..60 |-> [cur |-> 0, words |-> <<0, 100>>]]
      reply == Gw!over_drl(Fresh, "real", target, TRUE)
  IN  /\ Gw!PollEnds(vain, P.threshold, target.pulse, P.tolerance, 60) = 60
      /\ reply.success /\ reply.node.pos = 420
      /\ ~Gw!over_drl(Fresh, "real", target, FALSE).success

\* What the service waits for ends its look, and no later state is taken.
ASSUME LooksEndWithTheFirst ==
  \A looks \in [1..2 -> Looks] : \A fresh \in BOOLEAN :
    LET reply == Gw!set_position(P, Fresh, "real", 420, 0, TRUE, fresh, looks)
    IN  /\ reply.success
        /\ reply.node.pos = CASE ~fresh -> 420
                              [] fresh /\ Gw!Near(P, looks[1], [pulse |-> 420]) -> looks[1].pos
                              [] OTHER -> looks[2].pos

-----------------------------------------------------------------------------
(* Angles and what RViz is shown                                               *)

Angle(p) == Gw!pulse_to_rad(p, 1101, 0, 700)

\* Every pulse of the gripper comes back from its angle, pulses outside are taken for
\* the nearest; a gripper whose pulses fall as it closes would be shown open.
ASSUME PulsesComeBack ==
  /\ \A p \in -10..710 :
       /\ Gw!rad_to_pulse(Angle(p), 1101, 0, 700) = Gw!clamp(p, 0, 700)
       /\ Gw!rad_to_stroke(Gw!stroke_to_rad(p, 1101, 700), 1101, 700) = Gw!clamp(p, 0, 700)
  /\ \A mrad \in 0..1100 : \A more \in {1, 400} :
       Gw!rad_to_pulse([num |-> mrad, den |-> 1], 1101, 0, 700)
         <= Gw!rad_to_pulse([num |-> mrad + more, den |-> 1], 1101, 0, 700)
  /\ \A p \in 0..700 : Gw!pulse_to_rad(p, 1101, 700, 0).num = 0
  /\ Gw!rad_to_pulse([num |-> 1101, den |-> 1], 1101, 700, 0) = 0

\* The merged state names every joint once, with a position and a velocity each, and all
\* of the gripper's have its angle, if the arm gave a position for each of its joints
\* (rviz_joint_state_merger_node.py:98); one that gave none shifts them.
Arm(names, positions, velocities) ==
  [name |-> names, position |-> SubSeq(<<11, 12, 13, 14>>, 1, positions),
   velocity |-> SubSeq(<<21, 22, 23, 24>>, 1, velocities)]

ASSUME MergedStateIsWhole ==
  LET Armed == {<<"j1", "j2">>, <<"j1", "rh_l1", "j2">>, <<"rh_r1", "rh_l1", "rh_r2", "rh_l2">>}
      Good(out) ==
        /\ IsInjective(out.name)
        /\ Len(out.position) = Len(out.name) /\ Len(out.velocity) = Len(out.name)
        /\ \A i \in DOMAIN out.name :
             out.name[i] \in Range(Gw!GripperJoints) => out.position[i] = 99
  IN  \A names \in Armed :
        /\ \A v \in 0..Len(names) :
             Good(Gw!merged(Arm(names, Len(names), v), 99, Gw!GripperJoints))
        /\ Range(names) \cap Range(Gw!GripperJoints) = {} =>
             ~Good(Gw!merged(Arm(names, 0, 0), 99, Gw!GripperJoints))

ASSUME AddressesAreClamped ==
  \A addr \in -3..30 : /\ Gw!clamp_plc_out_int_addr(addr) \in 0..23
                       /\ addr \in 0..23 => Gw!clamp_plc_out_int_addr(addr) = addr
=============================================================================

------------------------------ MODULE GripperWords ------------------------------
(***************************************************************************)
(* What passes between the callers of the gripper, the node, the program on  *)
(* the controller and the gripper itself (motion/gripper_node.py,            *)
(* gripper_conversion.py, rviz_joint_state_merger_node.py): frames in a      *)
(* stream of bytes, registers of 16 bits, requests and what they make of     *)
(* them, and what is shown.  Functions of the inputs; GripperCommands is     *)
(* about commands and their acknowledgements, GripperLink about the          *)
(* connection.                                                               *)
(***************************************************************************)
EXTENDS Integers, Sequences
LOCAL INSTANCE SequencesExt
LOCAL INSTANCE Bitwise

CONSTANTS
  Magic,       \* the byte a header starts with
  QueueSize,   \* of direct commands, 20 in the code
  None         \* Python's None; a model value

----------------------------------------------------------------------------
(* Frames in a stream of bytes.  A header is Magic and a length (nine bytes    *)
(* in the code), the length alone in the protocol of JSON.                      *)

BinFrame(payload)  == <<Magic, Len(payload)>> \o payload
JsonFrame(payload) == <<Len(payload)>> \o payload

\* _sendall of the program: its socket does not block, and an error in the middle of a
\* frame ends the frame; n bytes have left.
SentPart(frame, n) == SubSeq(frame, 1, IF n < Len(frame) THEN n ELSE Len(frame))

Left(buf) == [rest |-> buf, read |-> <<>>]
Then(payload, reader) == [reader EXCEPT !.read = <<payload>> \o @]
After(buf, n) == SubSeq(buf, n + 1, Len(buf))

\* The loop over _bin_try_parse_one: without a header at its head the buffer loses a
\* byte, and the loop ends until more arrives.
NodeReads[buf \in Seq(Nat)] ==
  CASE Len(buf) < 2                          -> Left(buf)
    [] Len(buf) >= 2 /\ buf[1] # Magic       -> Left(Tail(buf))
    [] Len(buf) >= 2 /\ buf[1] = Magic /\ Len(buf) < 2 + buf[2] -> Left(buf)
    [] OTHER -> Then(SubSeq(buf, 3, 2 + buf[2]), NodeReads[After(buf, 2 + buf[2])])

\* _recv_bin_packets of the program goes on behind the byte.
ProgramReads[buf \in Seq(Nat)] ==
  CASE Len(buf) < 2                          -> Left(buf)
    [] Len(buf) >= 2 /\ buf[1] # Magic       -> ProgramReads[Tail(buf)]
    [] Len(buf) >= 2 /\ buf[1] = Magic /\ Len(buf) < 2 + buf[2] -> Left(buf)
    [] OTHER -> Then(SubSeq(buf, 3, 2 + buf[2]), ProgramReads[After(buf, 2 + buf[2])])

\* The same loop on both sides with JSON; a payload that is no message is passed over.
JsonReads[buf \in Seq(Nat)] ==
  IF buf = <<>> \/ Len(buf) < 1 + buf[1] THEN Left(buf)
  ELSE Then(SubSeq(buf, 2, 1 + buf[1]), JsonReads[After(buf, 1 + buf[1])])

\* _recv_loop: too long a buffer keeps its last bytes.
Kept(buf, max, keep) == IF Len(buf) > max THEN After(buf, Len(buf) - keep) ELSE buf

----------------------------------------------------------------------------
(* Modbus *)

Word == 65536
Bytes(v) == <<v \div 256, v % 256>>
Signed16(v) == IF v > 32767 THEN v - Word ELSE v
Join(low, high) == low + Signed16(high) * Word     \* 32 bits, signed

Shift(crc) == IF crc % 2 = 1 THEN (crc \div 2) ^^ 40961 ELSE crc \div 2
Shifted[n \in Nat, crc \in Nat] == IF n = 0 THEN crc ELSE Shifted[n - 1, Shift(crc)]
Checked[bytes \in Seq(Nat), crc \in Nat] ==
  IF bytes = <<>> THEN crc ELSE Checked[Tail(bytes), Shifted[8, crc ^^ Head(bytes)]]
crc16(bytes) == Checked[bytes, 65535]
Closed(body) == LET crc == crc16(body) IN body \o <<crc % 256, crc \div 256>>

fc06(slave, reg, value) == Closed(<<slave, 6>> \o Bytes(reg) \o Bytes(value))
fc03(slave, start, count) == Closed(<<slave, 3>> \o Bytes(start) \o Bytes(count))
fc16(slave, start, values) ==
  Closed(<<slave, 16>> \o Bytes(start) \o Bytes(Len(values)) \o <<2 * Len(values)>>
           \o FlattenSeq([i \in 1..Len(values) |-> Bytes(values[i])]))

\* The gripper: registers, and what a frame does to them.
Obeyed(regs, frame) ==
  LET reg == frame[3] * 256 + frame[4]
      value(i) == frame[i] * 256 + frame[i + 1]
  IN  CASE crc16(frame) = 0 /\ frame[2] = 6  -> [regs EXCEPT ![reg] = value(5)]
        [] crc16(frame) = 0 /\ frame[2] = 16 ->
             [r \in DOMAIN regs |-> IF r \in reg..(reg + value(5) - 1)
                                    THEN value(8 + 2 * (r - reg)) ELSE regs[r]]
        [] OTHER -> regs

Answered(regs, start, count) == [fc |-> 3, data |-> [i \in 1..count |-> regs[start + i - 1]]]

----------------------------------------------------------------------------
(* The program reads the gripper.  Answers are those to its tries, None where    *)
(* none came in time; the check sum of an answer is not looked at.               *)

Unread == -99999

\* The first answer of the right kind whose number of words is one of lengths.
FirstOf(answers, tries, lengths) ==
  LET good == {i \in DOMAIN answers : /\ i <= tries /\ answers[i] # None
                                      /\ answers[i].fc = 3 /\ Len(answers[i].data) \in lengths}
  IN  IF good = {} THEN None ELSE answers[CHOOSE i \in good : \A j \in good : i <= j]

read_cur(answers) ==
  LET a == FirstOf(answers, 3, {1})
  IN  IF a = None THEN Unread ELSE Signed16(a.data[1])

read_reg16(answers) ==
  LET a == FirstOf(answers, 2, {1})
  IN  IF a = None THEN Unread ELSE a.data[1]

read_pos(answers, posRegs) ==
  LET a == FirstOf(answers, 3, {IF posRegs = 1 THEN 1 ELSE 2})
  IN  CASE a = None -> Unread
        [] a # None /\ posRegs = 1 -> a.data[1]
        [] OTHER -> Join(a.data[1], a.data[2])

\* One reading over both, if they are near; what cannot be read so is read apart.
BulkStart(curReg, posReg) == IF curReg < posReg THEN curReg ELSE posReg
BulkCount(curReg, posReg, posRegs) ==
  LET last == posReg + posRegs - 1
  IN  (IF curReg > last THEN curReg ELSE last) - BulkStart(curReg, posReg) + 1

read_cur_pos_bulk(answers, curReg, posReg, posRegs, apart) ==
  LET count == BulkCount(curReg, posReg, posRegs)
      a == FirstOf(answers, 3, Nat \ (0..(count - 1)))
      at(reg) == a.data[reg - BulkStart(curReg, posReg) + 1]
  IN  IF count > 16 \/ a = None THEN apart
      ELSE [cur |-> Signed16(at(curReg)),
            pos |-> IF posRegs = 1 THEN at(posReg) ELSE Join(at(posReg), at(posReg + 1))]

\* The binary state: what does not fit its field makes the frame empty, the goal's words
\* are cut to 16 bits; nothing is sent unless current and position were read.
StateSent(cur, pos, gcur, glow) ==
  CASE cur = Unread \/ pos = Unread -> None
    [] cur # Unread /\ pos # Unread /\ gcur \notin -32768..32767 -> <<>>
    [] OTHER -> <<cur, pos, gcur, glow % Word>>

\* _recv_loop: the position that the node keeps (without a scale).
position(raw, useLow, order) ==
  CASE useLow -> raw % Word
    [] ~useLow /\ order = "lo_hi" -> ((raw \div Word) % Word) + Signed16(raw % Word) * Word
    [] OTHER -> raw

\* build_drl_move_and_poll: writes, then at most max looks, of which each reads the
\* current and, if that is small, the position, its high word first.  The program ends
\* whatever it saw.
PollEnds(looks, threshold, target, tolerance, max) ==
  LET seen(i) == \/ looks[i].cur > threshold \/ looks[i].cur < -threshold
                 \/ Join(looks[i].words[2], looks[i].words[1])
                      \in (target - tolerance)..(target + tolerance)
      done == {i \in DOMAIN looks : i <= max /\ seen(i)}
  IN  IF done = {} THEN max ELSE CHOOSE i \in done : \A j \in done : i <= j

----------------------------------------------------------------------------
(* Requests.  params: slave, curReg, posReg, posRegs, writeMode, open, closed,   *)
(* init, grip (the pulses and currents of the presets), tolerance, threshold.    *)

Target(pulse, cur) == [pulse |-> pulse, cur |-> cur]

resolve_preset_action(params, action, pulse, cur) ==
  CASE action \in {"open", "release"} -> Target(params.open, params.init)
    [] action = "close"  -> Target(params.closed, params.grip)
    [] action = "custom" -> Target(IF pulse >= 0 THEN pulse ELSE params.closed,
                                   IF cur > 0 THEN cur ELSE params.init)
    [] OTHER -> Target(-1, -1)

pos_frames(params, pulse) ==
  IF params.posRegs > 1 /\ params.writeMode = "fc16"
  THEN <<fc16(params.slave, params.posReg, <<pulse % Word, 0>>)>>
  ELSE <<fc06(params.slave, params.posReg, pulse % Word)>>

cur_frame(params, cur) == fc06(params.slave, params.curReg, cur)

\* _on_direct_cmd: of the queue, latest only or the oldest out when it is full; what the
\* worker takes next.
Queued(queue, item, latestOnly) ==
  IF latestOnly THEN <<item>>
  ELSE Append(IF Len(queue) = QueueSize THEN Tail(queue) ELSE queue, item)

Taken(queue, latestOnly) ==
  IF latestOnly THEN [item |-> Last(queue), queue |-> <<>>]
  ELSE [item |-> Head(queue), queue |-> Tail(queue)]

\* node: active (_socket_active), last (_last_sent_direct_*), pos and cur (what
\* /gripper/state shows).  Every one gives the node and the frames it has sent.
Quiet(node) == [node |-> node, frames |-> <<>>]

direct_cmd_streaming_inline(params, node, target, sent) ==
  LET frames == (IF node.last # None /\ node.last.cur = target.cur THEN <<>>
                 ELSE <<cur_frame(params, target.cur)>>) \o pos_frames(params, target.pulse)
  IN  IF node.last = target \/ ~node.active \/ ~sent THEN Quiet(node)
      ELSE [node |-> [node EXCEPT !.last = target], frames |-> frames]

direct_cmd_worker(params, node, target, sent) ==
  IF ~node.active \/ ~sent THEN Quiet(node)
  ELSE [node   |-> [node EXCEPT !.last = target, !.pos = target.pulse],
        frames |-> <<cur_frame(params, target.cur)>> \o pos_frames(params, target.pulse)]

\* _set_position_callback: after the acknowledgement the state is looked at for half a
\* second if it is fresh; looks are what it shows meanwhile, and the answer is success
\* whatever they are.
Near(params, look, target) ==
  \/ look.cur > params.threshold \/ look.cur < -params.threshold
  \/ (look.pos - target.pulse) \in (1 - params.tolerance)..(params.tolerance - 1)

Looked(params, node, looks, target) ==
  LET near == {i \in DOMAIN looks : Near(params, looks[i], target)}
      last == IF near = {} THEN Len(looks) ELSE CHOOSE i \in near : \A j \in near : i <= j
  IN  IF last = 0 THEN node
      ELSE [node EXCEPT !.pos = looks[last].pos, !.cur = looks[last].cur]

Reply(success, node, frames) == [success |-> success, node |-> node, frames |-> frames]

set_position(params, node, mode, position_, current, acked, fresh, looks) ==
  LET target == Target(position_, IF current > 0 THEN current ELSE params.init)
      frames == <<cur_frame(params, target.cur)>> \o pos_frames(params, target.pulse)
  IN  CASE mode = "virtual" -> Reply(TRUE, [node EXCEPT !.pos = target.pulse], <<>>)
        [] mode # "virtual" /\ ~node.active -> Reply(FALSE, node, <<>>)
        [] mode # "virtual" /\ node.active /\ ~acked -> Reply(FALSE, node, frames)
        [] OTHER -> Reply(TRUE, IF fresh THEN Looked(params, node, looks, target)
                                ELSE [node EXCEPT !.pos = target.pulse], frames)

\* _execute_callback over the connection: an unknown action closes, a force is cut to
\* 10..1000, the position is written only after the current is acknowledged.
Cut(force) == IF force < 10 THEN 10 ELSE IF force > 1000 THEN 1000 ELSE force

execute(params, node, action, pulse, cur, force, curAcked, posAcked, looks) ==
  LET named  == resolve_preset_action(params, action, pulse, cur)
      preset == IF named.pulse < 0 THEN Target(params.closed, params.grip) ELSE named
      target == [preset EXCEPT !.cur = Cut(IF force > 0 THEN force ELSE preset.cur)]
      first  == <<cur_frame(params, target.cur)>>
      both   == first \o pos_frames(params, target.pulse)
  IN  CASE ~node.active -> Reply(FALSE, node, <<>>)
        [] node.active /\ ~curAcked -> Reply(FALSE, node, first)
        [] node.active /\ curAcked /\ ~posAcked -> Reply(FALSE, node, both)
        [] OTHER -> Reply(TRUE, Looked(params, node, looks, target), both)

\* Over the other transport the controller runs a program and _call_drl says whether it
\* was taken; a virtual gripper needs none.
over_drl(node, mode, target, taken) ==
  IF mode = "virtual" \/ taken THEN Reply(TRUE, [node EXCEPT !.pos = target.pulse], <<>>)
  ELSE Reply(FALSE, node, <<>>)

\* _clamp_plc_out_int_addr
clamp_plc_out_int_addr(addr) == IF addr < 0 THEN 0 ELSE IF addr > 23 THEN 23 ELSE addr

----------------------------------------------------------------------------
(* Pulses and angles.  An angle is a fraction num / den, from that of the open      *)
(* gripper; span is that of the closed one.                                        *)

clamp(value, lo, hi) == IF value < lo THEN lo ELSE IF value < hi THEN value ELSE hi

\* normalized_closure, times span * angle.den
Closure(angle, span) == clamp(angle.num, 0, span * angle.den)

rad_to_pulse(angle, span, pulseOpen, pulseClosed) ==
  LET whole == span * angle.den
  IN  IF span <= 0 THEN pulseOpen
      ELSE pulseOpen + (2 * Closure(angle, span) * (pulseClosed - pulseOpen) + whole)
                         \div (2 * whole)

\* rad_to_stroke
rad_to_stroke(angle, span, strokeMax) == rad_to_pulse(angle, span, 0, strokeMax)

pulse_to_rad(pulse, span, pulseOpen, pulseClosed) ==
  LET pulses == pulseClosed - pulseOpen
  IN  IF pulses <= 0 THEN [num |-> 0, den |-> 1]
      ELSE [num |-> clamp(pulse - pulseOpen, 0, pulses) * span, den |-> pulses]

stroke_to_rad(stroke, span, strokeMax) == pulse_to_rad(stroke, span, 0, strokeMax)

\* RvizJointStateMerger._publish: the joints of the gripper take the place they have in
\* the state of the arm, or follow it.
GripperJoints == <<"rh_r1", "rh_l1", "rh_r2", "rh_l2">>

merged(arm, master, joints) ==
  FoldLeft(LAMBDA out, joint :
             IF \E i \in DOMAIN out.name : out.name[i] = joint
             THEN [out EXCEPT !.position[CHOOSE i \in DOMAIN out.name : out.name[i] = joint]
                                = master]
             ELSE [name |-> Append(out.name, joint), position |-> Append(out.position, master),
                   velocity |-> Append(out.velocity, 0)],
           [arm EXCEPT !.velocity = @ \o [i \in 1..(Len(arm.name) - Len(@)) |-> 0]], joints)
=============================================================================

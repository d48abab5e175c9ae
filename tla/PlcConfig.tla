----------------------------- MODULE PlcConfig ------------------------------
(***************************************************************************)
(* plc_core/config.py and _load_config of plc/plc_node.py: which sets of   *)
(* parameters the PLC node starts with, and how it looks coils up in them. *)
(*                                                                         *)
(* A configuration is the record of the parameters.  A label is its device *)
(* letter and its number, in the one case the code compares it in; a list  *)
(* of labels is a sequence; times are whole milliseconds.                  *)
(***************************************************************************)
EXTENDS Integers, Sequences, FiniteSets

NoAddress == -1     \* "not configured" in the parameters
NoLabel == [dev |-> "", n |-> 0]
Blank == [dev |-> " ", n |-> 0]    \* an item of a list with nothing in it

M(n) == [dev |-> "M", n |-> n]

\* _load_config: the declared defaults.
DefaultParameters ==
  LET One(state, coil) == [state |-> state, labels |-> <<M(coil)>>] IN
  [labels |-> <<M(0), M(1), M(2), M(3), M(4), M(5)>>,
   addresses |-> <<0, 1, 2, 3, 4, 5>>,
   outputs |-> <<"P0040", "P0041", "P0042", "P0043", "P0043", "P0044">>,
   reset |-> M(100), resetAddress |-> 256,
   watchdog |-> M(50), watchdogAddress |-> 80,
   estop |-> NoLabel, estopAddress |-> NoAddress,
   states |-> <<One("idle", 0), One("listening", 1), One("inferring", 1), One("moving", 2),
                One("e_stop", 3), One("error", 4), One("watchdog", 5)>>,
   pulse |-> 200, watch |-> TRUE, period |-> 100, timeout |-> 500, poll |-> FALSE]

Items(s) == {s[i] : i \in DOMAIN s}

OnMemory(label) == label.dev = "M"

----------------------------------------------------------------------------
(* parse_system_state_outputs and _normalize_system_state_outputs *)

\* A later entry for a state replaces an earlier one; blanks between commas go;
\* a state that is not mentioned has no outputs.
Entries(c, state) == {i \in DOMAIN c.states : c.states[i].state = state}
NotBlank(label) == label # Blank

output_labels_for_state(c, state) ==
  IF Entries(c, state) = {} THEN <<>>
  ELSE LET last == CHOOSE i \in Entries(c, state) : \A j \in Entries(c, state) : j <= i
       IN  SelectSeq(c.states[last].labels, NotBlank)

\* Anything but the seven states raises.
StatesAreKnown(c, States) == \A i \in DOMAIN c.states : c.states[i].state \in States

----------------------------------------------------------------------------
(* __post_init__ *)

SameLengths(c) ==
  Len(c.labels) = Len(c.addresses) /\ Len(c.labels) = Len(c.outputs)

\* A label and an address, or neither.
Whole(label, address) == label = NoLabel <=> address < 0

CoilsAreMemory(c) ==
  /\ OnMemory(c.reset)
  /\ c.watchdog # NoLabel => OnMemory(c.watchdog)
  /\ \A label \in Items(c.labels) : OnMemory(label)

OutputsAreCoils(c, States) ==
  \A s \in States : Items(output_labels_for_state(c, s)) \subseteq Items(c.labels)

\* _load_config: the watchdog must see a stall within half a second.
PeriodsFit(c) ==
  c.watch =>
    /\ c.watchdogAddress >= 0
    /\ c.period <= 100 /\ c.timeout <= 500 /\ c.period < c.timeout

Accepted(c, States) ==
  /\ SameLengths(c) /\ c.labels # <<>> /\ c.pulse > 0
  /\ CoilsAreMemory(c)
  /\ Whole(c.watchdog, c.watchdogAddress) /\ Whole(c.estop, c.estopAddress)
  /\ StatesAreKnown(c, States) /\ OutputsAreCoils(c, States)
  /\ PeriodsFit(c)
  /\ c.poll => c.estopAddress >= 0

----------------------------------------------------------------------------
(* What the node asks of its configuration *)

\* The first coil of that label.
coil_address_for_label(c, label) ==
  c.addresses[CHOOSE i \in DOMAIN c.labels :
                /\ c.labels[i] = label
                /\ \A j \in DOMAIN c.labels : c.labels[j] = label => i <= j]

first_start_coil_address(c) == c.addresses[1]

start_coils_are_contiguous(c) ==
  \A i \in 1..Len(c.addresses) - 1 : c.addresses[i + 1] = c.addresses[i] + 1

\* write_start_coils: one request for a row of coils, else one per coil.
Batch(c) ==
  IF start_coils_are_contiguous(c)
  THEN first_start_coil_address(c)..first_start_coil_address(c) + Len(c.addresses) - 1
  ELSE Items(c.addresses)

\* The coils a state presses.
Lamps(c, state) ==
  {coil_address_for_label(c, l) : l \in Items(output_labels_for_state(c, state))}

\* m_topic_suffix: the digits after the M are hexadecimal.
m_topic_suffix(digits) ==
  LET value[k \in 0..Len(digits)] == IF k = 0 THEN 0 ELSE 16 * value[k - 1] + digits[k]
  IN  value[Len(digits)]

\* watchdog_timer_callback: the equal samples in a row that make a timeout.
StallSamples(c) ==
  CHOOSE n \in 1..c.timeout : n * c.period >= c.timeout /\ (n - 1) * c.period < c.timeout
=============================================================================

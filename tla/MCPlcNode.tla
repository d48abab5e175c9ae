----------------------------- MODULE MCPlcNode -----------------------------
(***************************************************************************)
(* PlcNode for TLC: see the .cfg file for the bounds; and PlcConfig on     *)
(* every configuration of at most two coils and two entries.               *)
(***************************************************************************)
EXTENDS PlcNode, TLC

Config == INSTANCE PlcConfig

CONSTANTS green, red
MCOutput == [s \in SystemStates |-> IF s \in {"idle", "listening", "inferring"} THEN green ELSE red]

----------------------------------------------------------------------------
UpTo(S, n) == UNION {[1..k -> S] : k \in 0..n}

M(n) == Config!M(n)
Labels == {M(0), M(1), [dev |-> "P", n |-> 0]}

\* The defaults, with two coils and no state yet.
Default == [Config!DefaultParameters EXCEPT !.labels = <<M(0), M(1)>>, !.addresses = <<0, 1>>,
                                            !.outputs = <<"P40", "P41">>, !.states = <<>>]

Two == {"idle", "moving"}
Entry == [state : Two \cup {"off"}, labels : UpTo({M(0), M(1), Config!Blank}, 2)]

CoilConfigs ==
  UNION {{[Default EXCEPT !.labels = ls, !.addresses = as, !.outputs = ls, !.states = es] :
            as \in [DOMAIN ls -> 0..2], es \in UpTo(Entry, 1) \cup {<<e, e2>> : e \in Entry,
              e2 \in [state : {"idle"}, labels : UpTo({M(0), M(1)}, 1)]}} :
          ls \in UpTo(Labels, 2)}

\* The defaults are accepted, and each state has a lamp of the tower.
ASSUME DefaultsAreAccepted ==
  LET c == Config!DefaultParameters
  IN  /\ Config!Accepted(c, SystemStates) /\ Config!StallSamples(c) = 5
      /\ \A s \in SystemStates : Config!Lamps(c, s) # {}

\* With an accepted configuration no coil of any state is looked up in vain
\* (plc_core/config.py:88): the exception would leave a timer callback.
ASSUME EveryStateFindsItsCoils ==
  \A c \in CoilConfigs : Config!Accepted(c, Two) =>
    \A s \in Two : Config!Lamps(c, s) \subseteq Config!Items(c.addresses)

\* One request for the whole row writes exactly the configured coils.
ASSUME BatchIsTheCoils ==
  \A c \in CoilConfigs : Config!Accepted(c, Two) => Config!Batch(c) = Config!Items(c.addresses)

\* What ConfigAssumption of PlcNode asks for and __post_init__ does not check:
\* one coil for each state, apart from the reset coil.
Plain(c) ==
  /\ \A s \in Two : Len(Config!output_labels_for_state(c, s)) = 1
  /\ c.resetAddress \notin Config!Items(c.addresses)

ASSUME PlainConfigsAreModelled ==
  \A c \in CoilConfigs : Config!Accepted(c, Two) /\ Plain(c) =>
    \E out \in [Two -> Config!Items(c.addresses)] : \A s \in Two : Config!Lamps(c, s) = {out[s]}

ASSUME OthersAreAccepted ==
  LET c == [Default EXCEPT !.states = <<[state |-> "idle", labels |-> <<M(0)>>]>>]
  IN  /\ Config!Accepted(c, Two) /\ ~Plain(c)
      /\ Config!Accepted([c EXCEPT !.resetAddress = 1], Two)

\* A stall is noticed after a whole number of samples that the time limit
\* rounds up to, never after the first one.
ASSUME StallIsMoreThanOneSample ==
  \A p \in {20, 30, 50, 90, 100, 110}, t \in {20, 100, 250, 500, 600} :
    LET c == [Default EXCEPT !.period = p, !.timeout = t]
    IN  Config!Accepted(c, Two) => Config!StallSamples(c) \in 2..25

ASSUME SuffixesAreApart ==
  LET digits == [1..3 -> {0, 1, 9, 10, 15}]
  IN  /\ Config!m_topic_suffix(<<0, 0, 1, 0>>) = 16 /\ Config!m_topic_suffix(<<0, 1, 0, 0>>) = 256
      /\ \A d, e \in digits : Config!m_topic_suffix(d) = Config!m_topic_suffix(e) => d = e
=============================================================================

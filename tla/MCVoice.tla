-------------------------------- MODULE MCVoice --------------------------------
(* The instance of Voice for TLC, and what VoiceText promises, over every small *)
(* input.                                                                       *)
EXTENDS Voice, Integers

LOCAL INSTANCE FiniteSetsExt
Text == INSTANCE VoiceText WITH PreRoll <- 2, Trailing <- 1, Threshold <- 75

UpTo(set, n) == UNION {[1..k -> set] : k \in 0..n}

-----------------------------------------------------------------------------
(* The recorder                                                               *)

LoudOnes(sound) == {i \in DOMAIN sound : sound[i]}

\* Where the recording ends: with the second silent chunk running after speech, or
\* the time limit.
Ends(sound) ==
  LET first == Min(LoudOnes(sound))
      pauses == {i \in first + 2 .. Len(sound) : ~sound[i] /\ ~sound[i - 1]}
  IN  IF pauses = {} THEN Len(sound) ELSE Min(pauses)

\* A recording is one stretch of the sound, without a gap and in order, from two
\* chunks before the first loud one (audio_input.py:98).
ASSUME RecordingsAreOneStretch ==
  \A sound \in UpTo(BOOLEAN, 7) :
    Text!record_utterance(sound) =
      IF LoudOnes(sound) = {} THEN <<>>
      ELSE LET from == Max({1, Min(LoudOnes(sound)) - 2})
           IN  [i \in 1..Ends(sound) - from + 1 |-> from + i - 1]

-----------------------------------------------------------------------------
(* Texts                                                                       *)

\* Nothing is taken for a hallucination in which no word is said three times, and
\* three times running always is (transcript_filter.py:17).
ASSUME OnlyRepetitionIsRefused ==
  \A words \in UpTo({"a", "b", "c"}, 5) :
    /\ Text!is_likely_hallucinated(words) => \E w \in {"a", "b", "c"} : Text!Times(w, words) >= 3
    /\ (\E i \in 3..Len(words) : words[i] = words[i - 1] /\ words[i] = words[i - 2])
         => ~Text!Publishable(FALSE, words)

Calls == [call : {"word", "phrase", "none"}, residue : 0..2, words : UpTo(1..2, 3)]

\* The wake word of one token takes its last letters with it, and no word of the
\* command unless its first is a single letter; a phrase leaves them
\* (wake_word.py:91).
ASSUME CommandsSurviveTheWakeWord ==
  \A text \in Calls :
    text.call = "word" /\ text.residue <= 1
      /\ (text.residue = 1 \/ text.words = <<>> \/ text.words[1] > 1)
    => Text!Accepted(text) /\ Text!command_text(text) = text.words

ASSUME AFirstWordOfOneLetterIsLost ==
  \A words \in UpTo(1..2, 2) :
    /\ Text!command_text([call |-> "word", residue |-> 0, words |-> <<1>> \o words]) = words
    /\ Text!command_text([call |-> "phrase", residue |-> 1, words |-> words]) = <<1>> \o words

-----------------------------------------------------------------------------
(* The catalogue and the model                                                 *)

Entries ==
  [mapping : BOOLEAN, tool_id : {"", "Ill-Formed", "wrench", "socket"}, label : {"", "long"},
   aliases : {<<"not a sequence">>, <<>>, <<"long", "">>, <<"short", "wrench", "short">>}]

Catalogs == {Text!load_tool_catalog(entries) : entries \in UpTo(Entries, 2)} \ {Text!Refused}

\* Whatever the aliases, a tool's own id means that tool, and what a name means is
\* in the catalogue (gemma_intent.py:442).
ASSUME IdsMeanThemselves ==
  \A catalog \in Catalogs :
    /\ \A id \in Text!ToolIds(catalog) : Text!normalize_tool_id(id, catalog) = id
    /\ \A name \in {"", "wrench", "socket", "long", "short", "other"} :
         Text!normalize_tool_id(name, catalog) \in Text!ToolIds(catalog) \cup {""}

Answers ==
  [form : {"text", "list", "object"}, intent : {"fetch", "return", "cancel", "unknown", "move"},
   confidence : {-1, 0, 74, 75, 100, 101}, confirm : BOOLEAN,
   tool : {"", "wrench", "socket", "long", "other"}]

ACatalog == Text!load_tool_catalog(
  << [mapping |-> TRUE, tool_id |-> "wrench", label |-> "long", aliases |-> <<>>],
     [mapping |-> TRUE, tool_id |-> "socket", label |-> "short", aliases |-> <<"long">>] >>)

\* The model is not believed: a request is well formed, certain, and about a tool
\* there is, and no other answer asks the robot for anything (gemma_intent.py:320).
ASSUME RequestsAreCertain ==
  \A answer \in Answers :
    LET result == Text!classify(answer, ACatalog)
    IN  /\ result.intent \in Text!VALID_INTENTS
        /\ result.intent \in Text!Requests =>
             /\ answer.form = "object" /\ answer.intent = result.intent
             /\ result.tool \in Text!ToolIds(ACatalog)
             /\ answer.confidence >= 75 /\ ~answer.confirm
        /\ result.intent \notin Text!Requests => result.tool = ""

\* A cancel needs no confidence.
ASSUME CancelsNeedNotBeCertain ==
  \A answer \in Answers :
    answer.form = "object" /\ answer.intent = "cancel" /\ answer.confidence = 0
      => Text!classify(answer, ACatalog).intent = "cancel"

-----------------------------------------------------------------------------
(* The key words, and the evaluation                                           *)

\* A request has its verb and its tool in the text, and nothing that cancels it or
\* contradicts its size (command_parser.py:63).
ASSUME RequestsWereSaid ==
  \A said \in SUBSET Text!KeyWords :
    LET command == Text!parse_command(said)
    IN  /\ "cancel" \in said <=> command.intent = "cancel"
        /\ command.intent \in Text!Requests =>
             /\ command.intent \in said /\ ~Text!has_size_conflict(said)
             /\ \E i \in DOMAIN Text!TOOL_ALIASES :
                  /\ Text!TOOL_ALIASES[i].tool = command.tool
                  /\ Text!TOOL_ALIASES[i].words \cap said # {}
        /\ command.intent \in Text!Requests <=> command.confidence = 65

\* Of two tools named the first of the dictionary is taken, without a doubt.
ASSUME TwoToolsAreTheFirst ==
  Text!parse_command({"fetch", "socket", "spanner"}).tool = "spanner_16mm"

Labels == [intent : {"fetch", "cancel"}, tool : {"t", "u"}]

\* An evaluation of so few examples passes with no intent wrong, and may pass
\* with every tool wrong (intent_evaluator.py:72).
ASSUME EvaluationCountsIntents ==
  \A n \in 0..2 : \A examples, predictions \in [1..n -> Labels] :
    LET result == Text!evaluate_predictions(examples, predictions)
    IN  /\ result.exact <= result.intents /\ result.exact + result.failures = n
        /\ result.passes <=> n > 0 /\ result.intents = n
===============================================================================

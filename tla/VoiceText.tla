------------------------------- MODULE VoiceText -------------------------------
(***************************************************************************)
(* What the voice nodes make of a sound, a text, and an answer of the      *)
(* language model: the recorder (audio_input.py), the filter of repeated   *)
(* words (transcript_filter.py), the wake word (wake_word.py), the         *)
(* catalogue of tools and the parser of the model's answer                 *)
(* (gemma_intent.py), the parser by key words that replaces the model      *)
(* (command_parser.py), and the evaluation of either                       *)
(* (intent_evaluator.py).  Pure functions; Voice is about when they are    *)
(* called.  A word is a value, or its length where only that matters; the  *)
(* text a keyword parser sees is the set of the key words in it.           *)
(***************************************************************************)
EXTENDS Integers, Sequences, FiniteSets
LOCAL INSTANCE SequencesExt
LOCAL INSTANCE FiniteSetsExt

CONSTANTS
  PreRoll,    \* MicRecorderConfig.pre_roll_chunks (5 in the code)
  Trailing,   \* MicRecorderConfig.trailing_silence_chunks (15)
  Threshold   \* GemmaConfig.confidence_threshold, in percent (75)

----------------------------------------------------------------------------
(* MicRecorder.record_utterance: which of the chunks it returns.  A sound is *)
(* a sequence of chunks, TRUE those louder than silence_threshold.            *)

NothingHeard == [chunks |-> <<>>, before |-> <<>>, silence |-> 0, speaking |-> FALSE,
                 over |-> FALSE]

\* A deque that keeps the newest PreRoll chunks.
Roll(queue, chunk) ==
  LET all == Append(queue, chunk)
  IN  SubSeq(all, Len(all) - Min({PreRoll, Len(all)}) + 1, Len(all))

Hear(heard, chunk, loud) ==
  CASE heard.over -> heard
    [] ~heard.over /\ loud ->
         [heard EXCEPT !.chunks = @ \o heard.before \o <<chunk>>, !.before = <<>>,
                       !.speaking = TRUE, !.silence = 0]
    [] ~heard.over /\ ~loud /\ heard.speaking ->
         [heard EXCEPT !.chunks = Append(@, chunk), !.silence = @ + 1,
                       !.over = heard.silence + 1 > Trailing]
    [] OTHER -> [heard EXCEPT !.before = Roll(@, chunk)]

record_utterance(sound) ==
  FoldLeft(LAMBDA heard, i : Hear(heard, i, sound[i]),
           NothingHeard, [i \in 1..Len(sound) |-> i]).chunks

----------------------------------------------------------------------------
(* Texts as sequences of words *)

Times(word, words) == Cardinality({i \in DOMAIN words : words[i] = word})

\* is_likely_hallucinated_transcript: one word makes up most of it, or is said
\* three times running.
is_likely_hallucinated(words) ==
  /\ Len(words) >= 3
  /\ \/ /\ \E word \in Range(words) : Times(word, words) >= 3
        /\ 2 * Cardinality(Range(words)) <= Len(words)
     \/ \E i \in 1..Len(words) - 2 : words[i] = words[i + 1] /\ words[i] = words[i + 2]

\* WhisperNode.publish_transcript.
Publishable(moving, words) == ~moving /\ words # <<>> /\ ~is_likely_hallucinated(words)

\* apply_wake_word_gate, where a wake word is required (else the text is the
\* command): call is how the text begins: with no wake word, with one of one token,
\* or with one that has a space in it; residue the letters glued to it; words the
\* lengths of the words after it.
Accepted(text) == text.call # "none"

Spoken(text) == (IF text.residue > 0 THEN <<text.residue>> ELSE <<>>) \o text.words

\* _strip_spurious_leading_token: a first word of one letter is taken for the end
\* of the wake word, whether it was glued to it or not.
WithoutResidue(words) == IF words # <<>> /\ Head(words) <= 1 THEN Tail(words) ELSE words

command_text(text) == IF text.call = "word" THEN WithoutResidue(Spoken(text)) ELSE Spoken(text)

----------------------------------------------------------------------------
(* load_tool_catalog: an entry of toolbox.yaml is a mapping or not, with a   *)
(* tool_id (empty, ill-formed, or a name), a display_name, and aliases, of    *)
(* which absent is as good as none; names are compared normalised.            *)

Blank    == ""
IllNamed == "Ill-Formed"
Scalar   == <<"not a sequence">>
Refused  == <<>>

EntryIsGood(entry) ==
  /\ entry.mapping
  /\ entry.tool_id \notin {Blank, IllNamed} /\ entry.label # Blank
  /\ entry.aliases # Scalar

\* _dedupe_preserve_order
Dedupe(values) ==
  FoldLeft(LAMBDA kept, v : IF v \in Range(kept) THEN kept ELSE Append(kept, v), <<>>, values)

AliasesOf(entry) ==
  Dedupe(<<entry.label>> \o SelectSeq(entry.aliases, LAMBDA alias : alias # Blank))

load_tool_catalog(entries) ==
  IF entries = <<>> \/ \E i \in DOMAIN entries : ~EntryIsGood(entries[i]) THEN Refused
  ELSE [i \in DOMAIN entries |->
          [tool_id |-> entries[i].tool_id, aliases |-> AliasesOf(entries[i])]]

ToolIds(catalog) == {catalog[i].tool_id : i \in DOMAIN catalog}

\* _build_tool_alias_map: where two tools have an alias, the later has it.
AliasMap(catalog) ==
  [alias \in UNION {Range(catalog[i].aliases) : i \in DOMAIN catalog} |->
     catalog[Max({i \in DOMAIN catalog : alias \in Range(catalog[i].aliases)})].tool_id]

\* _normalize_tool_id
normalize_tool_id(name, catalog) ==
  CASE name \in ToolIds(catalog) \ {Blank} -> name
    [] name \notin ToolIds(catalog) \cup {Blank} /\ name \in DOMAIN AliasMap(catalog) ->
         AliasMap(catalog)[name]
    [] OTHER -> Blank

----------------------------------------------------------------------------
(* parse_gemma_output, GemmaIntentClassifier.classify.  An answer, without   *)
(* its code fence, is no JSON, JSON but no object, or an object: confidence  *)
(* in percent, outside 0..100 if there is none or it is no number, too;       *)
(* needs_confirm is its truth in Python, so that any text, "false" too, is    *)
(* TRUE.                                                                      *)

VALID_INTENTS == {"fetch", "return", "cancel", "unknown"}
Requests      == {"fetch", "return"}
Unsure        == [intent |-> "unknown", tool |-> Blank, confidence |-> 0, confirm |-> TRUE]

Malformed(answer, catalog) ==
  \/ answer.form # "object"
  \/ answer.intent \notin VALID_INTENTS
  \/ answer.confidence \notin 0..100
  \/ answer.intent \in Requests /\ normalize_tool_id(answer.tool, catalog) = Blank

parse_gemma_output(answer, catalog) ==
  [intent |-> answer.intent, confidence |-> answer.confidence, confirm |-> answer.confirm,
   tool |-> IF answer.intent \in Requests THEN normalize_tool_id(answer.tool, catalog)
            ELSE Blank]

\* Only a request has to be certain.
classify(answer, catalog) ==
  IF \/ Malformed(answer, catalog)
     \/ answer.intent \in Requests /\ (answer.confirm \/ answer.confidence < Threshold)
  THEN Unsure ELSE parse_gemma_output(answer, catalog)

----------------------------------------------------------------------------
(* command_parser.parse_command: the key words in a text *)

\* The tools in the order of TOOL_ALIASES, each with its key words; the sizes
\* have spellings that are no alias.
TOOL_ALIASES ==
  << [tool |-> "screwdriver", words |-> {"screwdriver"}],
     [tool |-> "utility_knife", words |-> {"knife"}],
     [tool |-> "ratchet_wrench", words |-> {"ratchet"}],
     [tool |-> "multi_tool", words |-> {"multi tool"}],
     [tool |-> "spanner_16mm", words |-> {"spanner", "16mm"}],
     [tool |-> "socket_19mm", words |-> {"socket", "19mm"}] >>

KeyWords == {"cancel", "fetch", "return", "16 mm", "19 mm"}
            \cup UNION {TOOL_ALIASES[i].words : i \in DOMAIN TOOL_ALIASES}

match_tool(said) ==
  LET named == {i \in DOMAIN TOOL_ALIASES : TOOL_ALIASES[i].words \cap said # {}}
  IN  IF named = {} THEN Blank ELSE TOOL_ALIASES[Min(named)].tool

has_size_conflict(said) ==
  \/ "socket" \in said /\ said \cap {"16mm", "16 mm"} # {}
  \/ "spanner" \in said /\ said \cap {"19mm", "19 mm"} # {}

Verb(said) == CASE "return" \in said -> "return"
                [] "return" \notin said /\ "fetch" \in said -> "fetch"
                [] OTHER -> "unknown"

Command(intent, tool, confidence) ==
  [intent |-> intent, tool |-> tool, confidence |-> confidence]

parse_command(said) ==
  CASE "cancel" \in said -> Command("cancel", Blank, 90)
    [] "cancel" \notin said /\ (has_size_conflict(said) \/ match_tool(said) = Blank) ->
         Command("unknown", Blank, 0)
    [] OTHER -> Command(Verb(said), match_tool(said),
                        IF Verb(said) \in Requests THEN 65 ELSE 30)

----------------------------------------------------------------------------
(* intent_evaluator.evaluate_predictions *)

IntentMatches(examples, predictions) ==
  {i \in DOMAIN examples : predictions[i].intent = examples[i].intent}

ExactMatches(examples, predictions) ==
  {i \in IntentMatches(examples, predictions) : predictions[i].tool = examples[i].tool}

\* An evaluation of nothing fails; the tools do not count.
evaluate_predictions(examples, predictions) ==
  [intents |-> Cardinality(IntentMatches(examples, predictions)),
   exact   |-> Cardinality(ExactMatches(examples, predictions)),
   failures |-> Cardinality(DOMAIN examples \ ExactMatches(examples, predictions)),
   passes  |-> /\ examples # <<>>
               /\ 100 * Cardinality(IntentMatches(examples, predictions)) >= 97 * Len(examples)]
=============================================================================

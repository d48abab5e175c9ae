---------------------------- MODULE MCToolStore ----------------------------
(* ToolStore for TLC, see the .cfg for the bounds, and what the functions of    *)
(* DbClient promise, over every small input.                                    *)
EXTENDS ToolStore, TLC, Sequences

CONSTANT None
LOCAL INSTANCE SequencesExt
Db == INSTANCE DbClient WITH Ttl <- 2

Interchangeable == Permutations(Tools) \cup Permutations(Clients)

-----------------------------------------------------------------------------
(* The checks on values and on the file                                       *)

\* Every transition that may be written passes the check of its values, and the
\* tables take what passed: no update fails half way for a value
\* (repository.py:593, 613).
ASSUME TablesTakeWhatIsLegal ==
  \A before, new \in Statuses : \A type \in EventTypes :
    \A confirmed \in BOOLEAN : \A track \in {"A", "B", "C", "D"} :
      /\ LegalTransition(before, new, type, confirmed) /\ track # "D"
           => Db!validate_update("t", new, type, track) = ""
      /\ Db!validate_update("t", new, type, track) = ""
           => Db!TableTakes(before, new, type, track)

ASSUME SystemTableTakesWhatIsAccepted ==
  \A type \in Db!VALID_SYSTEM_EVENTS \cup {"fetch"} :
    \A severity \in Db!VALID_SEVERITIES \cup {"fatal"} : \A track \in {None, "A", "D"} :
      Db!system_event_accepted(type, severity, track)
        => Db!SystemTableTakes(type, severity, track)

\* A file without a table is given it; one with an older table of tools passes, and
\* yet cannot answer get_tool_status, which reads grasp_z_mm (client.py:97).
Without(table, column) == [Db!SCHEMA_SQL EXCEPT ![table] = @ \ {column}]

ASSUME NewFilesAreGood ==
  Db!validate_schema(Db!Bootstrapped([t \in {} |-> {}], Db!SCHEMA_SQL), Db!Keys)

ASSUME OldFilesAreRefusedButFor ==
  \A table \in DOMAIN Db!SCHEMA_SQL : \A column \in Db!SCHEMA_SQL[table] :
    Db!validate_schema(Db!Bootstrapped(Without(table, column), Db!SCHEMA_SQL), Db!Keys)
      <=> table = "drawers" \/ column = "grasp_z_mm"

-----------------------------------------------------------------------------
(* The client                                                                 *)

\* Histories of a client, a step at each instant: a tool is read with an answer of the
\* database, or none; a status is a number that no other read gives.
Reads == [tool : {"t", "u"}, row : {"read", "failed", None}]

Run(reads) ==
  FoldLeft(LAMBDA past, i :
             LET row == IF reads[i].row = "read" THEN ToString(i) ELSE reads[i].row
             IN  Db!get_tool_status(past.client, reads[i].tool, row, i),
           [client |-> Db!connect(Db!Closed), answer |-> None],
           [i \in 1..Len(reads) |-> i]).answer

LastRead(reads, tool) ==
  LET good == {i \in DOMAIN reads : reads[i].tool = tool /\ reads[i].row = "read"}
  IN  CHOOSE i \in good \cup {0} : \A j \in good : j <= i

\* An answer is the last status that was read of this tool, never one of another and
\* never an earlier one, and some tool was read within the limit (client.py:82).
ASSUME AnswersWereRead ==
  \A reads \in UNION {[1..n -> Reads] : n \in 1..5} :
    LET n == Len(reads)
        answer == Run(reads)
    IN  answer.ok =>
          /\ answer.value = ToString(LastRead(reads, reads[n].tool))
          /\ \E tool \in {"t", "u"} : LastRead(reads, tool) >= n - 2

\* With one tool the answer is within the limit; with two, reading one makes the
\* other's entry young again (client.py:105).
ASSUME OnlyOfOneToolRecent ==
  /\ \A reads \in UNION {[1..n -> Reads] : n \in 1..5} :
       Run(reads).ok /\ (\A i \in DOMAIN reads : reads[i].tool = "t")
         => LastRead(reads, "t") >= Len(reads) - 2
  /\ \E reads \in [1..5 -> Reads] :
       Run(reads).ok /\ LastRead(reads, reads[5].tool) = 1

\* A logged event is reported with the last event of the tool, which is its own only
\* if nobody wrote one meanwhile; an event that was written may be reported as an error
\* (client.py:187).
ASSUME EventsAreReportedLate ==
  \A accepted, still \in BOOLEAN : \A last \in {None, 7, 8} :
    LET answer == Db!log_event(Db!connect(Db!Closed), accepted, still, last)
    IN  answer.ok <=> accepted /\ still /\ last # None
=============================================================================

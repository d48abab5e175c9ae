-------------------------------- MODULE DbClient --------------------------------
(***************************************************************************)
(* What stands between a caller and the store: the in-process client         *)
(* (db_core/client.py) with its connection and its cache of statuses, and    *)
(* the checks of the repository on values and on the file                    *)
(* (db_core/repository.py, schema.py).  Functions of the state of the client *)
(* and of what the database answers; ToolStore is about the transactions     *)
(* behind them, SequenceRunner about the drawers.                            *)
(***************************************************************************)
EXTENDS Integers

CONSTANTS
  Ttl,     \* _DB_CACHE_TTL_SECONDS
  None     \* Python's None; a model value

----------------------------------------------------------------------------
(* The values the repository accepts, and those the tables take *)

VALID_STATUSES      == {"in_slot", "out", "staged", "missing", "fod_alert"}
VALID_EVENT_TYPES   == {"fetch", "return", "rejected", "error", "timeout", "fod_alert",
                        "reconciled"}
VALID_SYSTEM_EVENTS == {"boot", "boot_complete", "reconciliation_mismatch", "estop",
                        "estop_reset", "db_cache_fallback", "db_cache_expired",
                        "calibration", "fod_alert"}
VALID_SEVERITIES    == {"info", "warning", "error", "critical"}
VALID_TRACKS        == {"A", "B", "C"}

\* _validate_update: the first thing wrong, or nothing.
validate_update(tool, new, type, track) ==
  CASE tool = "" -> "tool_id is required"
    [] tool # "" /\ new \notin VALID_STATUSES -> "unsupported status"
    [] tool # "" /\ new \in VALID_STATUSES /\ type \notin VALID_EVENT_TYPES ->
         "unsupported event_type"
    [] tool # "" /\ new \in VALID_STATUSES /\ type \in VALID_EVENT_TYPES
         /\ track \notin VALID_TRACKS -> "unsupported track"
    [] OTHER -> ""

\* ToolRepository.log_system_event; without a track there is nothing to check.
system_event_accepted(type, severity, track) ==
  /\ type \in VALID_SYSTEM_EVENTS /\ severity \in VALID_SEVERITIES
  /\ track = None \/ track \in VALID_TRACKS

\* The CHECKs of tool_events and of system_events.
TableTakes(before, after, type, track) ==
  /\ {before, after} \subseteq {"in_slot", "out", "staged", "missing", "fod_alert"}
  /\ type \in {"fetch", "return", "rejected", "error", "timeout", "fod_alert", "reconciled"}
  /\ track = None \/ track \in {"A", "B", "C"}

SystemTableTakes(type, severity, track) ==
  /\ type \in {"boot", "boot_complete", "reconciliation_mismatch", "estop", "estop_reset",
               "db_cache_fallback", "db_cache_expired", "calibration", "fod_alert"}
  /\ track = None \/ track \in {"A", "B", "C"}
  /\ severity \in {"info", "warning", "error", "critical"}

----------------------------------------------------------------------------
(* _connect: tables that are missing are made, those that are there are left  *)
(* as they are and checked.  A file gives a table its columns, a key its.      *)

SCHEMA_SQL ==
  [operators   |-> {"operator_id", "display_name", "created_at"},
   tools       |-> {"tool_id", "display_name", "current_status", "home_slot_row",
                    "home_slot_col", "grasp_z_mm", "last_event_id", "last_updated"},
   tool_events |-> {"event_id", "tool_id", "event_type", "track", "operator_id",
                    "status_before", "status_after", "notes", "timestamp"},
   drawers     |-> {"layer_id", "is_open", "last_updated"}]

\* REQUIRED_TABLE_COLUMNS: neither the drawers nor grasp_z_mm.
Required ==
  [operators |-> SCHEMA_SQL.operators, tools |-> SCHEMA_SQL.tools \ {"grasp_z_mm"},
   tool_events |-> SCHEMA_SQL.tool_events]

Keys == [tools |-> {"last_event_id"}, tool_events |-> {"tool_id", "operator_id"}]

\* The file after CREATE TABLE IF NOT EXISTS.
Bootstrapped(columns, made) ==
  [table \in DOMAIN made |-> IF table \in DOMAIN columns THEN columns[table] ELSE made[table]]

validate_schema(columns, keys) ==
  /\ \A table \in DOMAIN Required : Required[table] \subseteq columns[table]
  /\ \A table \in DOMAIN Keys : Keys[table] \subseteq keys[table]

----------------------------------------------------------------------------
(* DBClient *)

Closed == [connected |-> FALSE, cache |-> << >>, loadedAt |-> 0]

connect(client)    == [client EXCEPT !.connected = TRUE]
disconnect(client) == [client EXCEPT !.connected = FALSE]

Error(why)     == [ok |-> FALSE, value |-> why]
Answer(status) == [ok |-> TRUE, value |-> status]

\* cache_fallback: one age, of the last read of whatever tool.
cache_fallback(client, tool, now) ==
  CASE now - client.loadedAt > Ttl -> Error("expired")
    [] now - client.loadedAt <= Ttl /\ tool \notin DOMAIN client.cache -> Error("no entry")
    [] OTHER -> Answer(client.cache[tool])

Cached(client, tool, status, now) ==
  [client EXCEPT !.loadedAt = now,
     !.cache = [t \in DOMAIN @ \cup {tool} |-> IF t = tool THEN status ELSE @[t]]]

\* get_tool_status: row is what the query gives: a status, None if there is no such
\* tool, or "failed" if the database raises.  A client that is not connected does not
\* fall back.
get_tool_status(client, tool, row, now) ==
  CASE ~client.connected ->
         [client |-> client, answer |-> Error("not connected")]
    [] client.connected /\ row = None ->
         [client |-> client, answer |-> Error("unknown tool")]
    [] client.connected /\ row = "failed" ->
         [client |-> client, answer |-> cache_fallback(client, tool, now)]
    [] OTHER -> [client |-> Cached(client, tool, row, now), answer |-> Answer(row)]

\* check_feasibility, check_drawer_feasibility: a grant has no reason.
Forwarded(result) == [feasible |-> result.feasible,
                      reason   |-> IF result.feasible THEN "" ELSE result.reason]

\* log_event: the update is a transaction of its own, and last is the last_event_id
\* that the client reads after it, if it is still connected.
log_event(client, accepted, stillConnected, last) ==
  IF client.connected /\ accepted /\ stillConnected /\ last # None
  THEN Answer(last) ELSE Error("DBError")
=============================================================================

-------------------------------- MODULE Config --------------------------------
(****************************************************************************)
(* config.py and _resolve_config of cli.py: where the thresholds that       *)
(* Monitor takes as constants come from.  A value of a configuration file   *)
(* is known by its type and, if that is an integer, by itself.              *)
(****************************************************************************)
EXTENDS Integers

CONSTANTS Messages,     \* names of messages, in the database or not
          Heartbeats,   \* those that end in _HEARTBEAT
          None,         \* a path or an option that was not given
          Unreadable,   \* a file that cannot be read or decoded, not UTF-8 say
          Malformed,    \* one that is missing, does not parse or has no mapping
          Rejected,     \* ConfigError
          Escaped       \* another exception, which main does not catch

DefaultDataStale          == 350
DefaultHeartbeatStale     == 2500
DefaultRestartSuppression == 2000
DefaultMaxReportableGap   == 127

PositiveKeys == {"data_stale_ms", "heartbeat_stale_ms",
                 "restart_suppression_ms", "max_reportable_gap"}
Flags        == {"check_ranges", "check_sequence", "report_unknown_ids"}
KnownKeys    == PositiveKeys \cup Flags \cup {"message_stale_ms"}

Value == [type : {"int", "bool", "other"}, int : Int]

\* A section of a file: its keys, what it has for each but message_stale_ms,
\* whether dict() makes a mapping of what it has for that, and the messages
\* that it then names, with their values.
Section ==
    {s \in [keys : SUBSET STRING, value : [PositiveKeys -> Value],
            isMapping : BOOLEAN, named : SUBSET Messages,
            stale : [Messages -> Value]] :
        "message_stale_ms" \notin s.keys => s.isMapping /\ s.named = {}}

AnalyzerConfig ==
    [data : Int, heartbeat : Int, named : SUBSET Messages,
     stale : [Messages -> Int], restartSuppression : Int, maxGap : Int]

-----------------------------------------------------------------------------
\* _coerce_positive_int returns a value, and does not raise ConfigError.
Coerces(value) == value.type = "int" /\ value.int > 0

Given(section, key, default) ==
    IF key \in section.keys THEN section.value[key].int ELSE default

\* config_from_mapping looks at the names of the keys first, and takes
\* message_stale_ms for a mapping before it looks at any value.
OnlyKnownKeys(section) == section.keys \subseteq KnownKeys

ValuesCoerce(section) ==
    /\ \A m \in section.named : Coerces(section.stale[m])
    /\ \A k \in PositiveKeys \cap section.keys : Coerces(section.value[k])

\* What it returns, if it does.
FromMapping(section) ==
    [data               |-> Given(section, "data_stale_ms", DefaultDataStale),
     heartbeat          |-> Given(section, "heartbeat_stale_ms",
                                  DefaultHeartbeatStale),
     named              |-> section.named,
     stale              |-> [m \in Messages |-> section.stale[m].int],
     restartSuppression |-> Given(section, "restart_suppression_ms",
                                  DefaultRestartSuppression),
     maxGap             |-> Given(section, "max_reportable_gap",
                                  DefaultMaxReportableGap)]

\* AnalyzerConfig()
Default == [data               |-> DefaultDataStale,
            heartbeat          |-> DefaultHeartbeatStale,
            named              |-> {},
            stale              |-> [m \in Messages |-> 0],
            restartSuppression |-> DefaultRestartSuppression,
            maxGap             |-> DefaultMaxReportableGap]

ConfigFromMapping(section) ==
    IF ~OnlyKnownKeys(section) THEN Rejected
    ELSE IF ~section.isMapping THEN Escaped
    ELSE IF ValuesCoerce(section) THEN FromMapping(section)
    ELSE Rejected

\* load_config, of no file, a bad one or one with a section.
LoadConfig(file) ==
    CASE file = None        -> Default
      [] file = Unreadable -> Escaped
      [] file = Malformed   -> Rejected
      [] OTHER              -> ConfigFromMapping(file)

\* with_overrides, as _resolve_config calls it with the two options of the
\* command line.
WithOverrides(config, data, heartbeat) ==
    [config EXCEPT
        !.data      = IF data = None THEN @ ELSE data,
        !.heartbeat = IF heartbeat = None THEN @ ELSE heartbeat]

\* stale_threshold_seconds
StaleThreshold(config, m) ==
    IF m \in config.named THEN config.stale[m]
    ELSE IF m \in Heartbeats THEN config.heartbeat
    ELSE config.data
=============================================================================

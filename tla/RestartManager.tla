--------------------------- MODULE RestartManager ---------------------------
(***************************************************************************)
(* src/src/restart_manager.py: the restart history, its file on the data   *)
(* volume, and the guard every restart has to pass.                        *)
(*                                                                         *)
(* A history entry is its wall-clock time. Two entries never have the same *)
(* time, since a container is stopped and started between them, so the     *)
(* list is a set, together with the entry the code reads as _history[-1].  *)
(***************************************************************************)
EXTENDS States, Integers, FiniteSets

CONSTANTS
    AUTO_RESTART_ENABLED,
    LOGGED_OUT_RESTART_ENABLED,
    RESTART_COOLDOWN_SECONDS,
    MAX_RESTARTS_PER_24_HOURS,
    DATABASE_CONFIRMATION_COUNT,
    SECONDS_PER_DAY,
    HISTORY_RETENTION_SECONDS,
    Faults      \* what may go wrong with the world around the watchdog

FaultKind == {"restart_timeout", "crash_in_restart", "save_error",
              "history_unreadable", "clock_step"}

\* config.validate() and the module's own constants.
ASSUME RestartConstants ==
    /\ AUTO_RESTART_ENABLED \in BOOLEAN
    /\ LOGGED_OUT_RESTART_ENABLED \in BOOLEAN
    /\ RESTART_COOLDOWN_SECONDS \in Nat
    /\ MAX_RESTARTS_PER_24_HOURS \in Nat
    /\ DATABASE_CONFIRMATION_COUNT \in Nat \ {0}
    /\ SECONDS_PER_DAY \in Nat
    /\ HISTORY_RETENTION_SECONDS \in Nat
    /\ HISTORY_RETENTION_SECONDS >= SECONDS_PER_DAY
    /\ Faults \subseteq FaultKind

VARIABLES
    now,            \* time.time()
    history,        \* _history
    last_restart,   \* _history[-1], as a set: {} while there is none
    disk            \* what restart_history.json holds

restartVars == <<history, last_restart, disk>>

-----------------------------------------------------------------------------
(* Queries and the guard.                                                  *)

\* Variant: the restart at the edge of the day is not counted.
RestartsIn24hOpen == Cardinality({at \in history : at > now - SECONDS_PER_DAY})

RestartsIn24h == Cardinality({at \in history : at >= now - SECONDS_PER_DAY})

\* Variant: the cooldown is over a unit of time early.
CooldownExpiredEarly ==
    \A at \in last_restart : now - at + 1 >= RESTART_COOLDOWN_SECONDS

\* seconds_until_cooldown_expires() = 0
CooldownExpired == \A at \in last_restart : now - at >= RESTART_COOLDOWN_SECONDS

\* Variant: a logout is restarted wherever Tesla's auth host is.
RestartAllowedUnprobed(s, database_healthy_streak, reachable) ==
    /\ AUTO_RESTART_ENABLED
    /\ s \in RESTART_ALLOWED_STATES
    /\ s \in RESTART_NEEDS_TESLA_AUTH => LOGGED_OUT_RESTART_ENABLED
    /\ database_healthy_streak >= DATABASE_CONFIRMATION_COUNT
    /\ CooldownExpired
    /\ RestartsIn24h < MAX_RESTARTS_PER_24_HOURS

\* evaluate(): the state, Tesla's auth host for a logout, the database, the
\* cooldown, and the daily cap. reachable is only probed for a logout.
RestartAllowed(s, database_healthy_streak, reachable) ==
    /\ AUTO_RESTART_ENABLED
    /\ s \in RESTART_ALLOWED_STATES
    /\ s \in RESTART_NEEDS_TESLA_AUTH => LOGGED_OUT_RESTART_ENABLED /\ reachable
    /\ database_healthy_streak >= DATABASE_CONFIRMATION_COUNT
    /\ CooldownExpired
    /\ RestartsIn24h < MAX_RESTARTS_PER_24_HOURS

-----------------------------------------------------------------------------
(* record(), with the save it ends in, and the load of a new watchdog.     *)

Prune(h) == {at \in h : at >= now - HISTORY_RETENTION_SECONDS}

\* Variant: the file is written before the entry is appended.
RecordSavedFirst(saved) ==
    /\ saved \/ "save_error" \in Faults
    /\ history' = Prune(history \cup {now})
    /\ last_restart' = {now}
    /\ disk' = IF saved THEN history ELSE disk

\* A failed save is logged and otherwise ignored.
Record(saved) ==
    /\ saved \/ "save_error" \in Faults
    /\ history' = Prune(history \cup {now})
    /\ last_restart' = {now}
    /\ disk' = IF saved THEN history' ELSE disk

\* Variant: the loaded entries are sorted the wrong way round.
LoadDescending(loaded) ==
    /\ loaded \subseteq disk
    /\ loaded = disk \/ "history_unreadable" \in Faults
    /\ history' = loaded
    /\ last_restart' = {at \in loaded : \A other \in loaded : other >= at}
    /\ UNCHANGED disk

\* Variant: the last restart is taken from the file, the history is not.
LoadPartly(loaded) ==
    /\ loaded \subseteq disk
    /\ loaded = disk \/ "history_unreadable" \in Faults
    /\ history' = loaded
    /\ last_restart' = {at \in disk : \A other \in disk : other <= at}
    /\ UNCHANGED disk

\* The newest entry comes last after the sort. A file that cannot be read, and
\* entries that cannot, count as never written.
Load(loaded) ==
    /\ loaded \subseteq disk
    /\ loaded = disk \/ "history_unreadable" \in Faults
    /\ history' = loaded
    /\ last_restart' = {at \in loaded : \A other \in loaded : other <= at}
    /\ UNCHANGED disk

InitHistory ==
    /\ history = {}
    /\ last_restart = {}
    /\ disk = {}

HistoryTypeOK ==
    /\ now \in Nat
    /\ history \in SUBSET Nat
    /\ disk \in SUBSET Nat
    /\ last_restart \subseteq history
    /\ IsFiniteSet(history) /\ IsFiniteSet(disk)
=============================================================================

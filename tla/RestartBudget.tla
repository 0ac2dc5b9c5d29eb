---------------------------- MODULE RestartBudget ----------------------------
(***************************************************************************)
(* What the restart guard promises, independently of how it is kept (the   *)
(* restart policy of the README and the docstring of restart_manager.py):  *)
(* TeslaMate is restarted at most once per cooldown and at most CAP times  *)
(* in any DAY. Restarts are counted where they matter, at the container,   *)
(* and not in the history the watchdog keeps about them. Module Watchdog   *)
(* implements this specification across crashes and recreations.           *)
(***************************************************************************)
EXTENDS Integers, FiniteSets

CONSTANTS
    COOLDOWN,   \* RESTART_COOLDOWN_SECONDS
    CAP,        \* MAX_RESTARTS_PER_24_HOURS
    DAY,        \* 24 hours, in the unit of the clock
    Times       \* what the clock can show

\* What the theorems of RestartBudgetProofs suppose.
BudgetConstants ==
    COOLDOWN \in Nat /\ CAP \in Nat /\ DAY \in Nat /\ Times \subseteq Nat

VARIABLES
    clock,
    restarts,   \* the times at which the container was restarted
    granted     \* a restart was permitted and has not happened yet

budgetVars == <<clock, restarts, granted>>

\* The restarts of the DAY that ends at time t.
DayUpTo(t) == {r \in restarts : t - DAY <= r /\ r <= t}

BudgetInit ==
    /\ clock \in Times
    /\ restarts = {}
    /\ granted = FALSE

Grant ==
    /\ ~granted
    /\ \A r \in restarts : clock - r >= COOLDOWN
    /\ Cardinality(DayUpTo(clock)) < CAP
    /\ granted' = TRUE
    /\ UNCHANGED <<clock, restarts>>

\* A restart takes a moment of its own.
Restart ==
    /\ granted
    /\ clock \notin restarts
    /\ restarts' = restarts \cup {clock}
    /\ granted' = FALSE
    /\ UNCHANGED clock

\* The permission lapses: the restart failed, or the watchdog died first.
Decline ==
    /\ granted
    /\ granted' = FALSE
    /\ UNCHANGED <<clock, restarts>>

Advance ==
    /\ clock' \in {t \in Times : t > clock}
    /\ UNCHANGED <<restarts, granted>>

BudgetNext == Grant \/ Restart \/ Decline \/ Advance

BudgetSpec == BudgetInit /\ [][BudgetNext]_budgetVars

-----------------------------------------------------------------------------
BudgetTypeOK ==
    /\ clock \in Times
    /\ restarts \in SUBSET (0..clock)
    /\ granted \in BOOLEAN

\* Two restarts are never closer than the cooldown.
Spaced == \A r, s \in restarts : r < s => s - r >= COOLDOWN

\* No DAY holds more than CAP restarts. It is enough to look at the days that
\* end at a restart: moving the end of any other day back to its last restart
\* loses none.
Capped == \A t \in restarts : Cardinality(DayUpTo(t)) <= CAP
=============================================================================

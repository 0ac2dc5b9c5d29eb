------------------------ MODULE WatchdogBudgetProofs ------------------------
(***************************************************************************)
(* The watchdog keeps the restart budget, for every cooldown, cap and day: *)
(* in a world without faults, where a restart is recorded when it happens  *)
(* and the file keeps what is written, the guard and the history implement *)
(* RestartBudget across any number of recreations. With faults, what it    *)
(* remembers keeps the budget, and a recreation forgets nothing of it as   *)
(* long as the file is intact.                                             *)
(***************************************************************************)
EXTENDS WatchdogProofs, WellFoundedInduction

\* What the history knows about the restarts that happened. It forgets some,
\* but none of the last day and never the last one; that suffices for the
\* guard, and the file knows as much.
HistoryIsEnough ==
    /\ executed \subseteq 0..now
    /\ disk = history
    /\ history \subseteq executed
    /\ \A at \in executed : at >= now - SECONDS_PER_DAY => at \in history
    /\ \A at \in last_restart : \A r \in executed : r <= at
    /\ executed # {} => last_restart # {}

BudgetKeptInv == WatchdogInv /\ HistoryIsEnough

-----------------------------------------------------------------------------
(* The history stays sufficient.                                           *)

\* A recorded restart is the newest, and what is pruned is older than a day.
LEMMA RecordSuffices ==
    ASSUME Faults = {}, BudgetKeptInv, NEW saved \in BOOLEAN, RestartSucceeds(saved)
    PROVE  HistoryIsEnough'
<1>1. /\ now \in Nat /\ executed \subseteq 0..now
      /\ history \subseteq executed /\ history \in SUBSET Nat
      /\ \A at \in executed : at >= now - SECONDS_PER_DAY => at \in history
  BY DEF BudgetKeptInv, WatchdogInv, WatchdogTypeOK, HistoryTypeOK, HistoryIsEnough
<1>2. /\ now' = now /\ executed' = executed \cup {now}
      /\ history' = Prune(history \cup {now})
      /\ last_restart' = {now}
      /\ disk' = history'
  BY DEF RestartSucceeds, Record
<1>3. history' \subseteq executed'
  BY <1>1, <1>2 DEF Prune
<1>4. ASSUME NEW at \in executed', at >= now - SECONDS_PER_DAY PROVE at \in history'
  <2>1. at \in history \cup {now}
    BY <1>1, <1>2, <1>4
  <2>2. at >= now - HISTORY_RETENTION_SECONDS
    BY <1>1, <1>2, <1>4, RestartConstants
  <2>. QED
    BY <1>2, <2>1, <2>2 DEF Prune
<1>5. executed' \subseteq 0..now'
  BY <1>1, <1>2
<1>6. \A r \in executed' : r <= now
  BY <1>1, <1>2
<1>. QED
  BY <1>2, <1>3, <1>4, <1>5, <1>6 DEF HistoryIsEnough

\* A new watchdog loads all the old one knew, and finds the newest of it.
LEMMA LoadSuffices ==
    ASSUME Faults = {}, BudgetKeptInv, NEW loaded \in SUBSET disk, Recreate(loaded)
    PROVE  HistoryIsEnough'
<1>1. /\ now' = now /\ executed' = executed
      /\ disk' = disk /\ history' = disk
      /\ last_restart' = {at \in disk : \A other \in disk : other <= at}
  BY DEF Recreate, Load, TookEffect
<1>2. HistoryIsEnough /\ last_restart \subseteq history /\ executed \in SUBSET Nat
  BY DEF BudgetKeptInv, WatchdogInv, WatchdogTypeOK, HistoryTypeOK
<1>3. last_restart \subseteq last_restart'
  BY <1>1, <1>2 DEF HistoryIsEnough
<1>4. ASSUME NEW at \in last_restart', NEW r \in executed' PROVE r <= at
  <2>1. PICK newest \in last_restart : TRUE
    BY <1>1, <1>2, <1>4 DEF HistoryIsEnough
  <2>2. newest \in disk /\ r <= newest /\ newest <= at
    BY <1>1, <1>2, <1>4, <2>1 DEF HistoryIsEnough
  <2>3. newest \in Nat /\ r \in Nat /\ at \in Nat
    BY <1>1, <1>2, <1>4, <2>1 DEF HistoryIsEnough
  <2>. QED
    BY <2>2, <2>3
<1>. QED
  BY <1>1, <1>2, <1>3, <1>4 DEF HistoryIsEnough

\* Time makes a day lose restarts, never gain them.
LEMMA TickSuffices ==
    ASSUME BudgetKeptInv, Tick
    PROVE  HistoryIsEnough'
<1>1. /\ now' = now \/ now' = now + 1
      /\ UNCHANGED <<executed, history, last_restart, disk>>
  BY DEF Tick, restartVars
<1>2. now \in Nat /\ HistoryIsEnough /\ executed \in SUBSET Nat
  BY DEF BudgetKeptInv, WatchdogInv, WatchdogTypeOK, HistoryTypeOK
<1>3. executed' \subseteq 0..now'
  BY <1>1, <1>2 DEF HistoryIsEnough
<1>4. \A at \in executed : at >= now' - SECONDS_PER_DAY => at >= now - SECONDS_PER_DAY
  BY <1>1, <1>2, RestartConstants
<1>. QED
  BY <1>1, <1>2, <1>3, <1>4 DEF HistoryIsEnough

\* Only a recorded restart, a recreation and time touch what it is about.
LEMMA HistorySuffices ==
    ASSUME Faults = {}, BudgetKeptInv, [Next]_vars
    PROVE  HistoryIsEnough'
<1>. HistoryIsEnough
  BY DEF BudgetKeptInv
<1>1. CASE UNCHANGED <<now, restartVars, executed>>
  BY <1>1 DEF restartVars, HistoryIsEnough
<1>2. CASE CheckOnce
  BY <1>1, <1>2 DEF CheckOnce, Observe, Cycle, WaitCycle, ConfirmCycle
<1>3. CASE \E saved \in BOOLEAN : RestartSucceeds(saved)
  BY <1>3, RecordSuffices
<1>4. CASE RestartFails
  BY <1>1, <1>4 DEF RestartFails, TookEffect
<1>5. CASE \E loaded \in SUBSET disk : Recreate(loaded)
  BY <1>5, LoadSuffices
<1>6. CASE Tick
  BY <1>6, TickSuffices
<1>7. CASE ClockStep
  BY <1>7 DEF ClockStep
<1>8. CASE UNCHANGED vars
  BY <1>1, <1>8 DEF vars
<1>. QED
  BY <1>2, <1>3, <1>4, <1>5, <1>6, <1>7, <1>8 DEF Next, RestartReturns

-----------------------------------------------------------------------------
(* Every step of the watchdog is one of the budget, or none.               *)

\* The budget counts as the guard does.
LEMMA SameCardinality ==
    ASSUME NEW S
    PROVE  Budget!Cardinality(S) = Cardinality(S)
BY DEF Cardinality, Budget!Cardinality

\* What the guard sees is what happened: the cooldown since the last restart,
\* and the number of restarts of the day.
LEMMA GuardGrants ==
    ASSUME BudgetKeptInv, CooldownExpired, RestartsIn24h < MAX_RESTARTS_PER_24_HOURS
    PROVE  /\ \A r \in executed : now - r >= RESTART_COOLDOWN_SECONDS
           /\ Cardinality(Budget!DayUpTo(now)) < MAX_RESTARTS_PER_24_HOURS
<1>1. /\ now \in Nat /\ HistoryIsEnough /\ executed \in SUBSET Nat
      /\ last_restart \in SUBSET Nat
  BY DEF BudgetKeptInv, WatchdogInv, WatchdogTypeOK, HistoryTypeOK
<1>2. ASSUME NEW r \in executed PROVE now - r >= RESTART_COOLDOWN_SECONDS
  <2>1. PICK at \in last_restart : r <= at
    BY <1>1, <1>2 DEF HistoryIsEnough
  <2>2. now - at >= RESTART_COOLDOWN_SECONDS
    BY <2>1 DEF CooldownExpired
  <2>. QED
    BY <1>1, <1>2, <2>1, <2>2, RestartConstants
<1>3. Budget!DayUpTo(now) = {at \in history : at >= now - SECONDS_PER_DAY}
  <2>1. \A r \in executed : r <= now
    BY <1>1 DEF HistoryIsEnough
  <2>2. \A r \in executed : now - SECONDS_PER_DAY <= r <=> r >= now - SECONDS_PER_DAY
    BY <1>1, RestartConstants
  <2>. QED
    BY <1>1, <2>1, <2>2 DEF Budget!DayUpTo, HistoryIsEnough
<1>. QED
  BY <1>2, <1>3 DEF RestartsIn24h

\* A cycle that restarts is granted by the budget.
LEMMA CycleGrants ==
    ASSUME BudgetKeptInv, NEW obs \in observed, NEW reachable \in BOOLEAN,
           Cycle(obs, reachable)
    PROVE  Budget!Grant \/ UNCHANGED Budget!budgetVars
<1>1. in_flight = {} /\ now' = now /\ executed' = executed
  BY DEF Cycle, BudgetKeptInv, WatchdogInv, ProgressIsEvidence
<1>2. CASE in_flight' = {}
  BY <1>1, <1>2 DEF Budget!budgetVars
<1>3. CASE in_flight' # {}
  <2>1. CooldownExpired /\ RestartsIn24h < MAX_RESTARTS_PER_24_HOURS
    BY <1>3 DEF Cycle, OnTransition, RestartAllowed
  <2>2. /\ \A r \in executed : now - r >= RESTART_COOLDOWN_SECONDS
        /\ Cardinality(Budget!DayUpTo(now)) < MAX_RESTARTS_PER_24_HOURS
    BY <2>1, GuardGrants
  <2>3. /\ ~(in_flight # {})
        /\ (in_flight' # {}) = TRUE
        /\ UNCHANGED <<now, executed>>
    BY <1>1, <1>3
  <2>. QED
    BY <2>2, <2>3, SameCardinality, Zenon DEF Budget!Grant
<1>. QED
  BY <1>2, <1>3

\* What comes of it is a restart of the budget, or the permission lapses.
LEMMA BudgetStep ==
    ASSUME Faults = {}, BudgetKeptInv, [Next]_vars
    PROVE  [Budget!BudgetNext]_Budget!budgetVars
<1>1. CASE CheckOnce
  <2>1. CASE \E obs \in observed, reachable \in BOOLEAN : Cycle(obs, reachable)
    BY <2>1, CycleGrants DEF Budget!BudgetNext
  <2>2. CASE \/ \E obs \in Observations : Observe(obs)
             \/ \E obs \in observed : WaitCycle(obs) \/ ConfirmCycle(obs)
    BY <2>2 DEF Observe, WaitCycle, ConfirmCycle, recoveryVars, Budget!budgetVars
  <2>. QED
    BY <1>1, <2>1, <2>2 DEF CheckOnce
<1>2. CASE \E saved \in BOOLEAN : RestartSucceeds(saved)
  BY <1>2 DEF RestartSucceeds, Budget!Restart, Budget!BudgetNext
<1>3. CASE RestartFails
  BY <1>3 DEF RestartFails, TookEffect, Budget!Decline, Budget!BudgetNext
<1>4. CASE \E loaded \in SUBSET disk : Recreate(loaded)
  <2>1. now' = now /\ executed' = executed /\ in_flight' = {}
    BY <1>4 DEF Recreate, TookEffect
  <2>. QED
    BY <2>1 DEF Budget!Decline, Budget!BudgetNext, Budget!budgetVars
<1>5. CASE Tick
  <2>1. /\ now \in 0..MaxTime
        /\ now' = IF now < MaxTime THEN now + 1 ELSE now
        /\ executed' = executed /\ in_flight' = in_flight
    BY <1>5 DEF Tick, BudgetKeptInv, WatchdogInv, WatchdogTypeOK
  <2>2. now' = now \/ (now' \in 0..MaxTime /\ now' > now)
    BY <2>1, WaitAndTime
  <2>. QED
    BY <2>1, <2>2 DEF Budget!Advance, Budget!BudgetNext, Budget!budgetVars
<1>6. CASE ClockStep
  BY <1>6 DEF ClockStep
<1>7. CASE UNCHANGED vars
  BY <1>7 DEF vars, recoveryVars, Budget!budgetVars
<1>. QED
  BY <1>1, <1>2, <1>3, <1>4, <1>5, <1>6, <1>7 DEF Next, RestartReturns

-----------------------------------------------------------------------------
(* The theorem.                                                            *)

\* In a world without faults the watchdog implements RestartBudget.
THEOREM WatchdogKeepsBudget ==
    ASSUME Faults = {}
    PROVE  Spec => ImplementsRestartBudget
<1>1. Init => HistoryIsEnough /\ Budget!BudgetInit
  BY WaitAndTime DEF Init, InitHistory, HistoryIsEnough, Budget!BudgetInit
<1>2. WatchdogInv /\ HistoryIsEnough /\ [Next]_vars => HistoryIsEnough'
  BY HistorySuffices DEF BudgetKeptInv
<1>3. WatchdogInv /\ HistoryIsEnough /\ [Next]_vars
      => [Budget!BudgetNext]_Budget!budgetVars
  BY BudgetStep DEF BudgetKeptInv
<1>. QED
  BY <1>1, <1>2, <1>3, WatchdogInvariant, PTL
  DEF Spec, ImplementsRestartBudget, Budget!BudgetSpec

-----------------------------------------------------------------------------
(* What RestartBudgetProofs shows of the budget holds of the watchdog.     *)

Kept == INSTANCE RestartBudgetProofs WITH
    COOLDOWN <- RESTART_COOLDOWN_SECONDS,
    CAP      <- MAX_RESTARTS_PER_24_HOURS,
    DAY      <- SECONDS_PER_DAY,
    Times    <- 0..MaxTime,
    clock    <- now,
    restarts <- executed,
    granted  <- (in_flight # {})

\* The two instances of the budget are one.
LEMMA SameBudget ==
    /\ Budget!BudgetInit => Kept!BudgetInit
    /\ [Budget!BudgetNext]_Budget!budgetVars => [Kept!BudgetNext]_Kept!budgetVars
    /\ Kept!Spaced => Budget!Spaced
    /\ Kept!Capped => Budget!Capped
<1>1. \A S : Kept!Cardinality(S) = Budget!Cardinality(S)
  BY DEF Kept!Cardinality, Budget!Cardinality
<1>2. \A t : Kept!DayUpTo(t) = Budget!DayUpTo(t)
  BY DEF Kept!DayUpTo, Budget!DayUpTo
<1>3. Budget!Grant => Kept!Grant
  BY <1>1, <1>2, Zenon DEF Budget!Grant, Kept!Grant
<1>4. /\ Budget!Restart => Kept!Restart
      /\ Budget!Decline => Kept!Decline
      /\ Budget!Advance => Kept!Advance
  BY Zenon DEF Budget!Restart, Budget!Decline, Budget!Advance,
               Kept!Restart, Kept!Decline, Kept!Advance
<1>5. UNCHANGED Budget!budgetVars => UNCHANGED Kept!budgetVars
  BY DEF Budget!budgetVars, Kept!budgetVars
<1>6. [Budget!BudgetNext]_Budget!budgetVars => [Kept!BudgetNext]_Kept!budgetVars
  BY <1>3, <1>4, <1>5 DEF Budget!BudgetNext, Kept!BudgetNext
<1>. QED
  BY <1>1, <1>2, <1>6
  DEF Budget!BudgetInit, Kept!BudgetInit, Budget!Spaced, Kept!Spaced, Budget!Capped, Kept!Capped

\* In a world without faults the watchdog keeps every promise of the budget.
LEMMA WatchdogIsBudget ==
    ASSUME Faults = {}
    PROVE  Spec => Kept!BudgetSpec
BY WatchdogKeepsBudget, SameBudget, PTL
DEF ImplementsRestartBudget, Budget!BudgetSpec, Kept!BudgetSpec

\* The budget is one over natural numbers.
LEMMA KeptConstants == Kept!BudgetConstants
BY RestartConstants, WaitAndTime DEF Kept!BudgetConstants

\* Without faults Docker never restarts TeslaMate twice within a cooldown, no
\* matter how often the watchdog is recreated.
THEOREM WatchdogSpacesRestarts ==
    ASSUME Faults = {}
    PROVE  Spec => []RestartsSpaced
<1>1. Kept!BudgetSpec => []Kept!Spaced
  BY KeptConstants, Kept!RestartsAreSpaced
<1>. QED
  BY <1>1, SameBudget, WatchdogIsBudget, PTL DEF RestartsSpaced

\* Without faults Docker never restarts TeslaMate more often in a day than the
\* cap allows, no matter how often the watchdog is recreated.
THEOREM WatchdogCapsRestarts ==
    ASSUME Faults = {}
    PROVE  Spec => []RestartsCapped
<1>1. Kept!BudgetSpec => []Kept!Capped
  BY KeptConstants, Kept!RestartsAreCapped
<1>. QED
  BY <1>1, SameBudget, WatchdogIsBudget, PTL DEF RestartsCapped

-----------------------------------------------------------------------------
(* What the watchdog remembers keeps the budget under every fault but a    *)
(* clock that is set back: a restart that is not remembered can put two    *)
(* restarts too close, but two restarts that are remembered never are.     *)

ClockRuns == "clock_step" \notin Faults

\* The day of the guard that ends at time t, in a set of times.
DayOf(h, t) == {r \in h : t - SECONDS_PER_DAY <= r /\ r <= t}

KeepsBudget(h) ==
    /\ \A at, again \in h : at < again => again - at >= RESTART_COOLDOWN_SECONDS
    /\ \A at \in h : Cardinality(DayOf(h, at)) <= MAX_RESTARTS_PER_24_HOURS

\* The restarts the watchdog knows of, and those its file does, whatever was
\* lost on the way to it and back.
RememberedKeepBudget == KeepsBudget(history) /\ KeepsBudget(disk)

\* Nothing remembered lies ahead, the guard compares with the newest of it, and
\* a restart in flight is one the guard still allows.
MemoryInv ==
    /\ history \subseteq 0..now /\ disk \subseteq 0..now
    /\ \A at \in history : \E newest \in last_restart : at <= newest
    /\ in_flight # {} =>
           CooldownExpired /\ RestartsIn24h < MAX_RESTARTS_PER_24_HOURS
    /\ RememberedKeepBudget

\* A set of times of the past has a latest one.
LEMMA LatestExists ==
    ASSUME NEW n \in Nat, NEW h \in SUBSET (0..n), h # {}
    PROVE  \E latest \in h : \A at \in h : at <= latest
<1>. DEFINE Less == OpToRel(<, Nat)
            Ages == {n - at : at \in h}
<1>1. IsWellFoundedOn(Less, Nat)
  BY NatLessThanWellFounded
<1>2. \A a, b \in Nat : a < b => <<a, b>> \in Less
  BY DEF OpToRel
<1>3. \A at \in h : at \in Nat /\ n - at \in Nat
  OBVIOUS
<1>4. Ages \subseteq Nat /\ Ages # {}
  BY <1>3
<1>. HIDE DEF Less
<1>. HIDE DEF Ages
<1>5. PICK youngest \in Ages : \A age \in Ages : <<age, youngest>> \notin Less
  BY <1>1, <1>4, WFMin
<1>6. PICK latest \in h : youngest = n - latest
  BY DEF Ages
<1>7. ASSUME NEW at \in h PROVE at <= latest
  <2>1. n - at \in Ages
    BY DEF Ages
  <2>2. ~(n - at < n - latest)
    BY <1>2, <1>3, <1>5, <1>6, <2>1
  <2>. QED
    BY <1>3, <2>2
<1>. QED
  BY <1>7

\* Forgetting restarts cannot break the budget.
LEMMA FewerKeepBudget ==
    ASSUME NEW h, IsFiniteSet(h), KeepsBudget(h), NEW fewer \in SUBSET h
    PROVE  KeepsBudget(fewer)
<1>1. ASSUME NEW at \in fewer
      PROVE  Cardinality(DayOf(fewer, at)) <= MAX_RESTARTS_PER_24_HOURS
  <2>1. DayOf(fewer, at) \subseteq DayOf(h, at)
    BY DEF DayOf
  <2>2. IsFiniteSet(DayOf(h, at))
    BY FS_Subset DEF DayOf
  <2>3. /\ Cardinality(DayOf(fewer, at)) <= Cardinality(DayOf(h, at))
        /\ Cardinality(DayOf(fewer, at)) \in Nat /\ Cardinality(DayOf(h, at)) \in Nat
    BY <2>1, <2>2, FS_Subset, FS_CardinalityType
  <2>4. Cardinality(DayOf(h, at)) <= MAX_RESTARTS_PER_24_HOURS
    BY <1>1 DEF KeepsBudget
  <2>. QED
    BY <2>3, <2>4, RestartConstants
<1>. QED
  BY <1>1 DEF KeepsBudget

\* A restart the guard allows keeps the budget with all that is remembered.
LEMMA AllowedKeepsBudget ==
    ASSUME WatchdogInv, MemoryInv, now \notin history,
           CooldownExpired, RestartsIn24h < MAX_RESTARTS_PER_24_HOURS
    PROVE  KeepsBudget(history \cup {now})
<1>1. /\ now \in Nat /\ history \subseteq 0..now /\ IsFiniteSet(history)
      /\ last_restart \subseteq history /\ KeepsBudget(history)
  BY DEF WatchdogInv, WatchdogTypeOK, HistoryTypeOK, MemoryInv, RememberedKeepBudget
<1>2. \A at \in history : at \in Nat /\ at < now
  BY <1>1
<1>3. ASSUME NEW at \in history PROVE now - at >= RESTART_COOLDOWN_SECONDS
  <2>1. PICK newest \in last_restart : at <= newest
    BY DEF MemoryInv
  <2>2. now - newest >= RESTART_COOLDOWN_SECONDS
    BY <2>1 DEF CooldownExpired
  <2>. QED
    BY <1>1, <1>2, <2>1, <2>2, RestartConstants
<1>4. ASSUME NEW at \in history \cup {now}, NEW again \in history \cup {now}, at < again
      PROVE  again - at >= RESTART_COOLDOWN_SECONDS
  <2>1. CASE again = now
    BY <1>1, <1>2, <1>3, <1>4, <2>1
  <2>2. CASE again \in history
    BY <1>1, <1>2, <1>4, <2>2 DEF KeepsBudget
  <2>. QED
    BY <2>1, <2>2
<1>5. ASSUME NEW at \in history
      PROVE  Cardinality(DayOf(history \cup {now}, at)) <= MAX_RESTARTS_PER_24_HOURS
  <2>1. DayOf(history \cup {now}, at) = DayOf(history, at)
    BY <1>1, <1>2 DEF DayOf
  <2>. QED
    BY <1>1, <2>1 DEF KeepsBudget
<1>6. Cardinality(DayOf(history \cup {now}, now)) <= MAX_RESTARTS_PER_24_HOURS
  <2>. DEFINE today == {at \in history : at >= now - SECONDS_PER_DAY}
  <2>1. DayOf(history \cup {now}, now) = today \cup {now}
    <3>1. \A r \in history \cup {now} : r <= now
      BY <1>1, <1>2
    <3>2. \A r \in history : now - SECONDS_PER_DAY <= r <=> r >= now - SECONDS_PER_DAY
      BY <1>1, <1>2, RestartConstants
    <3>3. now - SECONDS_PER_DAY <= now
      BY <1>1, RestartConstants
    <3>. QED
      BY <3>1, <3>2, <3>3 DEF DayOf
  <2>2. IsFiniteSet(today) /\ now \notin today
    BY <1>1, FS_Subset
  <2>. HIDE DEF today
  <2>3. Cardinality(today \cup {now}) = Cardinality(today) + 1 /\ Cardinality(today) \in Nat
    BY <2>2, FS_AddElement, FS_CardinalityType
  <2>4. Cardinality(today) < MAX_RESTARTS_PER_24_HOURS
    BY DEF RestartsIn24h, today
  <2>5. Cardinality(today \cup {now}) <= MAX_RESTARTS_PER_24_HOURS
    BY <2>3, <2>4, RestartConstants
  <2>. QED
    BY <2>1, <2>5
<1>. QED
  BY <1>4, <1>5, <1>6 DEF KeepsBudget

\* A recorded restart is the newest; the file takes it over or keeps what it had.
LEMMA RecordRemembers ==
    ASSUME WatchdogInv, MemoryInv, NEW saved \in BOOLEAN, RestartSucceeds(saved)
    PROVE  MemoryInv'
<1>1. /\ now \in Nat /\ history \subseteq 0..now /\ disk \subseteq 0..now
      /\ IsFiniteSet(history) /\ KeepsBudget(disk)
  BY DEF WatchdogInv, WatchdogTypeOK, HistoryTypeOK, MemoryInv, RememberedKeepBudget
<1>2. /\ now' = now /\ now \notin history
      /\ history' = Prune(history \cup {now}) /\ last_restart' = {now}
      /\ disk' = history' \/ disk' = disk
      /\ in_flight' = {}
  BY DEF RestartSucceeds, Record
<1>3. history' \subseteq history \cup {now}
  BY <1>2 DEF Prune
<1>4. KeepsBudget(history \cup {now})
  BY <1>2, AllowedKeepsBudget DEF RestartSucceeds, MemoryInv
<1>5. KeepsBudget(history')
  BY <1>1, <1>3, <1>4, FS_AddElement, FewerKeepBudget
<1>6. history' \subseteq 0..now
  BY <1>1, <1>3
<1>7. KeepsBudget(history)' /\ KeepsBudget(disk)'
  BY <1>1, <1>2, <1>5 DEF KeepsBudget, DayOf
<1>8. \A at \in history' : \E newest \in last_restart' : at <= newest
  BY <1>1, <1>2, <1>6
<1>. QED
  BY <1>1, <1>2, <1>6, <1>7, <1>8 DEF MemoryInv, RememberedKeepBudget

\* A new watchdog knows what it could load of the file, and finds its newest.
LEMMA LoadRemembers ==
    ASSUME WatchdogInv, MemoryInv, NEW loaded \in SUBSET disk, Recreate(loaded)
    PROVE  MemoryInv'
<1>1. /\ now \in Nat /\ disk \subseteq 0..now /\ IsFiniteSet(disk) /\ KeepsBudget(disk)
  BY DEF WatchdogInv, WatchdogTypeOK, HistoryTypeOK, MemoryInv, RememberedKeepBudget
<1>2. /\ now' = now /\ disk' = disk /\ history' = loaded /\ in_flight' = {}
      /\ last_restart' = {at \in loaded : \A other \in loaded : other <= at}
  BY DEF Recreate, Load
<1>3. KeepsBudget(loaded)
  BY <1>1, FewerKeepBudget
<1>4. KeepsBudget(history)' /\ KeepsBudget(disk)'
  BY <1>1, <1>2, <1>3 DEF KeepsBudget, DayOf
<1>5. ASSUME NEW at \in loaded PROVE \E newest \in last_restart' : at <= newest
  <2>1. loaded \in SUBSET (0..now) /\ loaded # {}
    BY <1>1, <1>5
  <2>2. PICK latest \in loaded : \A other \in loaded : other <= latest
    BY <1>1, <2>1, LatestExists
  <2>. QED
    BY <1>2, <2>2
<1>. QED
  BY <1>1, <1>2, <1>4, <1>5 DEF MemoryInv, RememberedKeepBudget

\* A restart the guard allowed is still allowed while its call lasts.
LEMMA TimeRemembers ==
    ASSUME WatchdogInv, MemoryInv, Tick
    PROVE  MemoryInv'
<1>1. /\ now \in Nat /\ history \subseteq 0..now /\ disk \subseteq 0..now
      /\ IsFiniteSet(history) /\ last_restart \subseteq history
  BY DEF WatchdogInv, WatchdogTypeOK, HistoryTypeOK, MemoryInv
<1>2. /\ now' = now \/ now' = now + 1
      /\ UNCHANGED <<history, last_restart, disk, in_flight>>
  BY DEF Tick, restartVars
<1>3. KeepsBudget(history)' /\ KeepsBudget(disk)'
  BY <1>2 DEF MemoryInv, RememberedKeepBudget, KeepsBudget, DayOf
<1>4. CooldownExpired => CooldownExpired'
  <2>1. \A at \in last_restart : now' - at >= now - at /\ now - at \in Int /\ now' - at \in Int
    BY <1>1, <1>2
  <2>. QED
    BY <1>2, <2>1, RestartConstants DEF CooldownExpired
<1>5. RestartsIn24h < MAX_RESTARTS_PER_24_HOURS
      => RestartsIn24h' < MAX_RESTARTS_PER_24_HOURS
  <2>. DEFINE before == {at \in history : at >= now - SECONDS_PER_DAY}
              after == {at \in history : at >= now' - SECONDS_PER_DAY}
  <2>1. after \subseteq before
    <3>1. \A at \in history : at >= now' - SECONDS_PER_DAY => at >= now - SECONDS_PER_DAY
      BY <1>1, <1>2, RestartConstants
    <3>. QED
      BY <3>1
  <2>2. IsFiniteSet(before)
    BY <1>1, FS_Subset
  <2>. HIDE DEF before, after
  <2>3. /\ Cardinality(after) <= Cardinality(before)
        /\ Cardinality(after) \in Nat /\ Cardinality(before) \in Nat
    BY <2>1, <2>2, FS_Subset, FS_CardinalityType
  <2>4. RestartsIn24h = Cardinality(before) /\ RestartsIn24h' = Cardinality(after)
    BY <1>2 DEF RestartsIn24h, before, after
  <2>. QED
    BY <2>3, <2>4, RestartConstants
<1>6. history' \subseteq 0..now' /\ disk' \subseteq 0..now'
  BY <1>1, <1>2
<1>7. \A at \in history' : \E newest \in last_restart' : at <= newest
  BY <1>2 DEF MemoryInv
<1>. QED
  BY <1>2, <1>3, <1>4, <1>5, <1>6, <1>7 DEF MemoryInv, RememberedKeepBudget

\* Checks read the history; only the one that restarts asks the guard.
LEMMA CheckRemembers ==
    ASSUME MemoryInv, CheckOnce
    PROVE  MemoryInv'
<1>1. UNCHANGED <<now, history, last_restart, disk>>
  BY DEF CheckOnce, Observe, Cycle, WaitCycle, ConfirmCycle, restartVars
<1>2. KeepsBudget(history)' /\ KeepsBudget(disk)'
  BY <1>1 DEF MemoryInv, RememberedKeepBudget, KeepsBudget, DayOf
<1>3. in_flight' # {} =>
          CooldownExpired /\ RestartsIn24h < MAX_RESTARTS_PER_24_HOURS
  BY DEF MemoryInv, CheckOnce, Observe, recoveryVars, Cycle, OnTransition,
         RestartAllowed, WaitCycle, ConfirmCycle
<1>4. CooldownExpired' = CooldownExpired /\ RestartsIn24h' = RestartsIn24h
  BY <1>1 DEF CooldownExpired, RestartsIn24h
<1>. QED
  BY <1>1, <1>2, <1>3, <1>4 DEF MemoryInv, RememberedKeepBudget

\* One case per kind of step.
LEMMA MemoryStep ==
    ASSUME ClockRuns, WatchdogInv, MemoryInv, [Next]_vars
    PROVE  MemoryInv'
<1>1. ASSUME UNCHANGED <<now, history, last_restart, disk>>,
             in_flight' = {} \/ in_flight' = in_flight
      PROVE  MemoryInv'
  <2>1. CooldownExpired' = CooldownExpired /\ RestartsIn24h' = RestartsIn24h
    BY <1>1 DEF CooldownExpired, RestartsIn24h
  <2>2. KeepsBudget(history)' /\ KeepsBudget(disk)'
    BY <1>1 DEF MemoryInv, RememberedKeepBudget, KeepsBudget, DayOf
  <2>. QED
    BY <1>1, <2>1, <2>2 DEF MemoryInv, RememberedKeepBudget
<1>2. CASE CheckOnce
  BY <1>2, CheckRemembers
<1>3. CASE \E saved \in BOOLEAN : RestartSucceeds(saved)
  BY <1>3, RecordRemembers
<1>4. CASE RestartFails
  BY <1>1, <1>4 DEF RestartFails, restartVars
<1>5. CASE \E loaded \in SUBSET disk : Recreate(loaded)
  BY <1>5, LoadRemembers
<1>6. CASE Tick
  BY <1>6, TimeRemembers
<1>7. CASE ClockStep
  BY <1>7 DEF ClockStep, ClockRuns
<1>8. CASE UNCHANGED vars
  BY <1>1, <1>8 DEF vars, restartVars, recoveryVars
<1>. QED
  BY <1>2, <1>3, <1>4, <1>5, <1>6, <1>7, <1>8 DEF Next, RestartReturns

\* As long as the clock is not set back, no two restarts the watchdog or its
\* file knows of are closer than the cooldown and no day holds more than the
\* cap of them: calls that time out, files that cannot be saved or read and
\* kills at any moment can only hide restarts from the guard, never make it
\* grant one against what it knows.
THEOREM WhatIsRememberedKeepsBudget ==
    ASSUME ClockRuns
    PROVE  Spec => []RememberedKeepBudget
<1>1. Init => MemoryInv
  BY DEF Init, InitHistory, MemoryInv, RememberedKeepBudget, KeepsBudget
<1>2. WatchdogInv /\ MemoryInv /\ [Next]_vars => MemoryInv'
  BY MemoryStep
<1>3. MemoryInv => RememberedKeepBudget
  BY DEF MemoryInv
<1>. QED
  BY <1>1, <1>2, <1>3, WatchdogInvariant, PTL DEF Spec

-----------------------------------------------------------------------------
(* Recreation.                                                             *)

FileIntact == Faults \cap {"save_error", "history_unreadable"} = {}

\* What the watchdog remembers is what it wrote, and some entry of it is the
\* newest, wherever the clock has been.
FileIsHistory ==
    /\ disk = history
    /\ history # {} => \E newest \in history : \A at \in history : at <= newest

\* A record is the newest entry, or leaves the newest entry what it was.
LEMMA RecordKeepsNewest ==
    ASSUME FileIntact, WatchdogInv, FileIsHistory,
           NEW saved \in BOOLEAN, RestartSucceeds(saved)
    PROVE  FileIsHistory'
<1>1. now \in Nat /\ history \in SUBSET Nat
  BY DEF WatchdogInv, WatchdogTypeOK, HistoryTypeOK
<1>2. history' = Prune(history \cup {now}) /\ disk' = history'
  BY DEF RestartSucceeds, Record, FileIntact
<1>3. \A at \in history' : at \in history \cup {now}
  BY <1>2 DEF Prune
<1>4. now \in history'
  BY <1>1, <1>2, RestartConstants DEF Prune
<1>5. CASE \A at \in history : at <= now
  BY <1>1, <1>2, <1>3, <1>4, <1>5 DEF FileIsHistory
<1>6. CASE \E at \in history : ~(at <= now)
  <2>1. PICK newest \in history : \A at \in history : at <= newest
    BY <1>6 DEF FileIsHistory
  <2>2. newest >= now
    BY <1>1, <1>6, <2>1
  <2>3. newest \in history'
    BY <1>1, <1>2, <2>2, RestartConstants DEF Prune
  <2>. QED
    BY <1>1, <1>2, <1>3, <2>1, <2>2, <2>3 DEF FileIsHistory
<1>. QED
  BY <1>5, <1>6

\* What a recreation may not do.
NotReopened ==
    state' = "STARTING" /\ now' = now =>
        /\ RestartsIn24h' >= RestartsIn24h
        /\ \A at \in last_restart : \E again \in last_restart' : again >= at

\* A step that leaves the history alone leaves the guard as strict as it was.
LEMMA HistoryKept ==
    ASSUME WatchdogInv, UNCHANGED <<history, last_restart>>
    PROVE  NotReopened
<1>1. history \in SUBSET Nat /\ last_restart \in SUBSET Nat /\ IsFiniteSet(history)
  BY DEF WatchdogInv, WatchdogTypeOK, HistoryTypeOK
<1>2. RestartsIn24h \in Nat
  <2>1. IsFiniteSet({at \in history : at >= now - SECONDS_PER_DAY})
    BY <1>1, FS_Subset
  <2>. QED
    BY <2>1, FS_CardinalityType DEF RestartsIn24h
<1>3. now' = now => RestartsIn24h' = RestartsIn24h
  BY DEF RestartsIn24h
<1>. QED
  BY <1>1, <1>2, <1>3 DEF NotReopened

\* The new watchdog finds all the old one knew, the newest entry last.
LEMMA LoadFindsNewest ==
    ASSUME FileIntact, WatchdogInv, FileIsHistory,
           NEW loaded \in SUBSET disk, Recreate(loaded)
    PROVE  FileIsHistory' /\ NotReopened
<1>1. /\ history' = history /\ disk' = disk /\ now' = now
      /\ last_restart' = {at \in history : \A other \in history : other <= at}
  BY DEF Recreate, Load, FileIntact, FileIsHistory
<1>2. history \in SUBSET Nat /\ last_restart \subseteq history /\ IsFiniteSet(history)
  BY DEF WatchdogInv, WatchdogTypeOK, HistoryTypeOK
<1>3. \A at \in last_restart : \E again \in last_restart' : again >= at
  BY <1>1, <1>2 DEF FileIsHistory
<1>4. RestartsIn24h \in Nat
  <2>1. IsFiniteSet({at \in history : at >= now - SECONDS_PER_DAY})
    BY <1>2, FS_Subset
  <2>. QED
    BY <2>1, FS_CardinalityType DEF RestartsIn24h
<1>5. RestartsIn24h' = RestartsIn24h
  BY <1>1 DEF RestartsIn24h
<1>. QED
  BY <1>1, <1>3, <1>4, <1>5 DEF FileIsHistory, NotReopened

\* Only a recorded restart and a recreation touch the history.
LEMMA RecreationStep ==
    ASSUME FileIntact, WatchdogInv, FileIsHistory, [Next]_vars
    PROVE  FileIsHistory' /\ [NotReopened]_vars
<1>1. CASE UNCHANGED restartVars
  BY <1>1, HistoryKept DEF restartVars, FileIsHistory
<1>2. CASE CheckOnce
  <2>1. UNCHANGED restartVars
    BY <1>2 DEF CheckOnce, Observe, Cycle, WaitCycle, ConfirmCycle
  <2>. QED
    BY <1>1, <2>1
<1>3. CASE \E saved \in BOOLEAN : RestartSucceeds(saved)
  <2>1. FileIsHistory'
    BY <1>3, RecordKeepsNewest
  <2>2. state' = "RECOVERING"
    BY <1>3 DEF RestartSucceeds, ForceState
  <2>. QED
    BY <2>1, <2>2 DEF NotReopened
<1>4. CASE RestartFails
  BY <1>1, <1>4 DEF RestartFails
<1>5. CASE \E loaded \in SUBSET disk : Recreate(loaded)
  BY <1>5, LoadFindsNewest
<1>6. CASE Tick
  BY <1>1, <1>6 DEF Tick
<1>7. CASE ClockStep
  BY <1>1, <1>7 DEF ClockStep
<1>8. CASE UNCHANGED vars
  BY <1>1, <1>8 DEF vars
<1>. QED
  BY <1>2, <1>3, <1>4, <1>5, <1>6, <1>7, <1>8 DEF Next, RestartReturns

\* Recreating the container never makes the guard more permissive as long as the
\* file keeps what is written, even where the wall clock is set back, restarts
\* time out or the watchdog dies in one.
THEOREM RecreationKeepsBudget ==
    ASSUME FileIntact
    PROVE  Spec => RecreationNeverReopensBudget
<1>1. Init => FileIsHistory
  BY DEF Init, InitHistory, FileIsHistory
<1>2. WatchdogInv /\ FileIsHistory /\ [Next]_vars
      => FileIsHistory' /\ [NotReopened]_vars
  BY RecreationStep
<1>. QED
  BY <1>1, <1>2, WatchdogInvariant, PTL DEF Spec, RecreationNeverReopensBudget, NotReopened
=============================================================================

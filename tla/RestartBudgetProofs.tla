------------------------ MODULE RestartBudgetProofs ------------------------
(***************************************************************************)
(* Proofs about RestartBudget, for every cooldown, cap and day: a guard    *)
(* that looks at the restarts of the past when it grants one keeps them    *)
(* spaced and capped, however long the granted restart takes.              *)
(***************************************************************************)
EXTENDS RestartBudget, FiniteSetTheorems, TLAPS

\* A granted restart is still within the budget when it happens.
GrantStands ==
    granted =>
        /\ \A r \in restarts : clock - r >= COOLDOWN
        /\ Cardinality(DayUpTo(clock)) < CAP

BudgetInv == BudgetTypeOK /\ Spaced /\ Capped /\ GrantStands

\* The restarts of a day are finitely many.
LEMMA DayFinite ==
    ASSUME BudgetConstants, BudgetTypeOK, NEW t \in Int
    PROVE  /\ IsFiniteSet(DayUpTo(t))
           /\ Cardinality(DayUpTo(t)) \in Nat
<1>1. IsFiniteSet(0..clock)
  BY FS_Interval DEF BudgetConstants, BudgetTypeOK
<1>2. DayUpTo(t) \subseteq 0..clock
  BY DEF DayUpTo, BudgetTypeOK
<1>. QED
  BY <1>1, <1>2, FS_Subset, FS_CardinalityType

\* A later time is further from everything before.
LEMMA LaterIsFurther ==
    ASSUME NEW c \in Nat, NEW d \in Nat, d > c, NEW n \in Nat, NEW r \in Nat
    PROVE  /\ c - r >= n => d - r >= n
           /\ d - n <= r => c - n <= r
OBVIOUS

\* Granting a restart does not change which restarts happened.
LEMMA GrantPreserves ==
    ASSUME BudgetConstants, BudgetInv, Grant
    PROVE  BudgetInv'
BY DEF BudgetInv, BudgetTypeOK, Spaced, Capped, GrantStands, DayUpTo, Grant

\* The restart that happens is spaced from the others and adds one to a day
\* that had less than CAP; the days that end before it are as they were.
LEMMA RestartPreserves ==
    ASSUME BudgetConstants, BudgetInv, Restart
    PROVE  BudgetInv'
<1>1. /\ clock \in Nat /\ restarts \in SUBSET (0..clock)
      /\ clock \notin restarts
      /\ restarts' = restarts \cup {clock}
      /\ clock' = clock /\ granted' = FALSE
  BY DEF BudgetConstants, Restart, BudgetInv, BudgetTypeOK
<1>2. /\ \A r \in restarts : clock - r >= COOLDOWN
      /\ Cardinality(DayUpTo(clock)) < CAP
  BY DEF Restart, BudgetInv, GrantStands
<1>3. BudgetTypeOK'
  <2>1. clock' \in Times /\ granted' \in BOOLEAN
    BY <1>1 DEF BudgetInv, BudgetTypeOK
  <2>2. restarts' \in SUBSET (0..clock')
    BY <1>1
  <2>. QED
    BY <2>1, <2>2 DEF BudgetTypeOK
<1>4. Spaced'
  BY <1>1, <1>2 DEF BudgetConstants, BudgetInv, Spaced
<1>5. Capped'
  <2>. SUFFICES ASSUME NEW t \in restarts'
                PROVE  Cardinality(DayUpTo(t)') <= CAP
    BY DEF Capped
  <2>1. CASE t = clock
    <3>1. DayUpTo(t)' = DayUpTo(clock) \cup {clock}
      BY <1>1, <2>1 DEF BudgetConstants, DayUpTo
    <3>2. /\ IsFiniteSet(DayUpTo(clock))
          /\ Cardinality(DayUpTo(clock)) \in Nat
      BY <1>1, DayFinite DEF BudgetInv
    <3>3. clock \notin DayUpTo(clock)
      BY <1>1 DEF DayUpTo
    <3>4. Cardinality(DayUpTo(clock) \cup {clock}) = Cardinality(DayUpTo(clock)) + 1
      BY <3>2, <3>3, FS_AddElement
    <3>. QED
      BY <1>2, <3>1, <3>2, <3>4 DEF BudgetConstants
  <2>2. CASE t \in restarts
    <3>1. DayUpTo(t)' = DayUpTo(t)
      BY <1>1, <2>2 DEF BudgetConstants, DayUpTo
    <3>. QED
      BY <2>2, <3>1 DEF BudgetInv, Capped
  <2>. QED
    BY <1>1, <2>1, <2>2
<1>. QED
  BY <1>1, <1>3, <1>4, <1>5 DEF BudgetInv, GrantStands

\* A permission that lapses changes no restart.
LEMMA DeclinePreserves ==
    ASSUME BudgetConstants, BudgetInv, Decline
    PROVE  BudgetInv'
BY DEF BudgetInv, BudgetTypeOK, Spaced, Capped, GrantStands, DayUpTo, Decline

\* Time only moves restarts out of the cooldown and out of the day.
LEMMA AdvancePreserves ==
    ASSUME BudgetConstants, BudgetInv, Advance
    PROVE  BudgetInv'
<1>1. /\ clock' \in Times /\ clock' > clock
      /\ restarts' = restarts
      /\ restarts \in SUBSET (0..clock)
  BY DEF Advance, BudgetInv, BudgetTypeOK
<1>2. clock \in Nat /\ clock' \in Nat /\ COOLDOWN \in Nat /\ CAP \in Nat /\ DAY \in Nat
  BY <1>1 DEF BudgetConstants, BudgetInv, BudgetTypeOK
<1>3. BudgetTypeOK'
  <2>1. restarts' \in SUBSET (0..clock')
    BY <1>1, <1>2
  <2>. QED
    BY <1>1, <2>1 DEF Advance, BudgetInv, BudgetTypeOK
<1>4. Spaced' /\ Capped'
  <2>1. Spaced'
    BY <1>1 DEF BudgetInv, Spaced
  <2>2. \A t \in restarts : DayUpTo(t)' = DayUpTo(t)
    BY <1>1 DEF DayUpTo
  <2>. QED
    BY <1>1, <2>1, <2>2 DEF BudgetInv, Capped
<1>5. \A r \in restarts : clock - r >= COOLDOWN => clock' - r >= COOLDOWN
  <2>. SUFFICES ASSUME NEW r \in restarts
                PROVE  clock - r >= COOLDOWN => clock' - r >= COOLDOWN
    OBVIOUS
  <2>1. r \in Nat
    BY <1>1
  <2>. QED
    BY <1>1, <1>2, <2>1, LaterIsFurther
<1>6. Cardinality(DayUpTo(clock)) < CAP => Cardinality(DayUpTo(clock)') < CAP
  <2>1. DayUpTo(clock)' \subseteq DayUpTo(clock)
    <3>. SUFFICES ASSUME NEW r \in restarts, clock' - DAY <= r
                  PROVE  clock - DAY <= r /\ r <= clock
      BY <1>1 DEF DayUpTo
    <3>1. r \in Nat /\ r <= clock
      BY <1>1, <1>2
    <3>. QED
      BY <1>1, <1>2, <3>1, LaterIsFurther
  <2>2. /\ IsFiniteSet(DayUpTo(clock))
        /\ Cardinality(DayUpTo(clock)) \in Nat
    BY <1>2, DayFinite DEF BudgetInv
  <2>3. /\ Cardinality(DayUpTo(clock)') \in Nat
        /\ Cardinality(DayUpTo(clock)') <= Cardinality(DayUpTo(clock))
    BY <2>1, <2>2, FS_Subset, FS_CardinalityType
  <2>. QED
    BY <1>2, <2>2, <2>3
<1>7. GrantStands'
  <2>1. granted' => granted
    BY DEF Advance
  <2>2. restarts' = restarts
    BY <1>1
  <2>. QED
    BY <1>5, <1>6, <2>1, <2>2 DEF BudgetInv, GrantStands
<1>. QED
  BY <1>3, <1>4, <1>7 DEF BudgetInv

\* The invariant of the budget, of which the spacing and the cap are parts.
THEOREM BudgetInvariant ==
    ASSUME BudgetConstants
    PROVE  BudgetSpec => []BudgetInv
<1>1. BudgetInit => BudgetInv
  BY DEF BudgetInit, BudgetInv, BudgetTypeOK, Spaced, Capped, GrantStands
<1>2. BudgetInv /\ [BudgetNext]_budgetVars => BudgetInv'
  <2>. SUFFICES ASSUME BudgetInv, [BudgetNext]_budgetVars PROVE BudgetInv'
    OBVIOUS
  <2>1. CASE UNCHANGED budgetVars
    BY <2>1
    DEF budgetVars, BudgetInv, BudgetTypeOK, Spaced, Capped, GrantStands, DayUpTo
  <2>. QED
    BY <2>1, GrantPreserves, RestartPreserves, DeclinePreserves, AdvancePreserves
    DEF BudgetNext
<1>. QED
  BY <1>1, <1>2, PTL DEF BudgetSpec

\* Two restarts are never closer than the cooldown.
THEOREM RestartsAreSpaced ==
    ASSUME BudgetConstants
    PROVE  BudgetSpec => []Spaced
<1>1. BudgetInv => Spaced
  BY DEF BudgetInv
<1>. QED
  BY <1>1, BudgetInvariant, PTL

\* No day that ends at a restart holds more than CAP of them.
THEOREM RestartsAreCapped ==
    ASSUME BudgetConstants
    PROVE  BudgetSpec => []Capped
<1>1. BudgetInv => Capped
  BY DEF BudgetInv
<1>. QED
  BY <1>1, BudgetInvariant, PTL
=============================================================================

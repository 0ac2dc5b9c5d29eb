--------------------------- MODULE CarTopicsProofs ---------------------------
(***************************************************************************)
(* Proofs about CarTopics, for any number of cars, any limits and any      *)
(* interleaving of the two threads: the types, that a car is only called   *)
(* stale after a silence the watchdog listened to, and that the reads of   *)
(* one call add up to the verdict of one moment.                           *)
(***************************************************************************)
EXTENDS CarTopics, TLAPS

\* The car, listened to up to now, was already silent for long at the "now" of
\* the call.
LongSilent(c) ==
    /\ heartbeat_age[c] # NoTime
    /\ heartbeat_age[c] - call.elapsed > ShorterLimit

LongConnected == Connected /\ connected_age - call.elapsed > ShorterLimit

\* The inductive invariant: what each point of a call knows of its beginning.
\* Messages and reconnects only ever shorten an age.
SilenceInv ==
    /\ CarTopicsTypeOK
    /\ call.at \in {"scan", "heard", "connection", "heartbeat", "state", "return"} =>
           call.selected \in Cars
    /\ call.at \in {"connection", "heartbeat"} => heartbeat_age[call.selected] # NoTime
    /\ call.at # "idle" /\ LongConnected =>
           \A c \in Cars : LongSilent(c) => c \in seen.silent
    /\ call.at = "heartbeat" /\ call.age > ShorterLimit /\ LongSilent(call.selected) =>
           call.selected \in seen.silent
    /\ call.at = "state" /\ call.age > ShorterLimit => call.selected \in seen.silent
    /\ call.at # "return" => call.stale = FALSE
    /\ call.stale => call.selected \in seen.silent

-----------------------------------------------------------------------------
(* Lemmas about the operators.                                             *)

\* The limits and the cap of the ages, as numbers.
LEMMA Limits ==
    /\ ShorterLimit \in Nat \ {0}
    /\ AgeCap \in Nat
    /\ AgeCap > ShorterLimit + MaxCallTime
    /\ NoTime = -1
    /\ MaxCallTime \in Nat
    /\ \A b \in BOOLEAN : Limit(b) \in Nat /\ Limit(b) >= ShorterLimit
BY CarTopicsConstants DEF ShorterLimit, Shorter, Longer, AgeCap, NoTime, Limit

\* An age grows by one or not at all.
LEMMA OlderAge ==
    ASSUME NEW age \in Age
    PROVE  /\ Older(age) \in Age
           /\ Older(age) = NoTime <=> age = NoTime
           /\ Older(age) >= age /\ Older(age) <= age + 1
BY Limits DEF Age, Older

\* The records a call starts and ends with.
LEMMA Records ==
    /\ Idle \in Call /\ Fresh("copy") \in Call
    /\ Idle.at = "idle" /\ Idle.elapsed = 0 /\ Idle.stale = FALSE
    /\ Fresh("copy").at = "copy" /\ Fresh("copy").elapsed = 0
    /\ Fresh("copy").stale = FALSE
    /\ NoAnswer \in [car : Cars \cup {NoCar}, healthy : TriState, stale : BOOLEAN]
    /\ NoAnswer.stale = FALSE
<1>1. 0 \in (0 - MaxCallTime)..AgeCap /\ 0 \in 0..MaxCallTime
  BY Limits
<1>2. <<>> \in Seq(Cars)
  OBVIOUS
<1>3. Idle \in Call /\ Fresh("copy") \in Call
  BY <1>1, <1>2, Zenon DEF Idle, Fresh, Call
<1>4. /\ Idle.at = "idle" /\ Idle.elapsed = 0 /\ Idle.stale = FALSE
      /\ Fresh("copy").at = "copy" /\ Fresh("copy").elapsed = 0
      /\ Fresh("copy").stale = FALSE
  BY Zenon DEF Idle, Fresh
<1>5. /\ NoAnswer \in [car : Cars \cup {NoCar}, healthy : TriState, stale : BOOLEAN]
      /\ NoAnswer.stale = FALSE
  BY Zenon DEF NoAnswer, TriState
<1> QED  BY <1>3, <1>4, <1>5

\* The history keeps its type, and between the steps of one call the cars that
\* had been silent for long when it began.
LEMMA HistoryStep ==
    ASSUME CarTopicsTypeOK, NoteMoment
    PROVE  /\ primary' \in Primaries
           /\ seen' \in [silent : SUBSET Cars, verdicts : SUBSET BOOLEAN,
                         state_came : BOOLEAN]
           /\ call.at # "idle" /\ call'.at # "idle" => seen'.silent = seen.silent
           /\ call.at = "idle" /\ call'.at # "idle" =>
                  seen'.silent = {c \in Cars : Silence(c) > ShorterLimit}
<1>1. AtomicVerdict' \in BOOLEAN
  BY DEF AtomicVerdict, Unhealthy
<1>2. (seen.state_came \/ active' # active) \in BOOLEAN
  BY DEF CarTopicsTypeOK
<1>3. seen.verdicts \cup {AtomicVerdict'} \in SUBSET BOOLEAN
  BY <1>1 DEF CarTopicsTypeOK
<1>4. CASE call'.at = "idle"
  BY <1>4, Zenon DEF NoteMoment, NothingSeen, CarTopicsTypeOK
<1>5. CASE call'.at # "idle" /\ call.at = "idle"
  <2>1. seen' = [silent |-> {c \in Cars : Silence(c) > ShorterLimit},
                 verdicts |-> seen.verdicts \cup {AtomicVerdict'},
                 state_came |-> seen.state_came \/ active' # active]
    BY <1>5, Zenon DEF NoteMoment
  <2>2. {c \in Cars : Silence(c) > ShorterLimit} \in SUBSET Cars
    OBVIOUS
  <2> QED  BY <1>2, <1>3, <1>5, <2>1, <2>2 DEF NoteMoment, CarTopicsTypeOK
<1>6. CASE call'.at # "idle" /\ call.at # "idle"
  <2>1. seen' = [silent |-> seen.silent,
                 verdicts |-> seen.verdicts \cup {AtomicVerdict'},
                 state_came |-> seen.state_came \/ active' # active]
    BY <1>6, Zenon DEF NoteMoment
  <2>2. seen.silent \in SUBSET Cars
    BY DEF CarTopicsTypeOK
  <2> QED  BY <1>2, <1>3, <1>6, <2>1, <2>2 DEF NoteMoment, CarTopicsTypeOK
<1> QED  BY <1>4, <1>5, <1>6

-----------------------------------------------------------------------------
(* The induction: a message, a step of logger_health(), the passing of time. *)

\* SilenceInv holds initially.
LEMMA InitSilence ==
    Init => SilenceInv
<1> SUFFICES ASSUME Init PROVE SilenceInv
  OBVIOUS
<1>1. -1 \in Age /\ <<>> \in Seq(Cars) /\ "unknown" \in TriState
  BY Limits DEF Age, TriState
<1>2. NothingSeen \in [silent : SUBSET Cars, verdicts : SUBSET BOOLEAN, state_came : BOOLEAN]
  BY DEF NothingSeen
<1>3. CarTopicsTypeOK
  BY <1>1, <1>2, Records, Limits DEF Init, CarTopicsTypeOK
<1> QED  BY <1>3, Records DEF Init, SilenceInv

\* A message, a connection or its loss preserves SilenceInv: no age grows.
LEMMA PahoKeeps ==
    ASSUME SilenceInv, PahoThread, NoteMoment
    PROVE  SilenceInv'
<1> USE Limits
<1>0. CarTopicsTypeOK /\ call' = call /\ warned' = warned /\ answer' = answer
  BY DEF SilenceInv, PahoThread, loopVars
<1>1. ASSUME /\ known' \in Seq(Cars)
             /\ healthy' \in [Cars -> TriState]
             /\ active' \in [Cars -> BOOLEAN]
             /\ handling' \in Cars \cup {NoCar}
             /\ \/ connected_age' = connected_age
                \/ connected_age' \in {0, NoTime}
             /\ heartbeat_age' \in [Cars -> Age]
             /\ \A c \in Cars : heartbeat_age'[c] \in {heartbeat_age[c], 0}
      PROVE  SilenceInv'
  <2>1. connected_age' \in Age
    <3>1. 0 \in Age /\ NoTime \in Age
      BY DEF Age
    <3> QED  BY <1>0, <1>1, <3>1 DEF CarTopicsTypeOK
  <2>0. call.elapsed \in 0..MaxCallTime
    BY <1>0 DEF CarTopicsTypeOK, Call
  <2>2. CarTopicsTypeOK'
    BY <1>0, <1>1, <2>1, HistoryStep DEF CarTopicsTypeOK
  <2>3. call.at = "idle" \/ seen'.silent = seen.silent
    BY <1>0, HistoryStep
  <2>4. \A c \in Cars : LongSilent(c)' => LongSilent(c)
    BY <1>0, <1>1, <2>0 DEF LongSilent
  <2>5. LongConnected' => LongConnected
    <3>1. CASE connected_age' = connected_age
      BY <1>0, <3>1 DEF LongConnected, Connected
    <3>2. CASE connected_age' \in {0, NoTime}
      BY <1>0, <2>0, <3>2 DEF LongConnected, Connected
    <3> QED  BY <1>1, <3>1, <3>2
  <2>6. call.at \in {"connection", "heartbeat"} =>
            heartbeat_age'[call.selected] # NoTime
    BY <1>1 DEF SilenceInv
  <2> QED  BY <1>0, <2>2, <2>3, <2>4, <2>5, <2>6 DEF SilenceInv
<1>2. CASE OnConnect \/ OnDisconnect
  BY <1>0, <1>1, <1>2 DEF OnConnect, OnDisconnect, CarTopicsTypeOK
<1>3. ASSUME NEW c \in Cars, NEW payload \in TriState, OnHealthy(c, payload)
      PROVE  SilenceInv'
  <2>1. known' \in Seq(Cars)
    BY <1>0, <1>3 DEF OnHealthy, Insert, CarTopicsTypeOK
  <2> QED  BY <1>0, <1>1, <1>3, <2>1 DEF OnHealthy, CarTopicsTypeOK
<1>4. CASE OnHealthyStamped
  BY <1>0, <1>1, <1>4 DEF OnHealthyStamped, CarTopicsTypeOK, Age
<1>5. ASSUME NEW c \in Cars, NEW is_active \in BOOLEAN, OnState(c, is_active)
      PROVE  SilenceInv'
  <2>1. known' \in Seq(Cars)
    BY <1>0, <1>5 DEF OnState, Insert, CarTopicsTypeOK
  <2> QED  BY <1>0, <1>1, <1>5, <2>1 DEF OnState, CarTopicsTypeOK
<1> QED  BY <1>2, <1>3, <1>4, <1>5 DEF PahoThread

\* The call begins: a car that counts as silent for long from now on does now.
LEMMA BeginKeeps ==
    ASSUME SilenceInv, Begin, UNCHANGED pahoVars, NoteMoment
    PROVE  SilenceInv'
<1>0. /\ CarTopicsTypeOK /\ call.at = "idle"
      /\ call' = Fresh("copy") /\ answer' = NoAnswer /\ warned' = warned
      /\ UNCHANGED pahoVars
  BY DEF SilenceInv, Begin
<1>1. CarTopicsTypeOK'
  BY <1>0, Records, HistoryStep DEF CarTopicsTypeOK, pahoVars
<1>2. seen'.silent = {c \in Cars : Silence(c) > ShorterLimit}
  BY <1>0, Records, HistoryStep
<1>3. ASSUME NEW c \in Cars, LongConnected', LongSilent(c)'
      PROVE  Silence(c) > ShorterLimit
  <2>1. /\ Connected /\ connected_age > ShorterLimit
        /\ heartbeat_age[c] # NoTime /\ heartbeat_age[c] > ShorterLimit
    BY <1>0, <1>3, Records, Limits
       DEF LongConnected, LongSilent, Connected, pahoVars, CarTopicsTypeOK, Age
  <2> QED  BY <2>1 DEF Silence, Shorter
<1> QED  BY <1>0, <1>1, <1>2, <1>3, Records DEF SilenceInv

\* Time passes: every age grows by at most what the call's own time does.
LEMMA TickKeeps ==
    ASSUME SilenceInv, Tick, NoteMoment
    PROVE  SilenceInv'
<1> USE Limits
<1>0. /\ CarTopicsTypeOK /\ UNCHANGED <<known, healthy, active, handling, warned, answer>>
      /\ call'.at = call.at /\ call'.selected = call.selected
      /\ call'.age = call.age /\ call'.stale = call.stale
  BY DEF SilenceInv, Tick, CarTopicsTypeOK, Call
<1>1. call' \in Call
  <2>1. call \in Call /\ call.elapsed \in 0..MaxCallTime
    BY <1>0 DEF CarTopicsTypeOK, Call
  <2>2. CASE call.at = "idle"
    BY <2>1, <2>2 DEF Tick
  <2>3. CASE call.at # "idle"
    <3>1. call.elapsed + 1 \in 0..MaxCallTime
      BY <2>1, <2>3 DEF Tick
    <3>2. call' = [call EXCEPT !.elapsed = call.elapsed + 1]
      BY <2>3 DEF Tick
    <3> QED  BY <2>1, <3>1, <3>2 DEF Call
  <2> QED  BY <2>2, <2>3
<1>2. \A c \in Cars : /\ heartbeat_age'[c] \in Age
                      /\ heartbeat_age'[c] = NoTime <=> heartbeat_age[c] = NoTime
                      /\ heartbeat_age'[c] <= heartbeat_age[c] + 1
  BY <1>0, OlderAge DEF Tick, CarTopicsTypeOK
<1>3. /\ connected_age' \in Age
      /\ connected_age' = NoTime <=> connected_age = NoTime
      /\ connected_age' <= connected_age + 1
  BY <1>0, OlderAge DEF Tick, CarTopicsTypeOK
<1>4. CarTopicsTypeOK'
  BY <1>0, <1>1, <1>2, <1>3, HistoryStep DEF CarTopicsTypeOK, Tick
<1>5. CASE call.at = "idle"
  BY <1>0, <1>4, <1>5 DEF SilenceInv
<1>6. CASE call.at # "idle"
  <2>1. call'.elapsed = call.elapsed + 1 /\ call.elapsed \in Nat
    BY <1>0, <1>6 DEF Tick, CarTopicsTypeOK, Call
  <2>2. \A c \in Cars : LongSilent(c)' => LongSilent(c)
    <3> SUFFICES ASSUME NEW c \in Cars, LongSilent(c)' PROVE LongSilent(c)
      OBVIOUS
    <3>1. /\ heartbeat_age[c] \in Age /\ heartbeat_age'[c] \in Age
          /\ heartbeat_age'[c] <= heartbeat_age[c] + 1
          /\ heartbeat_age'[c] # NoTime /\ heartbeat_age[c] # NoTime
          /\ heartbeat_age'[c] - call'.elapsed > ShorterLimit
      BY <1>0, <1>2 DEF LongSilent, CarTopicsTypeOK
    <3>2. heartbeat_age[c] - call.elapsed > ShorterLimit
      BY <2>1, <3>1 DEF Age
    <3> QED  BY <3>1, <3>2 DEF LongSilent
  <2>3. LongConnected' => LongConnected
    BY <1>0, <1>3, <2>1 DEF LongConnected, Connected, CarTopicsTypeOK, Age
  <2>4. seen'.silent = seen.silent
    BY <1>0, <1>6, HistoryStep
  <2>5. call.at \in {"connection", "heartbeat"} =>
            heartbeat_age'[call.selected] # NoTime
    BY <1>2 DEF SilenceInv
  <2> QED  BY <1>0, <1>4, <1>6, <2>2, <2>3, <2>4, <2>5 DEF SilenceInv
<1> QED  BY <1>5, <1>6

\* Each step of logger_health() preserves SilenceInv.
LEMMA LoopKeeps ==
    ASSUME SilenceInv, LoggerHealth, NoteMoment
    PROVE  SilenceInv'
<1> USE Limits
<1>0. /\ CarTopicsTypeOK /\ UNCHANGED pahoVars /\ call \in Call
      /\ call.selected \in Cars \cup {NoCar} /\ call.elapsed \in 0..MaxCallTime
      /\ call.age \in (0 - MaxCallTime)..AgeCap /\ call.stale \in BOOLEAN
      /\ call.cars \in Seq(Cars) /\ known \in Seq(Cars)
      /\ connected_age \in Age /\ heartbeat_age \in [Cars -> Age]
  BY DEF SilenceInv, CarTopicsTypeOK, LoggerHealth, Call
\* What the steps inside of a call have in common.
<1>1. ASSUME call.at # "idle", call'.at # "idle", call' \in Call,
             call'.elapsed = call.elapsed,
             UNCHANGED answer, warned' \in BOOLEAN
      PROVE  /\ CarTopicsTypeOK'
             /\ seen'.silent = seen.silent
             /\ LongConnected' => LongConnected
             /\ \A c \in Cars : LongSilent(c)' <=> LongSilent(c)
             /\ LongConnected' => \A c \in Cars : LongSilent(c)' => c \in seen'.silent
  <2>1. CarTopicsTypeOK' /\ seen'.silent = seen.silent
    BY <1>0, <1>1, HistoryStep DEF CarTopicsTypeOK, pahoVars
  <2>2. /\ LongConnected' => LongConnected
        /\ \A c \in Cars : LongSilent(c)' <=> LongSilent(c)
    BY <1>0, <1>1 DEF LongConnected, LongSilent, Connected, pahoVars
  <2> QED  BY <1>1, <2>1, <2>2 DEF SilenceInv
\* The call returns.
<1>2. ASSUME call' = Idle, warned' \in BOOLEAN,
             answer' \in [car : Cars \cup {NoCar}, healthy : TriState, stale : BOOLEAN]
      PROVE  SilenceInv'
  <2>1. CarTopicsTypeOK'
    BY <1>0, <1>2, Records, HistoryStep DEF CarTopicsTypeOK, pahoVars
  <2> QED  BY <1>2, <2>1, Records DEF SilenceInv
<1>3. CASE CopyCars
  <2>1. CASE known = <<>>
    <3>1. warned' \in BOOLEAN
      BY <1>3, <2>1 DEF CopyCars, WarnIfPersistentlySilent
    <3>2. answer' \in [car : Cars \cup {NoCar}, healthy : TriState, stale : BOOLEAN]
      <4>1. answer' = [car |-> NoCar, healthy |-> "unknown", stale |-> FALSE]
        BY <1>3, <2>1 DEF CopyCars, Return
      <4>2. "unknown" \in TriState
        BY DEF TriState
      <4> QED  BY <4>1, <4>2, Zenon
    <3> QED  BY <1>2, <1>3, <2>1, <3>1, <3>2 DEF CopyCars, Return
  <2>2. CASE known # <<>> /\ Contains(known, primary)
    <3>1. primary \in Cars
      BY <1>0, <2>2 DEF Contains
    <3>2. call' = [call EXCEPT !.at = "heard", !.selected = primary]
      BY <1>3, <2>2 DEF CopyCars
    <3>3. /\ call' \in Call /\ call'.at = "heard" /\ call'.selected \in Cars
          /\ call'.elapsed = call.elapsed /\ call'.stale = call.stale
      BY <1>0, <3>1, <3>2 DEF Call
    <3>4. call.at = "copy" /\ UNCHANGED <<warned, answer>>
      BY <1>3, <2>2 DEF CopyCars
    <3>5. warned' \in BOOLEAN
      BY <1>0, <3>4 DEF CarTopicsTypeOK
    <3>6. call.stale = FALSE
      BY <3>4 DEF SilenceInv
    <3> QED  BY <1>1, <3>3, <3>4, <3>5, <3>6 DEF SilenceInv
  <2>3. CASE known # <<>> /\ ~Contains(known, primary)
    <3>1. Head(known) \in Cars
      BY <1>0, <2>3
    <3>2. call' = [call EXCEPT !.at = "scan", !.cars = known, !.selected = Head(known)]
      BY <1>3, <2>3 DEF CopyCars
    <3>3. /\ call' \in Call /\ call'.at = "scan" /\ call'.selected \in Cars
          /\ call'.elapsed = call.elapsed /\ call'.stale = call.stale
      BY <1>0, <3>1, <3>2 DEF Call
    <3>4. call.at = "copy" /\ UNCHANGED <<warned, answer>>
      BY <1>3, <2>3 DEF CopyCars
    <3>5. warned' \in BOOLEAN
      BY <1>0, <3>4 DEF CarTopicsTypeOK
    <3>6. call.stale = FALSE
      BY <3>4 DEF SilenceInv
    <3> QED  BY <1>1, <3>3, <3>4, <3>5, <3>6 DEF SilenceInv
  <2> QED  BY <2>1, <2>2, <2>3
<1>4. CASE ScanCar
  <2>0. /\ call.at = "scan" /\ UNCHANGED <<warned, answer>> /\ warned' \in BOOLEAN
        /\ call.selected \in Cars /\ call.stale = FALSE
    BY <1>0, <1>4 DEF ScanCar, SilenceInv, CarTopicsTypeOK
  <2>1. /\ call' \in Call /\ call'.at \in {"scan", "heard"} /\ call'.selected \in Cars
        /\ call'.elapsed = call.elapsed /\ call'.stale = FALSE
    <3>1. CASE call.cars = <<>>
      BY <1>0, <1>4, <2>0, <3>1 DEF ScanCar, Call
    <3>2. CASE call.cars # <<>>
      <4>1. Head(call.cars) \in Cars /\ Tail(call.cars) \in Seq(Cars) /\ <<>> \in Seq(Cars)
        BY <1>0, <3>2
      <4>2. CASE healthy[Head(call.cars)] = "false"
        <5>1. call' = [call EXCEPT !.at = "heard", !.cars = <<>>,
                                   !.selected = Head(call.cars)]
          BY <1>4, <3>2, <4>2 DEF ScanCar
        <5> QED  BY <1>0, <2>0, <4>1, <5>1 DEF Call
      <4>3. CASE healthy[Head(call.cars)] # "false"
        <5>1. call' = [call EXCEPT !.cars = Tail(call.cars)]
          BY <1>4, <3>2, <4>3 DEF ScanCar
        <5> QED  BY <1>0, <2>0, <4>1, <5>1 DEF Call
      <4> QED  BY <4>2, <4>3
    <3> QED  BY <3>1, <3>2
  <2> QED  BY <1>1, <2>0, <2>1 DEF SilenceInv
<1>5. CASE CheckHeard
  <2>0. /\ call.at = "heard" /\ UNCHANGED <<warned, answer>> /\ warned' \in BOOLEAN
        /\ call.selected \in Cars /\ call.stale = FALSE
    BY <1>0, <1>5 DEF CheckHeard, SilenceInv, CarTopicsTypeOK
  <2>1. /\ call' \in Call /\ call'.at \in {"return", "connection"}
        /\ call'.selected = call.selected
        /\ call'.elapsed = call.elapsed /\ call'.stale = FALSE
        /\ call'.at = "connection" => heartbeat_age[call.selected] # NoTime
    BY <1>0, <1>5, <2>0 DEF CheckHeard, Call
  <2> QED  BY <1>0, <1>1, <2>0, <2>1 DEF SilenceInv, pahoVars
<1>6. CASE ReadConnection
  <2>0. /\ call.at = "connection" /\ UNCHANGED <<warned, answer>> /\ warned' \in BOOLEAN
        /\ call.selected \in Cars /\ call.stale = FALSE
        /\ heartbeat_age[call.selected] # NoTime
    BY <1>0, <1>6 DEF ReadConnection, SilenceInv, CarTopicsTypeOK
  <2>1. CASE ~Connected
    <3>1. /\ call' \in Call /\ call'.at = "return"
          /\ call'.selected = call.selected
          /\ call'.elapsed = call.elapsed /\ call'.stale = FALSE
      BY <1>0, <1>6, <2>0, <2>1 DEF ReadConnection, Call
    <3> QED  BY <1>1, <2>0, <3>1 DEF SilenceInv
  <2>2. CASE Connected
    <3>1. connected_age - call.elapsed \in (0 - MaxCallTime)..AgeCap
      BY <1>0, <2>2 DEF Connected, Age
    <3>2. /\ call' \in Call /\ call'.at = "heartbeat"
          /\ call'.selected = call.selected
          /\ call'.elapsed = call.elapsed /\ call'.stale = FALSE
          /\ call'.age = connected_age - call.elapsed
      BY <1>0, <1>6, <2>0, <2>2, <3>1 DEF ReadConnection, Call
    <3>3. call'.age > ShorterLimit /\ LongSilent(call.selected) =>
              call.selected \in seen.silent
      BY <2>0, <2>2, <3>2 DEF SilenceInv, LongConnected
    <3>4. heartbeat_age' = heartbeat_age
      BY <1>0 DEF pahoVars
    <3> QED  BY <1>1, <2>0, <3>2, <3>3, <3>4 DEF SilenceInv
  <2> QED  BY <2>1, <2>2
<1>7. CASE ReadHeartbeat
  <2>0. /\ call.at = "heartbeat" /\ UNCHANGED <<warned, answer>> /\ warned' \in BOOLEAN
        /\ call.selected \in Cars /\ call.stale = FALSE
        /\ heartbeat_age[call.selected] # NoTime
    BY <1>0, <1>7 DEF ReadHeartbeat, SilenceInv, CarTopicsTypeOK
  <2> DEFINE heard == heartbeat_age[call.selected] - call.elapsed
  <2>1. heard \in (0 - MaxCallTime)..AgeCap
    <3>1. heartbeat_age[call.selected] \in Age
      BY <1>0, <2>0
    <3>2. heartbeat_age[call.selected] \in 0..AgeCap
      BY <2>0, <3>1 DEF Age
    <3>3. /\ call.elapsed \in Nat /\ call.elapsed <= MaxCallTime
          /\ AgeCap \in Nat /\ MaxCallTime \in Nat
      BY <1>0
    <3> QED  BY <3>2, <3>3
  <2>2. /\ Shorter(call.age, heard) \in (0 - MaxCallTime)..AgeCap
        /\ Shorter(call.age, heard) <= call.age
        /\ Shorter(call.age, heard) <= heard
    <3>1. /\ call.age \in Int /\ heard \in Int
          /\ Shorter(call.age, heard) \in {call.age, heard}
      BY <1>0, <2>1 DEF Shorter
    <3>2. Shorter(call.age, heard) <= call.age /\ Shorter(call.age, heard) <= heard
      BY <3>1 DEF Shorter
    <3> QED  BY <1>0, <2>1, <3>1, <3>2
  <2>3. /\ call' \in Call /\ call'.at = "state"
        /\ call'.selected = call.selected
        /\ call'.elapsed = call.elapsed /\ call'.stale = FALSE
        /\ call'.age = Shorter(call.age, heard)
    BY <1>0, <1>7, <2>0, <2>2 DEF ReadHeartbeat, Call
  <2>4. call'.age > ShorterLimit => call.selected \in seen.silent
    BY <1>0, <2>0, <2>1, <2>2, <2>3 DEF SilenceInv, LongSilent
  <2> QED  BY <1>1, <2>0, <2>3, <2>4 DEF SilenceInv
<1>8. CASE ReadState
  <2>0. /\ call.at = "state" /\ UNCHANGED <<warned, answer>> /\ warned' \in BOOLEAN
        /\ call.selected \in Cars
    BY <1>0, <1>8 DEF ReadState, SilenceInv, CarTopicsTypeOK
  <2>1. active[call.selected] \in BOOLEAN
    BY <1>0, <2>0 DEF CarTopicsTypeOK
  <2>2. 0 \in (0 - MaxCallTime)..AgeCap
    OBVIOUS
  <2> DEFINE late == call.age > Limit(active[call.selected])
  <2>5. late \in BOOLEAN
    OBVIOUS
  <2>6. call' = [call EXCEPT !.at = "return", !.age = 0, !.stale = late]
    BY <1>8 DEF ReadState
  <2> HIDE DEF late
  <2>3. /\ call' \in Call /\ call'.at = "return"
        /\ call'.selected = call.selected
        /\ call'.elapsed = call.elapsed
        /\ call'.stale = late
    BY <1>0, <2>2, <2>5, <2>6 DEF Call
  <2>4. call'.stale => call.selected \in seen.silent
    <3>1. Limit(active[call.selected]) \in Nat /\ Limit(active[call.selected]) >= ShorterLimit
      BY <2>1
    <3>2. call.age > Limit(active[call.selected]) => call.age > ShorterLimit
      BY <1>0, <3>1
    <3>3. late => call.age > ShorterLimit
      BY <3>2 DEF late
    <3> QED  BY <2>0, <2>3, <3>3 DEF SilenceInv
  <2> QED  BY <1>1, <2>0, <2>3, <2>4 DEF SilenceInv
<1>9. CASE ReadHealthy
  <2>1. call.selected \in Cars
    BY <1>9 DEF ReadHealthy, SilenceInv
  <2>2. answer' \in [car : Cars \cup {NoCar}, healthy : TriState, stale : BOOLEAN]
    BY <1>0, <1>9, <2>1 DEF ReadHealthy, Return, CarTopicsTypeOK
  <2>3. warned' \in BOOLEAN
    BY <1>0, <1>9 DEF ReadHealthy, CarTopicsTypeOK
  <2> QED  BY <1>2, <1>9, <2>2, <2>3 DEF ReadHealthy, Return
<1> QED  BY <1>3, <1>4, <1>5, <1>6, <1>7, <1>8, <1>9 DEF LoggerHealth

-----------------------------------------------------------------------------
(* The theorems.                                                           *)

\* SilenceInv is an invariant.
LEMMA SilenceInvariant ==
    Spec => []SilenceInv
<1>1. Init => SilenceInv
  BY InitSilence
<1>2. SilenceInv /\ [Next]_vars => SilenceInv'
  <2> SUFFICES ASSUME SilenceInv, [Next]_vars PROVE SilenceInv'
    OBVIOUS
  <2>1. CASE PahoThread /\ NoteMoment
    BY <2>1, PahoKeeps
  <2>2. CASE Begin /\ UNCHANGED pahoVars /\ NoteMoment
    BY <2>2, BeginKeeps
  <2>3. CASE LoggerHealth /\ NoteMoment
    BY <2>3, LoopKeeps
  <2>4. CASE Tick /\ NoteMoment
    BY <2>4, TickKeeps
  <2>5. CASE UNCHANGED vars
    BY <2>5 DEF vars, pahoVars, loopVars, SilenceInv, CarTopicsTypeOK, LongSilent,
                LongConnected, Connected
  <2> QED  BY <2>1, <2>2, <2>3, <2>4, <2>5 DEF Next
<1> QED  BY <1>1, <1>2, PTL DEF Spec

\* Both threads keep the types of what they share, for any number of cars.
THEOREM CarTopicsTypeCorrect == Spec => []CarTopicsTypeOK
<1>1. SilenceInv => CarTopicsTypeOK
  BY DEF SilenceInv
<1> QED  BY <1>1, SilenceInvariant, PTL

\* logger_health() calls a car stale only if the watchdog had listened to its
\* silence for longer than a limit when the call began, whatever arrives or is
\* lost while it reads.
THEOREM StaleOnlyAfterSilence == Spec => StaleIsSilence
<1>1. SilenceInv /\ [Next]_vars =>
          (answer'.stale /\ ~answer.stale => answer'.car \in seen.silent)
  <2> SUFFICES ASSUME SilenceInv, [Next]_vars, answer'.stale, ~answer.stale
               PROVE  answer'.car \in seen.silent
    OBVIOUS
  <2>1. answer' # answer /\ answer' # NoAnswer
    BY Records
  <2>2. ReadHealthy \/ CopyCars
    BY <2>1 DEF Next, vars, PahoThread, loopVars, Begin, LoggerHealth, ScanCar, CheckHeard,
                ReadConnection, ReadHeartbeat, ReadState, Tick
  <2>3. CASE ReadHealthy
    BY <2>3, Zenon DEF ReadHealthy, Return, SilenceInv
  <2>4. CASE CopyCars
    BY <2>1, <2>4 DEF CopyCars, Return, NoAnswer
  <2> QED  BY <2>2, <2>3, <2>4
<1> QED  BY <1>1, SilenceInvariant, PTL DEF Spec, StaleIsSilence

-----------------------------------------------------------------------------
(* One moment for the whole call. Every claim below is about the primary   *)
(* car, and holds as long as no car's state has arrived during the call.   *)

PrimaryLimit == Limit(active[primary])

\* The ages of the primary car, at the "now" of the call, are over its limit.
LongHeard ==
    /\ heartbeat_age[primary] # NoTime
    /\ heartbeat_age[primary] - call.elapsed > PrimaryLimit

LongListened == Connected /\ connected_age - call.elapsed > PrimaryLimit

\* A verdict "unhealthy" would need more than what the call can still read: it
\* was "healthy" at some moment, unless it is "unhealthy" by the payload now.
WasFine == FALSE \in seen.verdicts \/ healthy[primary] = "false"

\* What the moments of the call say of the ages as they are.
MomentsInv ==
    /\ AtomicVerdict \in seen.verdicts
    /\ WasFine \/ (LongListened /\ LongHeard /\ handling # primary)
    /\ (call.at = "copy" => handling # primary) /\ LongListened /\ LongHeard =>
           TRUE \in seen.verdicts

\* What they say of the values the call has read.
ReadingInv ==
    call.selected = primary =>
        /\ call.at = "heartbeat" /\ call.age > PrimaryLimit /\ LongHeard =>
               TRUE \in seen.verdicts
        /\ call.at = "state" /\ call.age > PrimaryLimit => TRUE \in seen.verdicts
        /\ call.at \in {"heartbeat", "state"} => WasFine \/ call.age > PrimaryLimit
        /\ call.stale => TRUE \in seen.verdicts
        /\ call.at = "return" /\ ~call.stale => WasFine

\* The inductive invariant of VerdictIsAtomic.
AtomicInv ==
    /\ call.at = "idle" => seen = NothingSeen
    /\ primary \in Cars /\ call.at # "idle" /\ ~seen.state_came =>
           MomentsInv /\ ReadingInv

\* What any step inside of a call does to the primary car: a new payload makes
\* its message the one handled, and an age that was long stays so or restarts.
AgesStep ==
    /\ healthy'[primary] = healthy[primary] \/ handling' = primary
    /\ LongHeard' => LongHeard
    /\ LongListened' => LongListened
    /\ LongHeard => LongHeard' \/ heartbeat_age'[primary] = 0
    /\ LongListened => LongListened' \/ connected_age' \in {0, NoTime}
    /\ call.at = "copy" /\ handling = primary =>
           (call'.at = "copy" /\ handling' = primary) \/ heartbeat_age'[primary] = 0

\* The history gathers the verdict of the moment, and remembers an arrival.
LEMMA MomentNoted ==
    ASSUME CarTopicsTypeOK, NoteMoment, call'.at # "idle"
    PROVE  /\ seen'.verdicts = seen.verdicts \cup {AtomicVerdict'}
           /\ ~seen'.state_came => ~seen.state_came /\ active' = active
           /\ primary' = primary
<1> DEFINE silent == IF call.at = "idle" THEN {c \in Cars : Silence(c) > ShorterLimit}
                     ELSE seen.silent
<1>1. seen' = [silent |-> silent, verdicts |-> seen.verdicts \cup {AtomicVerdict'},
               state_came |-> seen.state_came \/ active' # active]
  BY Zenon DEF NoteMoment
<1>2. /\ seen'.verdicts = seen.verdicts \cup {AtomicVerdict'}
      /\ seen'.state_came = (seen.state_came \/ active' # active)
  BY <1>1, Zenon
<1> QED  BY <1>2 DEF NoteMoment

\* Inside of a call, any step that is an AgesStep keeps what the moments say.
LEMMA MomentsStep ==
    ASSUME SilenceInv, SilenceInv', NoteMoment, primary \in Cars, call.at # "idle",
           call'.at # "idle", ~seen'.state_came, MomentsInv, AgesStep
    PROVE  /\ seen.verdicts \subseteq seen'.verdicts
           /\ PrimaryLimit' = PrimaryLimit
           /\ WasFine => WasFine'
           /\ MomentsInv'
<1> USE Limits
<1>0. CarTopicsTypeOK /\ CarTopicsTypeOK'
  BY DEF SilenceInv
<1>1. /\ seen'.verdicts = seen.verdicts \cup {AtomicVerdict'}
      /\ active' = active /\ primary' = primary
  BY <1>0, MomentNoted
<1>2. PrimaryLimit' = PrimaryLimit /\ PrimaryLimit \in Nat
  BY <1>0, <1>1 DEF PrimaryLimit, CarTopicsTypeOK
<1>3. /\ connected_age' \in Age /\ heartbeat_age'[primary] \in Age
      /\ call'.elapsed \in Nat
  BY <1>0, <1>1 DEF CarTopicsTypeOK, Call
<1>4. AtomicVerdict' = (healthy'[primary] = "false"
                        \/ (handling' # primary /\ Stale(primary)'))
  <2>1. primary # NoCar /\ primary' = primary
    BY <1>1, CarTopicsConstants
  <2> QED  BY <2>1, Zenon DEF AtomicVerdict, Unhealthy
<1>5. Stale(primary)' => /\ Connected' /\ connected_age' > PrimaryLimit
                         /\ heartbeat_age'[primary] # NoTime
                         /\ heartbeat_age'[primary] > PrimaryLimit
  BY <1>1, <1>2, <1>3 DEF Stale, Silence, Shorter, Connected, Age, PrimaryLimit
<1>6. WasFine => WasFine'
  <2>1. CASE FALSE \in seen.verdicts
    BY <1>1, <2>1 DEF WasFine
  <2>2. CASE healthy[primary] = "false" /\ healthy'[primary] # "false"
    BY <1>1, <1>4, <2>2 DEF AgesStep, WasFine
  <2>3. CASE healthy[primary] = "false" /\ healthy'[primary] = "false"
    BY <1>1, <2>3 DEF WasFine
  <2> QED  BY <2>1, <2>2, <2>3 DEF WasFine
<1>7. WasFine' \/ (LongListened' /\ LongHeard' /\ handling' # primary')
  <2> SUFFICES ASSUME ~WasFine' PROVE LongListened' /\ LongHeard' /\ handling' # primary'
    OBVIOUS
  <2>1. healthy'[primary] # "false" /\ FALSE \notin seen'.verdicts
    BY <1>1 DEF WasFine
  <2>2. handling' # primary /\ Stale(primary)'
    BY <1>1, <1>4, <2>1
  <2>3. LongListened /\ LongHeard
    BY <1>6 DEF MomentsInv
  <2>4. heartbeat_age'[primary] # 0 /\ connected_age' \notin {0, NoTime}
    BY <1>2, <1>3, <1>5, <2>2 DEF Connected, Age
  <2> QED  BY <1>1, <2>2, <2>3, <2>4 DEF AgesStep
<1>8. (call'.at = "copy" => handling' # primary') /\ LongListened' /\ LongHeard' =>
          TRUE \in seen'.verdicts
  <2> SUFFICES ASSUME call'.at = "copy" => handling' # primary',
                      LongListened', LongHeard'
               PROVE  TRUE \in seen'.verdicts
    OBVIOUS
  <2>1. heartbeat_age'[primary] # 0
    BY <1>1, <1>2, <1>3 DEF LongHeard
  <2>2. call.at = "copy" => handling # primary
    BY <1>1, <2>1 DEF AgesStep
  <2> QED  BY <1>1, <2>2 DEF AgesStep, MomentsInv
<1>9. AtomicVerdict' \in seen'.verdicts
  BY <1>1
<1> QED  BY <1>1, <1>2, <1>6, <1>7, <1>8, <1>9 DEF MomentsInv

\* A message, a connection or its loss is an AgesStep.
LEMMA PahoAges ==
    ASSUME SilenceInv, PahoThread, primary \in Cars, primary' = primary, active' = active
    PROVE  AgesStep
<1> USE Limits
<1>0. /\ CarTopicsTypeOK /\ call' = call
      /\ call.elapsed \in Nat /\ connected_age \in Age /\ heartbeat_age[primary] \in Age
      /\ PrimaryLimit \in Nat /\ PrimaryLimit' = PrimaryLimit
  <2>1. CarTopicsTypeOK
    BY DEF SilenceInv
  <2>2. call' = call
    BY DEF PahoThread, loopVars
  <2>3. connected_age \in Age /\ heartbeat_age[primary] \in Age /\ active[primary] \in BOOLEAN
    BY <2>1 DEF CarTopicsTypeOK
  <2>4. call.elapsed \in Nat
    BY <2>1 DEF CarTopicsTypeOK, Call
  <2>5. PrimaryLimit \in Nat /\ PrimaryLimit' = PrimaryLimit
    BY <2>3 DEF PrimaryLimit
  <2>. QED
    BY <2>1, <2>2, <2>3, <2>4, <2>5
<1>1. ASSUME \/ connected_age' = connected_age
             \/ connected_age' \in {0, NoTime},
             heartbeat_age'[primary] \in {heartbeat_age[primary], 0},
             healthy'[primary] = healthy[primary] \/ handling' = primary,
             handling = primary => handling' = primary \/ heartbeat_age'[primary] = 0
      PROVE  AgesStep
  <2>1. LongHeard' => LongHeard
    BY <1>0, <1>1 DEF LongHeard
  <2>2. LongListened' => LongListened
    BY <1>0, <1>1 DEF LongListened, Connected
  <2>3. LongHeard => LongHeard' \/ heartbeat_age'[primary] = 0
    BY <1>0, <1>1 DEF LongHeard
  <2>4. LongListened => LongListened' \/ connected_age' \in {0, NoTime}
    BY <1>0, <1>1 DEF LongListened, Connected
  <2> QED  BY <1>0, <1>1, <2>1, <2>2, <2>3, <2>4 DEF AgesStep
<1>2. CASE OnConnect \/ OnDisconnect
  BY <1>1, <1>2, CarTopicsConstants DEF OnConnect, OnDisconnect
<1>3. ASSUME NEW c \in Cars, NEW payload \in TriState, OnHealthy(c, payload)
      PROVE  AgesStep
  <2>1. healthy' = [healthy EXCEPT ![c] = payload] /\ handling' = c /\ handling = NoCar
    BY <1>3 DEF OnHealthy
  <2>2. healthy'[primary] = healthy[primary] \/ handling' = primary
    BY <1>0, <2>1 DEF CarTopicsTypeOK
  <2> QED  BY <1>1, <1>3, <2>1, <2>2, CarTopicsConstants DEF OnHealthy
<1>4. CASE OnHealthyStamped
  <2>1. /\ heartbeat_age' = [heartbeat_age EXCEPT ![handling] = 0]
        /\ UNCHANGED <<healthy, connected_age>>
    BY <1>4 DEF OnHealthyStamped
  <2>2. /\ heartbeat_age'[primary] \in {heartbeat_age[primary], 0}
        /\ handling = primary => heartbeat_age'[primary] = 0
    BY <1>0, <2>1 DEF CarTopicsTypeOK
  <2> QED  BY <1>1, <2>1, <2>2
<1>5. ASSUME NEW c \in Cars, NEW is_active \in BOOLEAN, OnState(c, is_active)
      PROVE  AgesStep
  BY <1>1, <1>5 DEF OnState
<1> QED  BY <1>2, <1>3, <1>4, <1>5 DEF PahoThread

\* The passing of time is an AgesStep: the cap of the ages is out of reach of a
\* limit for the whole of a call.
LEMMA TickAges ==
    ASSUME SilenceInv, SilenceInv', Tick, primary \in Cars, primary' = primary,
           call.at # "idle"
    PROVE  AgesStep
<1> USE Limits
<1>0. /\ CarTopicsTypeOK /\ CarTopicsTypeOK'
      /\ connected_age \in Age /\ heartbeat_age[primary] \in Age
      /\ PrimaryLimit \in Nat /\ PrimaryLimit' = PrimaryLimit
      /\ UNCHANGED <<healthy, handling>> /\ handling # primary
  BY CarTopicsConstants DEF SilenceInv, CarTopicsTypeOK, PrimaryLimit, Tick
<1>1. /\ call'.elapsed = call.elapsed + 1 /\ call'.elapsed \in 0..MaxCallTime
      /\ call.elapsed \in 0..MaxCallTime
  BY <1>0 DEF Tick, CarTopicsTypeOK, Call
<1>2. AgeCap > PrimaryLimit + MaxCallTime
  BY <1>0, CarTopicsConstants DEF AgeCap, Longer, PrimaryLimit, Limit
<1>3. /\ connected_age' = Older(connected_age)
      /\ heartbeat_age'[primary] = Older(heartbeat_age[primary])
  BY DEF Tick
<1>4. LongHeard' <=> LongHeard
  BY <1>0, <1>1, <1>2, <1>3 DEF LongHeard, Older, Age
<1>5. LongListened' <=> LongListened
  BY <1>0, <1>1, <1>2, <1>3 DEF LongListened, Connected, Older, Age
<1> QED  BY <1>0, <1>4, <1>5 DEF AgesStep

\* A step of the call that stays inside of it is an AgesStep: it only reads.
LEMMA LoopAges ==
    ASSUME SilenceInv, LoggerHealth, primary \in Cars, primary' = primary,
           call'.at # "idle"
    PROVE  /\ AgesStep
           /\ call'.elapsed = call.elapsed
           /\ LongHeard' <=> LongHeard
<1>0. UNCHANGED pahoVars /\ call \in Call
  BY DEF SilenceInv, LoggerHealth, CarTopicsTypeOK
<1>1. call'.elapsed = call.elapsed
  BY <1>0, Records DEF LoggerHealth, CopyCars, ScanCar, CheckHeard, ReadConnection, ReadHeartbeat,
     ReadState, ReadHealthy, Return, Call
<1>2. call.at = "copy" => handling # primary
  BY CarTopicsConstants DEF LoggerHealth, CopyCars, ScanCar, CheckHeard, ReadConnection,
     ReadHeartbeat, ReadState, ReadHealthy
<1>3. /\ LongHeard' <=> LongHeard
      /\ LongListened' <=> LongListened
  BY <1>0, <1>1 DEF LongHeard, LongListened, PrimaryLimit, Connected, pahoVars
<1> QED  BY <1>0, <1>1, <1>2, <1>3 DEF AgesStep, pahoVars

\* A message or the passing of time leaves what the call has read alone.
LEMMA ReadingStays ==
    ASSUME ReadingInv, AgesStep, primary' = primary,
           UNCHANGED <<call.at, call.selected, call.age, call.stale>>,
           seen.verdicts \subseteq seen'.verdicts, PrimaryLimit' = PrimaryLimit,
           WasFine => WasFine'
    PROVE  ReadingInv'
BY DEF ReadingInv, AgesStep

\* Each read of a call keeps what the moments say of the values read.
LEMMA ReadingStep ==
    ASSUME SilenceInv, SilenceInv', LoggerHealth, primary \in Cars, primary' = primary,
           call.at # "idle", call'.at # "idle", MomentsInv, ReadingInv,
           call'.elapsed = call.elapsed, LongHeard' <=> LongHeard,
           seen.verdicts \subseteq seen'.verdicts, PrimaryLimit' = PrimaryLimit,
           WasFine => WasFine'
    PROVE  ReadingInv'
<1> USE Limits
<1>0. /\ CarTopicsTypeOK /\ UNCHANGED pahoVars /\ call \in Call
      /\ call.elapsed \in 0..MaxCallTime /\ call.age \in (0 - MaxCallTime)..AgeCap
      /\ connected_age \in Age /\ heartbeat_age[primary] \in Age
      /\ PrimaryLimit \in Nat
      /\ call.at # "return" => call.stale = FALSE
  BY DEF SilenceInv, CarTopicsTypeOK, LoggerHealth, Call, PrimaryLimit
<1>1. CASE CopyCars \/ ScanCar
  <2>1. call'.at \in {"heard", "scan"} /\ call'.stale = call.stale /\ call.stale = FALSE
    BY <1>0, <1>1, Records DEF CopyCars, ScanCar, Return, Call
  <2> QED  BY <2>1 DEF ReadingInv
<1>2. CASE CheckHeard
  <2>1. /\ call.at = "heard" /\ call'.selected = call.selected
        /\ call'.stale = FALSE
        /\ call'.at = IF heartbeat_age[call.selected] = NoTime THEN "return" ELSE "connection"
    BY <1>0, <1>2 DEF CheckHeard, Call
  <2>2. call.selected = primary /\ heartbeat_age[call.selected] = NoTime => WasFine
    BY DEF MomentsInv, LongHeard
  <2> QED  BY <2>1, <2>2 DEF ReadingInv
<1>3. CASE ReadConnection
  <2>1. call.at = "connection" /\ call.stale = FALSE
    BY <1>0, <1>3 DEF ReadConnection
  <2>2. CASE ~Connected
    <3>1. call'.at = "return" /\ call'.stale = FALSE
      BY <1>0, <1>3, <2>1, <2>2 DEF ReadConnection, Call
    <3>2. WasFine
      BY <2>2 DEF MomentsInv, LongListened
    <3> QED  BY <3>1, <3>2 DEF ReadingInv
  <2>3. CASE Connected
    <3>1. /\ call'.at = "heartbeat" /\ call'.stale = FALSE
          /\ call'.age = connected_age - call.elapsed
      BY <1>0, <1>3, <2>1, <2>3 DEF ReadConnection, Call
    <3>2. call'.age > PrimaryLimit /\ LongHeard => TRUE \in seen.verdicts
      BY <2>1, <2>3, <3>1 DEF MomentsInv, LongListened
    <3>3. WasFine \/ call'.age > PrimaryLimit
      BY <3>1 DEF MomentsInv, LongListened
    <3> QED  BY <3>1, <3>2, <3>3 DEF ReadingInv
  <2> QED  BY <2>2, <2>3
<1>4. CASE ReadHeartbeat
  <2> DEFINE heard == heartbeat_age[call.selected] - call.elapsed
  <2>1. /\ call.at = "heartbeat" /\ call'.at = "state" /\ call'.stale = FALSE
        /\ call'.selected = call.selected /\ call'.age = Shorter(call.age, heard)
    BY <1>0, <1>4 DEF ReadHeartbeat, Call
  <2> SUFFICES ASSUME call.selected = primary PROVE ReadingInv'
    BY <2>1 DEF ReadingInv
  <2>2. heartbeat_age[primary] # NoTime
    BY <2>1 DEF SilenceInv
  <2>3. call'.age > PrimaryLimit <=> call.age > PrimaryLimit /\ LongHeard
    BY <1>0, <2>1, <2>2 DEF LongHeard, Shorter, Age
  <2>4. call'.age > PrimaryLimit => TRUE \in seen.verdicts
    BY <2>1, <2>3 DEF ReadingInv
  <2>5. WasFine \/ call'.age > PrimaryLimit
    BY <2>1, <2>3 DEF ReadingInv, MomentsInv
  <2> QED  BY <2>1, <2>4, <2>5 DEF ReadingInv
<1>5. CASE ReadState
  <2>1. call.at = "state" /\ call'.at = "return" /\ call'.selected = call.selected
    BY <1>0, <1>5 DEF ReadState, Call
  <2> SUFFICES ASSUME call.selected = primary PROVE ReadingInv'
    BY <2>1 DEF ReadingInv
  <2>2. call'.stale <=> call.age > PrimaryLimit
    BY <1>0, <1>5 DEF ReadState, Call, PrimaryLimit
  <2> QED  BY <2>1, <2>2 DEF ReadingInv
<1>6. CASE ReadHealthy
  BY <1>6, Records DEF ReadHealthy, Return
<1> QED  BY <1>1, <1>2, <1>3, <1>4, <1>5, <1>6 DEF LoggerHealth

\* The first moment of a call is one of its moments.
LEMMA BeginAtomic ==
    ASSUME SilenceInv, SilenceInv', AtomicInv, Begin, UNCHANGED pahoVars, NoteMoment
    PROVE  AtomicInv'
<1> USE Limits
<1>0. /\ CarTopicsTypeOK /\ call.at = "idle" /\ seen = NothingSeen
      /\ call' = Fresh("copy") /\ call'.at = "copy" /\ call'.elapsed = 0
      /\ call'.stale = FALSE /\ UNCHANGED pahoVars
  BY Records DEF SilenceInv, AtomicInv, Begin
<1> SUFFICES ASSUME primary' \in Cars PROVE MomentsInv' /\ ReadingInv'
  BY <1>0 DEF AtomicInv
<1>1. /\ seen'.verdicts = {AtomicVerdict'} /\ primary' = primary
      /\ primary \in Cars /\ primary # NoCar
  BY <1>0, MomentNoted, CarTopicsConstants DEF NothingSeen
<1>2. /\ connected_age' \in Age /\ heartbeat_age'[primary] \in Age
      /\ PrimaryLimit' \in Nat
  BY <1>0, <1>1 DEF CarTopicsTypeOK, pahoVars, PrimaryLimit
<1>3. AtomicVerdict' = (healthy'[primary] = "false"
                        \/ (handling' # primary /\ Stale(primary)'))
  BY <1>1, Zenon DEF AtomicVerdict, Unhealthy
<1>4. Stale(primary)' <=> LongListened' /\ LongHeard'
  BY <1>0, <1>1, <1>2
     DEF Stale, Silence, Shorter, LongListened, LongHeard, Connected, PrimaryLimit, Age
<1>5. CASE AtomicVerdict' = TRUE
  <2>1. WasFine' \/ (LongListened' /\ LongHeard' /\ handling' # primary')
    BY <1>1, <1>3, <1>4, <1>5 DEF WasFine
  <2> QED  BY <1>0, <1>1, <1>5, <2>1 DEF MomentsInv, ReadingInv
<1>6. CASE AtomicVerdict' = FALSE
  <2>1. WasFine'
    BY <1>1, <1>6 DEF WasFine
  <2>2. ~((call'.at = "copy" => handling' # primary') /\ LongListened' /\ LongHeard')
    BY <1>0, <1>1, <1>3, <1>4, <1>6
  <2> QED  BY <1>0, <1>1, <2>1, <2>2 DEF MomentsInv, ReadingInv
<1> QED  BY <1>3, <1>5, <1>6

\* AtomicInv is an invariant.
LEMMA AtomicInvariant ==
    Spec => []AtomicInv
<1>1. Init => AtomicInv
  BY Records DEF Init, AtomicInv
<1>2. SilenceInv /\ SilenceInv' /\ AtomicInv /\ [Next]_vars => AtomicInv'
  <2> SUFFICES ASSUME SilenceInv, SilenceInv', AtomicInv, [Next]_vars PROVE AtomicInv'
    OBVIOUS
  <2>1. ASSUME NoteMoment, call'.at = "idle"
        PROVE  AtomicInv'
    BY <2>1 DEF NoteMoment, AtomicInv
  \* Inside of a call, about the primary car.
  <2>2. ASSUME NoteMoment, call.at # "idle", call'.at # "idle", primary \in Cars,
               ~seen'.state_came
        PROVE  /\ primary' = primary /\ active' = active
               /\ MomentsInv /\ ReadingInv
    BY <2>2, MomentNoted DEF SilenceInv, AtomicInv
  <2>3. ASSUME NoteMoment, call.at # "idle", call'.at # "idle",
               primary \in Cars /\ ~seen'.state_came => MomentsInv' /\ ReadingInv'
        PROVE  AtomicInv'
    BY <2>3, MomentNoted DEF SilenceInv, AtomicInv
  <2>4. CASE PahoThread /\ NoteMoment
    <3>1. call' = call
      BY <2>4 DEF PahoThread, loopVars
    <3>2. ASSUME call.at # "idle", primary \in Cars, ~seen'.state_came
          PROVE  MomentsInv' /\ ReadingInv'
      <4>1. AgesStep
        BY <2>2, <2>4, <3>1, <3>2, PahoAges
      <4> QED  BY <2>2, <2>4, <3>1, <3>2, <4>1, MomentsStep, ReadingStays
    <3> QED  BY <2>1, <2>3, <2>4, <3>1, <3>2
  <2>5. CASE Begin /\ UNCHANGED pahoVars /\ NoteMoment
    BY <2>5, BeginAtomic
  <2>6. CASE LoggerHealth /\ NoteMoment
    <3>1. call.at # "idle"
      BY <2>6 DEF LoggerHealth, CopyCars, ScanCar, CheckHeard, ReadConnection, ReadHeartbeat,
                  ReadState, ReadHealthy
    <3>2. ASSUME call'.at # "idle", primary \in Cars, ~seen'.state_came
          PROVE  MomentsInv' /\ ReadingInv'
      <4>1. AgesStep /\ call'.elapsed = call.elapsed /\ (LongHeard' <=> LongHeard)
        BY <2>2, <2>6, <3>1, <3>2, LoopAges
      <4> QED  BY <2>2, <2>6, <3>1, <3>2, <4>1, MomentsStep, ReadingStep
    <3> QED  BY <2>1, <2>3, <2>6, <3>1, <3>2
  <2>7. CASE Tick /\ NoteMoment
    <3>1. UNCHANGED <<call.at, call.selected, call.age, call.stale>>
      BY <2>7 DEF Tick, SilenceInv, CarTopicsTypeOK, Call
    <3>2. ASSUME call.at # "idle", primary \in Cars, ~seen'.state_came
          PROVE  MomentsInv' /\ ReadingInv'
      <4>1. AgesStep
        BY <2>2, <2>7, <3>1, <3>2, TickAges
      <4> QED  BY <2>2, <2>7, <3>1, <3>2, <4>1, MomentsStep, ReadingStays
    <3> QED  BY <2>1, <2>3, <2>7, <3>1, <3>2
  <2>8. CASE UNCHANGED vars
    BY <2>8 DEF vars, pahoVars, loopVars, AtomicInv, MomentsInv, ReadingInv, WasFine,
                LongHeard, LongListened, PrimaryLimit, Connected, AtomicVerdict, Stale, Silence
  <2> QED  BY <2>4, <2>5, <2>6, <2>7, <2>8 DEF Next
<1> QED  BY <1>1, <1>2, SilenceInvariant, PTL DEF Spec

\* The reads of one call of logger_health() are not torn, though messages, lost
\* and new connections and time come between them: what it says of the primary
\* car is what one moment of the call would have said, unless the state of a
\* car, by which the limit is chosen, arrived meanwhile.
THEOREM VerdictIsThatOfAMoment == Spec => VerdictIsAtomic
<1>1. SilenceInv /\ AtomicInv /\ [Next]_vars =>
          (/\ call.at = "return" /\ call'.at = "idle"
           /\ answer'.car = primary
           /\ ~seen.state_came
           => Unhealthy(answer'.healthy, answer'.stale) \in seen.verdicts)
  <2> SUFFICES ASSUME SilenceInv, AtomicInv, [Next]_vars,
                      call.at = "return", call'.at = "idle",
                      answer'.car = primary, ~seen.state_came
               PROVE  Unhealthy(answer'.healthy, answer'.stale) \in seen.verdicts
    OBVIOUS
  <2>1. ReadHealthy
    <3>1. call'.at # call.at
      OBVIOUS
    <3> QED
      BY <3>1 DEF Next, vars, PahoThread, loopVars, Begin, LoggerHealth, CopyCars, ScanCar,
         CheckHeard, ReadConnection, ReadHeartbeat, ReadState, Tick, SilenceInv,
         CarTopicsTypeOK, Call
  <2>2. /\ answer'.car = call.selected /\ answer'.healthy = healthy[call.selected]
        /\ answer'.stale = call.stale
    BY <2>1, Zenon DEF ReadHealthy, Return
  <2>3. call.selected = primary /\ primary \in Cars /\ primary # NoCar
    BY <2>2, CarTopicsConstants DEF SilenceInv
  <2>4. MomentsInv /\ ReadingInv
    BY <2>3 DEF AtomicInv
  <2>5. call.stale \in BOOLEAN
    BY DEF SilenceInv, CarTopicsTypeOK, Call
  <2>6. Unhealthy(answer'.healthy, answer'.stale)
            = (healthy[primary] = "false" \/ call.stale)
    BY <2>2, <2>3, Zenon DEF Unhealthy
  <2>7. CASE healthy[primary] = "false"
    <3>1. AtomicVerdict = TRUE
      BY <2>3, <2>7, Zenon DEF AtomicVerdict, Unhealthy
    <3> QED  BY <2>4, <2>6, <2>7, <3>1 DEF MomentsInv
  <2>8. CASE healthy[primary] # "false" /\ call.stale = TRUE
    BY <2>3, <2>4, <2>6, <2>8 DEF ReadingInv
  <2>9. CASE healthy[primary] # "false" /\ call.stale = FALSE
    <3>1. FALSE \in seen.verdicts
      BY <2>3, <2>4, <2>9 DEF ReadingInv, WasFine
    <3> QED  BY <2>6, <2>9, <3>1
  <2> QED  BY <2>5, <2>7, <2>8, <2>9
<1> QED  BY <1>1, SilenceInvariant, AtomicInvariant, PTL DEF Spec, VerdictIsAtomic
=============================================================================

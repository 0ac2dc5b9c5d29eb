-------------------------- MODULE DeploymentProofs --------------------------
(***************************************************************************)
(* Proofs about Deployment: the watchdog is deployed as it is specified,   *)
(* so all that is proved of Watchdog holds in the deployment, and what it  *)
(* restarts TeslaMate for was the case, and no outage, at some moment of   *)
(* the check, however the world behaves and for every configuration.       *)
(***************************************************************************)
EXTENDS Deployment, WatchdogProofs

\* The world keeps its types, and with them every check is an observation.
WorldTypeOK ==
    /\ teslamate \in Condition
    /\ database \in DatabaseCondition
    /\ docker \in DockerCondition
    /\ {tesla_auth_up, tokens_valid, due} \subseteq BOOLEAN
    /\ signed_out_age \in 0..OutOfWindow
    /\ heard \in TriState /\ silence \in 0..(MQTT_STALE_SECONDS + 1)
    /\ stage \in Stage /\ view \in Observation
    /\ disturbances \in 0..MaxDisturbances
    /\ seen \subseteq Condition \cup {"accepting"}
    /\ accepting_checks \in 0..DATABASE_CONFIRMATION_COUNT

-----------------------------------------------------------------------------
(* What a check can report.                                                *)

\* Every line of the log raises one of the signals evaluate() knows.
LEMMA SignalsType ==
    ASSUME NEW counts
    PROVE  Signals(counts) \subseteq LogSignal
<1>1. DOMAIN Signal = {"auth_lost", "refresh_failure", "database_failure",
                       "token_decryption", "refresh_success"}
  BY DEF Signal
<1>2. ASSUME NEW category \in DOMAIN Signal PROVE Signal[category] \in LogSignal
  BY <1>1, <1>2 DEF Signal, LogSignal
<1>. QED
  BY <1>2 DEF Signals

\* The page a check was served, or the failure to get one, was TeslaMate's at
\* one of the moments.
PageOf(http, moments) ==
    /\ http = "logged_out" => "signed_out" \in moments
    /\ http \in {"unreachable", "application_error"} =>
           moments \cap {"failing", "flapping", "hung", "stopped"} # {}

\* The category of each answer a TeslaMate may give.
LEMMA OutcomesAre ==
    ASSUME teslamate \in Condition, NEW outcome \in Outcomes
    PROVE  HttpCheck(outcome) \in HttpCategory /\ PageOf(HttpCheck(outcome), Facts)
<1>1. outcome = Served => HttpCheck(outcome) = "authenticated"
  BY BodyIsRead DEF Served, HttpCheck, Answer, Classify, SigninMarker
<1>2. outcome = ServerError => HttpCheck(outcome) = "application_error"
  BY DEF ServerError, HttpCheck, Answer, Classify
<1>3. outcome \in {Answer(302, "sign_in", <<>>), Answer(200, "elsewhere", <<"marker">>)}
      => HttpCheck(outcome) = "logged_out"
  <2>1. outcome = Answer(302, "sign_in", <<>>) => HttpCheck(outcome) = "logged_out"
    BY DEF HttpCheck, Answer, Classify
  <2>2. outcome = Answer(200, "elsewhere", <<"marker">>)
        => HttpCheck(outcome) = "logged_out"
    BY BodyIsRead DEF HttpCheck, Answer, Classify, SigninMarker
  <2>. QED
    BY <2>1, <2>2
<1>4. outcome \in {Answer(302, "elsewhere", <<>>), Answer(404, "elsewhere", <<"plain">>),
                   NoAnswer("other_error")}
      => HttpCheck(outcome) = "unknown"
  BY DEF HttpCheck, Answer, NoAnswer, Classify
<1>5. outcome = NoAnswer("connection_error") => HttpCheck(outcome) = "unreachable"
  BY DEF HttpCheck, Answer, NoAnswer
<1>6. teslamate \in Facts
  BY DEF Facts
<1>. HIDE DEF Facts, Answer, NoAnswer, Served, ServerError, HttpCheck
<1>7. CASE teslamate \in {"serving", "logger_dead", "logger_failing"}
  BY <1>1, <1>7 DEF Outcomes, HttpCategory, PageOf
<1>8. CASE teslamate = "signed_out"
  BY <1>3, <1>6, <1>8 DEF Outcomes, HttpCategory, PageOf
<1>9. CASE teslamate \in {"failing", "flapping"}
  BY <1>1, <1>2, <1>6, <1>9 DEF Outcomes, HttpCategory, PageOf
<1>10. CASE teslamate = "odd"
  BY <1>4, <1>10 DEF Outcomes, HttpCategory, PageOf
<1>11. CASE teslamate \in {"hung", "stopped"}
  BY <1>5, <1>6, <1>11 DEF Outcomes, HttpCategory, PageOf
<1>. QED
  BY <1>7, <1>8, <1>9, <1>10, <1>11 DEF Condition

\* What the inspections of the containers are known to say.
LEMMA InspectionsAre ==
    /\ ContainerRunning \in TriState
    /\ DatabaseHealthy \in TriState
    /\ ContainerRunning = "false" => teslamate = "stopped"
    /\ DatabaseHealthy = "true" => Accepting
BY DEF ContainerRunning, DatabaseHealthy, Accepting, TriState

\* The observation a check ends with, and all it gathers on the way, is one.
LEMMA ViewsAreObservations ==
    ASSUME WorldTypeOK
    PROVE  /\ NoView \in Observation
           /\ [view EXCEPT !.teslamate_container_running = ContainerRunning,
                           !.database_healthy = DatabaseHealthy] \in Observation
           /\ [view EXCEPT !.log_signals = LogSignals] \in Observation
           /\ \A outcome \in Outcomes :
                  [NoView EXCEPT !.http = HttpCheck(outcome),
                                 !.logger_healthy = heard,
                                 !.logger_stale = LoggerStale] \in Observation
<1>1. NoView \in Observation
  BY DEF NoView, Observation, HttpCategory, TriState
<1>2. LoggerStale \in BOOLEAN /\ heard \in TriState /\ view \in Observation
  BY DEF LoggerStale, WorldTypeOK
<1>3. LogSignals \in SUBSET LogSignal
  BY SignalsType DEF LogSignals
<1>4. \A outcome \in Outcomes : HttpCheck(outcome) \in HttpCategory
  BY OutcomesAre DEF WorldTypeOK
<1>. HIDE DEF NoView, LoggerStale, LogSignals
<1>. QED
  BY <1>1, <1>2, <1>3, <1>4, InspectionsAre DEF Observation

-----------------------------------------------------------------------------
(* The deployment runs the watchdog.                                       *)

\* The world begins with its types.
LEMMA WorldInit == DeploymentInit => WorldTypeOK
<1>1. NoView \in Observation
  BY DEF NoView, Observation, HttpCategory, TriState
<1>. QED
  BY <1>1, DeploymentConstants, RestartConstants
  DEF DeploymentInit, WorldTypeOK, Condition, DatabaseCondition, DockerCondition,
      OutOfWindow, TriState, Stage

\* No step of a check leaves the types of the world.
LEMMA CheckStep ==
    ASSUME WorldTypeOK, CheckWorld
    PROVE  WorldTypeOK'
<1>1. CASE AskTeslaMate
  BY <1>1, ViewsAreObservations
  DEF AskTeslaMate, worldVars, loggerVars, WorldTypeOK, Stage, Facts
<1>2. CASE InspectContainers
  BY <1>2, ViewsAreObservations
  DEF InspectContainers, worldVars, loggerVars, WorldTypeOK, Stage
<1>3. CASE ReadLog
  <2>1. accepting_checks' \in 0..DATABASE_CONFIRMATION_COUNT
    BY <1>3, RestartConstants DEF ReadLog, WorldTypeOK
  <2>. QED
    BY <1>3, <2>1, ViewsAreObservations
    DEF ReadLog, worldVars, loggerVars, WorldTypeOK, Stage
<1>4. CASE Decide
  BY <1>4 DEF Decide, worldVars, loggerVars, WorldTypeOK
<1>. QED
  BY <1>1, <1>2, <1>3, <1>4 DEF CheckWorld

\* Nor does a change of the world or the recreation of the watchdog.
LEMMA DisturbanceStep ==
    ASSUME WorldTypeOK, Disturbance
    PROVE  WorldTypeOK'
<1>1. disturbances' \in 0..MaxDisturbances
  BY DeploymentConstants DEF Disturbance, WorldTypeOK
<1>2. CASE WorldChanges
  <2>1. /\ teslamate' \in Condition /\ database' \in DatabaseCondition
        /\ docker' \in DockerCondition
        /\ {tesla_auth_up', tokens_valid'} \subseteq BOOLEAN
        /\ signed_out_age' \in 0..OutOfWindow
    <3>1. CASE TeslaMateChanges
      BY <3>1, DeploymentConstants DEF TeslaMateChanges, WorldTypeOK, OutOfWindow
    <3>2. CASE DatabaseChanges
      BY <3>2 DEF DatabaseChanges, WorldTypeOK
    <3>3. CASE DockerChanges
      BY <3>3 DEF DockerChanges, WorldTypeOK
    <3>4. CASE NetworkChanges \/ TokensRevoked
      BY <3>4 DEF NetworkChanges, TokensRevoked, WorldTypeOK
    <3>. QED
      BY <1>2, <3>1, <3>2, <3>3, <3>4 DEF WorldChanges
  <2>2. /\ seen' \subseteq Condition \cup {"accepting"}
        /\ UNCHANGED <<loggerVars, due, stage, view, accepting_checks>>
    BY <1>2, <2>1 DEF WorldChanges, Facts, WorldTypeOK
  <2>. QED
    BY <1>1, <2>1, <2>2 DEF loggerVars, WorldTypeOK
<1>3. CASE RecreateWatchdog
  <2>1. /\ heard' = "unknown" /\ silence' = 0 /\ due' = TRUE /\ stage' = "idle"
        /\ seen' = {} /\ accepting_checks' = 0 /\ view' = NoView
        /\ UNCHANGED worldVars
    BY <1>3 DEF RecreateWatchdog
  <2>2. 0 \in 0..(MQTT_STALE_SECONDS + 1) /\ 0 \in 0..DATABASE_CONFIRMATION_COUNT
    BY DeploymentConstants, RestartConstants
  <2>3. view' \in Observation
    BY <2>1, ViewsAreObservations
  <2>. QED
    BY <1>1, <2>1, <2>2, <2>3 DEF worldVars, WorldTypeOK, TriState, Stage
<1>. QED
  BY <1>2, <1>3 DEF Disturbance

\* No step of the watchdog or of the world leaves the types of the world.
LEMMA WorldStep ==
    ASSUME WorldTypeOK, [DeploymentNext]_deploymentVars
    PROVE  WorldTypeOK'
<1>1. CASE RestartWorld
  <2>1. UNCHANGED <<teslamate, signed_out_age>> \/ RestartTeslaMate
    BY <1>1 DEF RestartWorld
  <2>2. teslamate' \in Condition /\ signed_out_age' \in 0..OutOfWindow
    BY <2>1, DeploymentConstants DEF RestartTeslaMate, WorldTypeOK, Condition, OutOfWindow
  <2>. QED
    BY <1>1, <2>2 DEF RestartWorld, loggerVars, checkVars, WorldTypeOK
<1>2. CASE NextInterval
  <2>1. heard' \in TriState /\ silence' \in 0..(MQTT_STALE_SECONDS + 1)
    BY <1>2, DeploymentConstants DEF NextInterval, Heartbeat, WorldTypeOK, TriState
  <2>. QED
    BY <1>2, <2>1, DeploymentConstants DEF NextInterval, WorldTypeOK, OutOfWindow
<1>3. CASE UNCHANGED deploymentVars
  BY <1>3 DEF deploymentVars, worldVars, loggerVars, checkVars, WorldTypeOK
<1>. QED
  BY <1>1, <1>2, <1>3, CheckStep, DisturbanceStep DEF DeploymentNext, WatchdogStep

\* Every step of the deployment is one of the watchdog, or none.
LEMMA WatchdogRuns ==
    ASSUME Observation \subseteq Observations, WorldTypeOK, [DeploymentNext]_deploymentVars
    PROVE  [Next]_vars
<1>1. CASE AskTeslaMate \/ InspectContainers
  BY <1>1 DEF AskTeslaMate, InspectContainers
<1>2. CASE ReadLog
  <2>1. [view EXCEPT !.log_signals = LogSignals] \in Observations
    BY ViewsAreObservations
  <2>. QED
    BY <1>2, <2>1 DEF ReadLog, CheckOnce, Next
<1>3. CASE Decide
  <2>1. tesla_auth_up \in BOOLEAN
    BY DEF WorldTypeOK
  <2>. QED
    BY <1>3, <2>1 DEF Decide, CheckOnce, Next
<1>4. CASE RestartWorld
  BY <1>4 DEF RestartWorld, RestartReturns, Next
<1>5. CASE NextInterval
  BY <1>5 DEF NextInterval, Next
<1>6. CASE Disturbance
  BY <1>6 DEF Disturbance, WorldChanges, RecreateWatchdog, Next
<1>7. CASE UNCHANGED deploymentVars
  BY <1>7 DEF deploymentVars
<1>. QED
  BY <1>1, <1>2, <1>3, <1>4, <1>5, <1>6, <1>7 DEF DeploymentNext, WatchdogStep, CheckWorld

\* The deployment implements the watchdog's own specification, so all its
\* theorems hold in a world that breaks and is repaired.
THEOREM DeploymentIsWatchdog ==
    ASSUME Observation \subseteq Observations
    PROVE  DeploymentSpec => Spec
<1>1. DeploymentInit => Init /\ WorldTypeOK
  BY WorldInit DEF DeploymentInit
<1>2. WorldTypeOK /\ [DeploymentNext]_deploymentVars => WorldTypeOK' /\ [Next]_vars
  BY WorldStep, WatchdogRuns
<1>. QED
  BY <1>1, <1>2, PTL DEF DeploymentSpec, Spec

\* Watchdog and world keep their types, however many disturbances there are.
THEOREM DeploymentTypeCorrect ==
    ASSUME Observation \subseteq Observations
    PROVE  DeploymentSpec => []DeploymentTypeOK
<1>1. WorldTypeOK /\ [DeploymentNext]_deploymentVars => WorldTypeOK'
  BY WorldStep
<1>2. WatchdogTypeOK /\ WorldTypeOK => DeploymentTypeOK
  BY DEF DeploymentTypeOK, WorldTypeOK
<1>. QED
  BY WorldInit, <1>1, <1>2, DeploymentIsWatchdog, WatchdogTypeCorrect, PTL DEF DeploymentSpec

-----------------------------------------------------------------------------
(* No restart into an outage.                                              *)

\* The containers were as an inspection says at one of the moments.
ContainersOf(obs, moments) ==
    /\ obs.database_healthy = "true" => "accepting" \in moments
    /\ obs.teslamate_container_running = "false" => "stopped" \in moments

\* What a check has gathered was the case at some moment since it began; the
\* streak of the guard stands for checks during which the database accepted
\* connections; and no check goes on while a restart is in flight.
CheckInv ==
    /\ database_healthy_streak <= accepting_checks
    /\ Checking => Facts \subseteq seen
    /\ stage # "idle" => PageOf(view.http, seen)
    /\ stage = "inspected" => ContainersOf(view, seen)
    /\ \A obs \in observed : PageOf(obs.http, seen) /\ ContainersOf(obs, seen)
    /\ observed # {} \/ in_flight # {} => stage = "idle"

\* What is gathered stays explained as more moments are added.
LEMMA MomentsGrow ==
    ASSUME NEW obs, NEW before, NEW after, before \subseteq after
    PROVE  /\ PageOf(obs.http, before) => PageOf(obs.http, after)
           /\ ContainersOf(obs, before) => ContainersOf(obs, after)
BY DEF PageOf, ContainersOf

\* The steps of a check note what they find while it is the case.
LEMMA GatheringKeeps ==
    ASSUME WorldTypeOK, WatchdogInv, CheckInv, CheckWorld
    PROVE  CheckInv'
<1>1. CASE AskTeslaMate
  <2>1. PICK outcome \in Outcomes :
            view' = [NoView EXCEPT !.http = HttpCheck(outcome), !.logger_healthy = heard,
                                   !.logger_stale = LoggerStale]
    BY <1>1 DEF AskTeslaMate
  <2>2. view'.http = HttpCheck(outcome)
    BY <2>1 DEF NoView
  <2>3. /\ stage' = "asked" /\ seen' = Facts /\ Facts' = Facts
        /\ observed' = {} /\ in_flight' = {}
        /\ UNCHANGED <<database_healthy_streak, accepting_checks>>
    BY <1>1 DEF AskTeslaMate, Checking, worldVars, vars, recoveryVars, Facts, Accepting
  <2>4. PageOf(view'.http, seen')
    BY <2>2, <2>3, OutcomesAre DEF WorldTypeOK
  <2>. QED
    BY <2>3, <2>4 DEF CheckInv
<1>2. CASE InspectContainers
  <2>1. /\ stage = "asked" /\ stage' = "inspected" /\ seen' = seen /\ Facts' = Facts
        /\ UNCHANGED <<observed, in_flight, database_healthy_streak, accepting_checks>>
    BY <1>2 DEF InspectContainers, worldVars, vars, recoveryVars, Facts, Accepting
  <2>2. /\ view'.http = view.http
        /\ view'.database_healthy = DatabaseHealthy
        /\ view'.teslamate_container_running = ContainerRunning
    BY <1>2 DEF InspectContainers, WorldTypeOK, Observation
  <2>3. Facts \subseteq seen
    BY <2>1 DEF CheckInv, Checking
  <2>4. ContainersOf(view, seen)'
    BY <2>1, <2>2, <2>3, InspectionsAre DEF ContainersOf, Facts
  <2>. QED
    BY <2>1, <2>2, <2>3, <2>4 DEF CheckInv
<1>3. CASE ReadLog
  <2>. DEFINE obs == [view EXCEPT !.log_signals = LogSignals]
  <2>1. /\ stage = "inspected" /\ stage' = "idle" /\ seen' = seen /\ Facts' = Facts
        /\ observed' = {obs} /\ CountDatabase(obs) /\ in_flight' = in_flight
    BY <1>3 DEF ReadLog, Observe, worldVars, recoveryVars, Facts, Accepting
  <2>2. /\ obs.http = view.http
        /\ obs.database_healthy = view.database_healthy
        /\ obs.teslamate_container_running = view.teslamate_container_running
    BY DEF WorldTypeOK, Observation
  <2>. HIDE DEF obs
  <2>3. PageOf(obs.http, seen) /\ ContainersOf(obs, seen) /\ Facts \subseteq seen
    BY <2>1, <2>2 DEF CheckInv, Checking, ContainersOf
  <2>4. database_healthy_streak' <= accepting_checks'
    <3>1. /\ database_healthy_streak \in Nat /\ accepting_checks \in Nat
          /\ accepting_checks <= DATABASE_CONFIRMATION_COUNT
          /\ DATABASE_CONFIRMATION_COUNT \in Nat
      BY RestartConstants DEF WatchdogInv, WatchdogTypeOK, WorldTypeOK
    <3>2. CASE obs.database_healthy = "true"
      <4>1. accepting_checks' = IF accepting_checks < DATABASE_CONFIRMATION_COUNT
                                THEN accepting_checks + 1 ELSE accepting_checks
        BY <1>3, <2>3, <3>2 DEF ReadLog, ContainersOf
      <4>. QED
        BY <2>1, <3>1, <3>2, <4>1 DEF CountDatabase, CheckInv
    <3>3. CASE obs.database_healthy # "true"
      <4>1. accepting_checks' \in Nat
        BY <1>3, <3>1 DEF ReadLog
      <4>. QED
        BY <2>1, <3>3, <4>1 DEF CountDatabase
    <3>. QED
      BY <3>2, <3>3
  <2>. QED
    BY <2>1, <2>3, <2>4 DEF CheckInv
<1>4. CASE Decide
  <2>1. /\ observed # {} /\ observed' = {} /\ stage' = stage
        /\ UNCHANGED <<database_healthy_streak, accepting_checks>>
    BY <1>4 DEF Decide, Cycle, WaitCycle, ConfirmCycle
  <2>2. stage' = "idle"
    BY <2>1 DEF CheckInv
  <2>. QED
    BY <2>1, <2>2 DEF CheckInv, Checking
<1>. QED
  BY <1>1, <1>2, <1>3, <1>4 DEF CheckWorld

\* Whatever the world does during a check is noted as it happens.
LEMMA CheckInvStep ==
    ASSUME WorldTypeOK, WatchdogInv, CheckInv, [DeploymentNext]_deploymentVars
    PROVE  CheckInv'
<1>1. CASE RestartWorld
  <2>1. /\ in_flight # {} /\ in_flight' = {} /\ observed' = observed
        /\ UNCHANGED <<stage, database_healthy_streak, accepting_checks>>
    BY <1>1 DEF RestartWorld, RestartSucceeds, RestartFails, checkVars
  <2>2. observed = {} /\ stage = "idle"
    BY <2>1 DEF WatchdogInv, ProgressIsEvidence, CheckInv
  <2>. QED
    BY <2>1, <2>2 DEF CheckInv, Checking
<1>2. CASE NextInterval \/ UNCHANGED deploymentVars
  <2>1. /\ Facts' = Facts
        /\ UNCHANGED <<stage, view, seen, observed, in_flight, database_healthy_streak,
                       accepting_checks>>
    BY <1>2
    DEF NextInterval, Tick, deploymentVars, vars, worldVars, checkVars, recoveryVars,
        Facts, Accepting
  <2>. QED
    BY <2>1 DEF CheckInv, Checking
<1>3. CASE Disturbance /\ WorldChanges
  <2>1. /\ UNCHANGED <<stage, view, observed, in_flight, database_healthy_streak,
                       accepting_checks>>
        /\ seen' = IF Checking THEN seen \cup Facts' ELSE {}
    BY <1>3 DEF WorldChanges, vars, recoveryVars
  <2>2. CASE Checking
    <3>1. seen \subseteq seen' /\ Facts' \subseteq seen'
      BY <2>1, <2>2
    <3>2. stage # "idle" => PageOf(view.http, seen')
      BY <3>1, MomentsGrow DEF CheckInv
    <3>3. stage = "inspected" => ContainersOf(view, seen')
      BY <3>1, MomentsGrow DEF CheckInv
    <3>4. \A obs \in observed : PageOf(obs.http, seen') /\ ContainersOf(obs, seen')
      BY <3>1, MomentsGrow DEF CheckInv
    <3>. QED
      BY <2>1, <3>1, <3>2, <3>3, <3>4 DEF CheckInv
  <2>3. CASE ~Checking
    BY <2>1, <2>3 DEF CheckInv, Checking
  <2>. QED
    BY <2>2, <2>3
<1>4. CASE Disturbance /\ RecreateWatchdog
  <2>1. /\ stage' = "idle" /\ observed' = {}
        /\ database_healthy_streak' = 0 /\ accepting_checks' = 0
    BY <1>4 DEF RecreateWatchdog, Recreate
  <2>. QED
    BY <2>1 DEF CheckInv, Checking
<1>. QED
  BY <1>1, <1>2, <1>3, <1>4, GatheringKeeps DEF DeploymentNext, WatchdogStep, Disturbance

\* A restart is started by the last step of a check, and for a verdict that rests
\* on what this check has seen.
LEMMA RestartSeesWorld ==
    ASSUME WorldTypeOK, WatchdogInv, WatchdogInv', CheckInv,
           [DeploymentNext]_deploymentVars, in_flight = {}, in_flight' # {}
    PROVE  /\ accepting_checks >= DATABASE_CONFIRMATION_COUNT
           /\ state' = "LOGGED_OUT" => tesla_auth_up /\ "signed_out" \in seen
           /\ state' = "TESLAMATE_UNREACHABLE" =>
                  seen \cap {"failing", "flapping", "hung", "stopped"} # {}
<1>1. PICK obs \in observed : Cycle(obs, tesla_auth_up)
  BY DEF DeploymentNext, WatchdogStep, CheckWorld, AskTeslaMate, InspectContainers,
         ReadLog, Observe, Decide, WaitCycle, ConfirmCycle, RestartWorld, RestartSucceeds,
         RestartFails, NextInterval, Tick, Disturbance, WorldChanges, RecreateWatchdog,
         Recreate, vars, recoveryVars, deploymentVars
<1>2. /\ in_flight' = {obs}
      /\ RestartAllowed(state', database_healthy_streak, tesla_auth_up)
  BY <1>1 DEF Cycle, OnTransition
<1>3. state' = Evaluate(obs).state
  BY <1>2 DEF WatchdogInv, RestartJustified
<1>4. PageOf(obs.http, seen) /\ ContainersOf(obs, seen)
  BY DEF CheckInv
<1>5. accepting_checks >= DATABASE_CONFIRMATION_COUNT
  <2>1. database_healthy_streak >= DATABASE_CONFIRMATION_COUNT
    BY <1>2 DEF RestartAllowed
  <2>2. /\ database_healthy_streak \in Nat /\ accepting_checks \in Nat
        /\ DATABASE_CONFIRMATION_COUNT \in Nat
    BY RestartConstants DEF WatchdogInv, WatchdogTypeOK, WorldTypeOK
  <2>. QED
    BY <2>1, <2>2 DEF CheckInv
<1>6. ASSUME state' = "LOGGED_OUT" PROVE tesla_auth_up /\ "signed_out" \in seen
  <2>1. obs.http = "logged_out"
    BY <1>3, <1>6 DEF Evaluate, Conclude
  <2>. QED
    BY <1>2, <1>4, <1>6, <2>1 DEF PageOf, RestartAllowed, RESTART_NEEDS_TESLA_AUTH
<1>7. ASSUME state' = "TESLAMATE_UNREACHABLE"
      PROVE  seen \cap {"failing", "flapping", "hung", "stopped"} # {}
  <2>1. \/ obs.http \in {"unreachable", "application_error"}
        \/ obs.teslamate_container_running = "false"
    BY <1>3, <1>7 DEF Evaluate, Conclude
  <2>. QED
    BY <1>4, <2>1 DEF PageOf, ContainersOf
<1>. QED
  BY <1>5, <1>6, <1>7

\* An outage that lasts from the beginning of a check until the guard is asked
\* keeps it from restarting, and every restart is for a failure TeslaMate had
\* during the check, in any configuration and any world.
THEOREM RestartsHelp ==
    ASSUME Observation \subseteq Observations
    PROVE  DeploymentSpec => RestartNotIntoOutage
<1>1. DeploymentInit => CheckInv
  BY DEF DeploymentInit, Init, CheckInv, Checking
<1>2. WorldTypeOK /\ WatchdogInv /\ CheckInv /\ [DeploymentNext]_deploymentVars
      => WorldTypeOK' /\ CheckInv'
  BY WorldStep, CheckInvStep
<1>3. /\ WorldTypeOK /\ WatchdogInv /\ WatchdogInv' /\ CheckInv
      /\ [DeploymentNext]_deploymentVars
      => [in_flight = {} /\ in_flight' # {} =>
              /\ accepting_checks >= DATABASE_CONFIRMATION_COUNT
              /\ state' = "LOGGED_OUT" => tesla_auth_up /\ "signed_out" \in seen
              /\ state' = "TESLAMATE_UNREACHABLE" =>
                     seen \cap {"failing", "flapping", "hung", "stopped"} # {}
         ]_deploymentVars
  BY RestartSeesWorld
<1>. QED
  BY WorldInit, <1>1, <1>2, <1>3, DeploymentIsWatchdog, WatchdogInvariant, PTL
  DEF DeploymentSpec, RestartNotIntoOutage
=============================================================================

----------------------------- MODULE Deployment -----------------------------
(***************************************************************************)
(* The watchdog in its deployment: TeslaMate, the lines it logs and the    *)
(* heartbeat of its logger, the database, Docker's API, and the way to     *)
(* Tesla's auth host, each of which may break or come back at any time,    *)
(* and a check every interval of what the probes of docker_client.py,      *)
(* http_check.py, mqtt_client.py and log_classifier.py report about them.  *)
(*                                                                         *)
(* A check takes time. It asks TeslaMate, inspects the containers, reads   *)
(* the log, and then decides; between any two of these, and between the    *)
(* decision and the restart, the world may change.                         *)
(*                                                                         *)
(* The unit of time is the check interval. Disturbances, recreations of    *)
(* the watchdog included, are bounded, so every behaviour ends in a world  *)
(* that no longer changes by itself; when they come is not restricted.     *)
(***************************************************************************)
EXTENDS Watchdog, Probes

CONSTANTS
    LOG_ANALYSIS_LOOKBACK_SECONDS,  \* the log window of one check
    MQTT_STALE_SECONDS,             \* the silence a logger is allowed
    MaxDisturbances

ASSUME DeploymentConstants ==
    /\ LOG_ANALYSIS_LOOKBACK_SECONDS \in Nat /\ MQTT_STALE_SECONDS \in Nat
    /\ MaxDisturbances \in Nat

VARIABLES
    teslamate,          \* what TeslaMate is doing
    database,           \* what the database is doing
    docker,             \* what Docker's API is doing
    tesla_auth_up,      \* TESLA_AUTH_HOST can be reached
    tokens_valid,       \* Tesla still accepts the refresh token
    signed_out_age,     \* the age of the newest "not_signed_in" log line
    heard,              \* the car's last "healthy", as the MQTT client keeps it
    silence,            \* its age
    due,                \* this interval's check was not begun yet
    stage,              \* how far _observe() is
    view,               \* what it has gathered so far
    disturbances,
    seen,               \* history variable: what was the case at some moment
                        \* since the check began
    accepting_checks    \* history variable: for how many checks in a row the
                        \* database accepted connections at some moment

worldVars == <<teslamate, database, docker, tesla_auth_up, tokens_valid, signed_out_age>>

loggerVars == <<heard, silence>>

checkVars == <<due, stage, view, seen, accepting_checks>>

deploymentVars == <<vars, worldVars, loggerVars, checkVars, disturbances>>

\* "failing" answers with a server error, "flapping" with one now and then, "odd"
\* with what http_check.py does not recognise. The car's logger is a process of
\* its own inside a serving TeslaMate: it may die, or report that it fails.
Condition == {"serving", "logger_dead", "logger_failing", "signed_out", "failing",
              "flapping", "odd", "hung", "stopped"}

\* The container of the database and its health check.
DatabaseCondition == {"healthy", "unhealthy", "starting", "stopped", "missing"}

\* Docker's API answers, only lists containers, or does not answer at all.
DockerCondition == {"answers", "lists", "silent"}

Stage == {"idle", "asked", "inspected"}

\* No line within the window is told from no line at all.
OutOfWindow == LOG_ANALYSIS_LOOKBACK_SECONDS + 1

\* The database as a client of it sees it, whatever its health check says.
Accepting == database \in {"healthy", "unhealthy"}

Facts == {teslamate} \cup (IF Accepting THEN {"accepting"} ELSE {})

-----------------------------------------------------------------------------
(* What a check reports about the world.                                   *)

Answer(status, location, body) ==
    [raised |-> "nothing", status |-> status, location |-> location, body |-> body]

NoAnswer(exception) == [Answer(100, "elsewhere", <<>>) EXCEPT !.raised = exception]

Served == Answer(200, "elsewhere", <<"plain">>)

ServerError == Answer(502, "elsewhere", <<"plain">>)

\* How a TeslaMate in each condition may answer. Versions differ in how they ask
\* to sign in: by a redirect, or by the form itself.
Outcomes ==
    CASE teslamate \in {"serving", "logger_dead", "logger_failing"} -> {Served}
      [] teslamate = "signed_out" ->
             {Answer(302, "sign_in", <<>>), Answer(200, "elsewhere", <<"marker">>)}
      [] teslamate = "failing" -> {ServerError}
      [] teslamate = "flapping" -> {Served, ServerError}
      [] teslamate = "odd" ->
             {Answer(302, "elsewhere", <<>>), Answer(404, "elsewhere", <<"plain">>),
              NoAnswer("other_error")}
      [] teslamate \in {"hung", "stopped"} ->
             {NoAnswer("connection_error")}

\* logger_health(), while the broker is connected: a heartbeat that was heard
\* once has been silent for too long.
LoggerStale == heard # "unknown" /\ silence > MQTT_STALE_SECONDS

\* The status() of TeslaMate's container: unknown if it cannot be inspected.
ContainerRunning ==
    CASE docker # "answers"    -> "unknown"
      [] teslamate = "stopped" -> "false"
      [] OTHER                 -> "true"

\* check_database(): the health check if the inspection tells of it, a TCP
\* connect if only the list does, and no answer without the list.
DatabaseHealthy ==
    CASE docker = "silent" \/ database = "missing" -> "unknown"
      [] docker = "lists"       -> IF Accepting THEN "true" ELSE "false"
      [] database = "healthy"   -> "true"
      [] database = "starting"  -> "unknown"
      [] OTHER                  -> "false"

\* The lines the log holds of each category. They leave the window with time
\* only, not when TeslaMate is restarted.
LogLines ==
    [category \in DOMAIN Signal |->
        IF category = "auth_lost" /\ signed_out_age <= LOG_ANALYSIS_LOOKBACK_SECONDS
        THEN 1 ELSE 0]

\* A log that cannot be read is an empty one.
LogSignals == IF docker = "answers" THEN Signals(LogLines) ELSE {}

NoView == [http |-> "unknown", logger_healthy |-> "unknown", logger_stale |-> FALSE,
           database_healthy |-> "unknown", teslamate_container_running |-> "unknown",
           log_signals |-> {}]

\* What a check that meets the world as it is now may report.
Views ==
    {[http |-> HttpCheck(outcome),
      logger_healthy |-> heard,
      logger_stale |-> LoggerStale,
      database_healthy |-> DatabaseHealthy,
      teslamate_container_running |-> ContainerRunning,
      log_signals |-> LogSignals] : outcome \in Outcomes}

-----------------------------------------------------------------------------
(* A cycle of run(): three steps of _observe(), then the rest of the cycle *)
(* as far as the restart call, with Tesla's host probed before the guard.  *)

\* Evidence is being gathered, or was and is not acted upon yet.
Checking == stage # "idle" \/ observed # {}

AskTeslaMate ==
    /\ due /\ ~Checking /\ in_flight = {}
    /\ due' = FALSE
    /\ stage' = "asked"
    /\ \E outcome \in Outcomes :
           view' = [NoView EXCEPT !.http = HttpCheck(outcome),
                                  !.logger_healthy = heard,
                                  !.logger_stale = LoggerStale]
    /\ seen' = Facts
    /\ UNCHANGED <<vars, worldVars, loggerVars, accepting_checks, disturbances>>

InspectContainers ==
    /\ stage = "asked"
    /\ stage' = "inspected"
    /\ view' = [view EXCEPT !.teslamate_container_running = ContainerRunning,
                            !.database_healthy = DatabaseHealthy]
    /\ UNCHANGED <<vars, worldVars, loggerVars, due, seen, accepting_checks, disturbances>>

ReadLog ==
    /\ stage = "inspected"
    /\ stage' = "idle"
    /\ Observe([view EXCEPT !.log_signals = LogSignals])
    /\ view' = NoView
    /\ accepting_checks' =
           IF "accepting" \notin seen THEN 0
           ELSE IF accepting_checks < DATABASE_CONFIRMATION_COUNT
           THEN accepting_checks + 1 ELSE accepting_checks
    /\ UNCHANGED <<worldVars, loggerVars, due, seen, disturbances>>

Decide ==
    /\ \E obs \in observed :
           Cycle(obs, tesla_auth_up) \/ WaitCycle(obs) \/ ConfirmCycle(obs)
    /\ seen' = {}
    /\ UNCHANGED <<worldVars, loggerVars, due, stage, view, accepting_checks, disturbances>>

CheckWorld == AskTeslaMate \/ InspectContainers \/ ReadLog \/ Decide

\* A container that is restarted comes up as it was or repaired. A sign-out is
\* repaired exactly when TeslaMate can refresh its token; if it cannot, it
\* logs so again.
RestartTeslaMate ==
    \/ /\ teslamate = "signed_out"
       /\ IF tesla_auth_up /\ tokens_valid
          THEN teslamate' = "serving" /\ UNCHANGED signed_out_age
          ELSE UNCHANGED teslamate /\ signed_out_age' = 0
    \/ /\ teslamate # "signed_out"
       /\ teslamate' \in {"serving", teslamate}
       /\ UNCHANGED signed_out_age

RestartWorld ==
    /\ \/ docker # "silent" /\ RestartSucceeds(TRUE) /\ RestartTeslaMate
       \/ RestartFails /\ UNCHANGED <<teslamate, signed_out_age>>
    /\ UNCHANGED <<database, docker, tesla_auth_up, tokens_valid, loggerVars, checkVars,
                   disturbances>>

\* A logger at work reports once in an interval. Restarting TeslaMate does not
\* reset what was heard of it before.
Heartbeat ==
    LET reports == teslamate \in {"serving", "logger_failing", "failing", "flapping", "odd"}
    IN  /\ heard' = IF ~reports THEN heard
                    ELSE IF teslamate = "logger_failing" THEN "false" ELSE "true"
        /\ silence' = IF reports THEN 0
                      ELSE IF silence <= MQTT_STALE_SECONDS THEN silence + 1 ELSE silence

\* The next interval. A check is made in every one, and is over before the next
\* one begins unless it restarts TeslaMate.
NextInterval ==
    /\ in_flight # {} \/ (~due /\ ~Checking)
    /\ Tick
    /\ due' = TRUE
    /\ signed_out_age' = IF signed_out_age < OutOfWindow
                         THEN signed_out_age + 1 ELSE OutOfWindow
    /\ Heartbeat
    /\ UNCHANGED <<teslamate, database, docker, tesla_auth_up, tokens_valid,
                   stage, view, seen, accepting_checks, disturbances>>

-----------------------------------------------------------------------------
(* What happens to it.                                                     *)

TeslaMateChanges ==
    /\ teslamate' \in Condition \ {teslamate}
    \* A refresh token outlives everything but a failed refresh.
    /\ teslamate' = "signed_out" => ~(tesla_auth_up /\ tokens_valid)
    /\ signed_out_age' = IF teslamate' = "signed_out" THEN 0 ELSE signed_out_age
    /\ UNCHANGED <<database, docker, tesla_auth_up, tokens_valid>>

DatabaseChanges ==
    /\ database' \in DatabaseCondition \ {database}
    /\ UNCHANGED <<teslamate, docker, tesla_auth_up, tokens_valid, signed_out_age>>

DockerChanges ==
    /\ docker' \in DockerCondition \ {docker}
    /\ UNCHANGED <<teslamate, database, tesla_auth_up, tokens_valid, signed_out_age>>

NetworkChanges ==
    /\ tesla_auth_up' = ~tesla_auth_up
    /\ UNCHANGED <<teslamate, database, docker, tokens_valid, signed_out_age>>

TokensRevoked ==
    /\ tokens_valid
    /\ tokens_valid' = FALSE
    /\ UNCHANGED <<teslamate, database, docker, tesla_auth_up, signed_out_age>>

WorldChanges ==
    /\ \/ TeslaMateChanges \/ DatabaseChanges \/ DockerChanges
       \/ NetworkChanges \/ TokensRevoked
    /\ seen' = IF Checking THEN seen \cup Facts' ELSE {}
    /\ UNCHANGED <<vars, loggerVars, due, stage, view, accepting_checks>>

\* A new watchdog checks at once, and has heard nothing yet.
RecreateWatchdog ==
    /\ Recreate(disk)
    /\ heard' = "unknown" /\ silence' = 0
    /\ due' = TRUE /\ stage' = "idle" /\ view' = NoView
    /\ seen' = {} /\ accepting_checks' = 0
    /\ UNCHANGED worldVars

Disturbance ==
    /\ disturbances < MaxDisturbances
    /\ disturbances' = disturbances + 1
    /\ WorldChanges \/ RecreateWatchdog

-----------------------------------------------------------------------------
DeploymentInit ==
    /\ Init
    /\ teslamate = "serving" /\ database = "healthy" /\ docker = "answers"
    /\ tesla_auth_up = TRUE /\ tokens_valid = TRUE
    /\ signed_out_age = OutOfWindow
    /\ heard = "unknown" /\ silence = 0
    /\ due = TRUE /\ stage = "idle" /\ view = NoView
    /\ disturbances = 0
    /\ seen = {} /\ accepting_checks = 0

WatchdogStep == CheckWorld \/ RestartWorld

DeploymentNext == WatchdogStep \/ NextInterval \/ Disturbance

\* The loop of run() goes on whatever a cycle did, every request and the restart
\* call have a timeout, and time passes. Nothing is assumed of the disturbances.
Fairness == WF_deploymentVars(WatchdogStep) /\ WF_deploymentVars(NextInterval)

DeploymentSpec == DeploymentInit /\ [][DeploymentNext]_deploymentVars /\ Fairness

-----------------------------------------------------------------------------
(* Properties.                                                             *)

DeploymentTypeOK ==
    /\ WatchdogTypeOK
    /\ teslamate \in Condition
    /\ database \in DatabaseCondition
    /\ docker \in DockerCondition
    /\ {tesla_auth_up, tokens_valid, due} \subseteq BOOLEAN
    /\ signed_out_age \in 0..OutOfWindow
    /\ heard \in TriState /\ silence \in 0..(MQTT_STALE_SECONDS + 1)
    /\ stage \in Stage /\ view \in Observation
    /\ disturbances \in 0..MaxDisturbances
    /\ seen \subseteq Condition \cup {"accepting"}
    /\ accepting_checks \in 0..DATABASE_CONFIRMATION_COUNT

\* What the checks can conclude from the world as it is.
Conclusions == {Evaluate(obs).state : obs \in {o \in Views : ~Evaluate(o).inconclusive}}

\* No two checks of this world conclude differently.
Settled == \A one, other \in Conclusions : one = other

\* Whatever happened before, once the world stays as it is the watchdog announces
\* what is the case, again and again though a failure that lasts is restarted
\* after every cooldown, or asked for in vain, and for good when no restart is
\* asked for any more: a wrong or forced state (STARTING, RECOVERING,
\* MANUAL_INTERVENTION_REQUIRED) never lasts while checks conclude. A TeslaMate
\* whose checks conclude now this and now that has no state to converge to.
Convergence ==
    <>[]Settled =>
        /\ []<>(Conclusions \subseteq {state})
        /\ <>[](in_flight = {}) => <>[](Conclusions \subseteq {state})

\* A recovery ends, as recovered or for a human to look at, with two exceptions:
\* a check that recognises nothing counts for neither, and one that fails sets
\* back the count of those that succeed and the other way round, so a TeslaMate
\* that answers what nobody recognises, or fails and serves in turns, can keep
\* the watchdog at RECOVERING for ever.
RecoveryEnds ==
    []<>(\/ state # "RECOVERING"
         \/ \E obs \in Views : Evaluate(obs).inconclusive
         \/ ~Settled)

\* An outage that is there when a check begins and stays until the guard is asked
\* keeps this check from starting a restart, which could not help and would burn
\* the budget; so does one of the database in any of the checks before that have
\* to confirm it. No more can be said: the database is probed early in the
\* check, the log is read and Tesla probed after it, and both may be gone again
\* before the container is restarted. A TeslaMate that recovered since it was
\* asked may be restarted too, but never one for a failure it did not have. A
\* database whose health check fails while it accepts connections is no outage.
RestartNotIntoOutage ==
    [][in_flight = {} /\ in_flight' # {} =>
           /\ accepting_checks >= DATABASE_CONFIRMATION_COUNT
           /\ state' = "LOGGED_OUT" => tesla_auth_up /\ "signed_out" \in seen
           /\ state' = "TESLAMATE_UNREACHABLE" =>
                  seen \cap {"failing", "flapping", "hung", "stopped"} # {}]_deploymentVars

\* From some time on Docker does what it is asked.
RestartsSucceed ==
    <>[][in_flight # {} /\ in_flight' = {} => executed' # executed]_deploymentVars

\* README.md: "The watchdog restarts on LOGGED_OUT once TESLA_AUTH_HOST is
\* reachable again, which recovers this automatically". A restart is considered
\* when the state changes and at no other time: one that was withheld because
\* the host was unreachable is not reconsidered.
LogoutIsRecovered ==
    /\ RestartsSucceed
    /\ <>[](teslamate = "signed_out" /\ database = "healthy" /\ docker = "answers"
            /\ tesla_auth_up /\ tokens_valid)
    => <>(executed # {})

\* README.md, restart policy: recovery escalates "If a restart does not clear
\* the logout". It also does when the restart did, and the check finds the pages
\* served, the database up and the logger at work: the sign-out lines of before
\* the restart are still in the log window after it, and count as a failure.
LogoutEscalatedOnlyIfNotCleared ==
    [][progress.trigger_state = "LOGGED_OUT" /\ state' = "MANUAL_INTERVENTION_REQUIRED"
       => \E obs \in observed :
              \/ obs.http # "authenticated" \/ obs.database_healthy = "false"
              \/ obs.logger_healthy = "false" \/ obs.logger_stale]_deploymentVars
=============================================================================

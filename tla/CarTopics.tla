------------------------------ MODULE CarTopics ------------------------------
(***************************************************************************)
(* The car topics of src/src/mqtt_client.py: what TeslaMate publishes about*)
(* each car arrives on paho's network thread, and logger_health() turns it *)
(* into the verdict a check cycle uses, on the thread of the loop.         *)
(*                                                                         *)
(* The lock covers the writes of one message and the copy of the dict. The *)
(* copy holds references, so the reads after it are interleaved with later *)
(* messages and with the loss of the connection: each read is a step.      *)
(* Timestamps of the monotonic clock are kept as the time since then.      *)
(***************************************************************************)
EXTENDS Integers, SequencesExt, States

CONSTANTS
    Cars,
    Primaries,                      \* what primary_car_id may be; NoCar: an id
                                    \* under which nothing is published
    NoCar,
    MQTT_STALE_SECONDS,             \* the gap tolerated while driving, charging
    MQTT_PARKED_STALE_SECONDS,      \* the gap tolerated otherwise
    MaxCallTime                     \* bound of the time logger_health() takes

ASSUME CarTopicsConstants ==
    /\ NoCar \notin Cars
    /\ Primaries \subseteq Cars \cup {NoCar}
    /\ MQTT_STALE_SECONDS \in Nat \ {0}
    /\ MQTT_PARKED_STALE_SECONDS \in Nat \ {0}
    /\ MaxCallTime \in Nat

VARIABLES
    primary,            \* config.topics.primary_car_id, set once
    known,              \* the keys of _cars, in the order they were inserted
    healthy,            \* CarObservation.healthy of each car
    heartbeat_age,      \* the time since its healthy_monotonic
    active,             \* its state_payload is in ACTIVE_CAR_STATES
    connected_age,      \* the time since _connected_since
    handling,           \* the car of the message that holds the lock, if any
    warned,             \* _warned_no_messages
    call,               \* the call of logger_health() under way
    answer,             \* what the last call returned
    seen                \* history: what the call under way could have seen

pahoVars == <<known, healthy, heartbeat_age, active, connected_age, handling>>
loopVars == <<warned, call, answer>>
vars == <<primary, pahoVars, loopVars, seen>>

\* None, where the source has a timestamp.
NoTime == -1

Shorter(x, y) == IF x <= y THEN x ELSE y

Longer(x, y) == IF x <= y THEN y ELSE x

ShorterLimit == Shorter(MQTT_STALE_SECONDS, MQTT_PARKED_STALE_SECONDS)

\* Times beyond every comparison are not told apart.
AgeCap == Longer(MQTT_STALE_SECONDS, MQTT_PARKED_STALE_SECONDS) + MaxCallTime + 1

Age == NoTime..AgeCap

Older(age) == IF age = NoTime \/ age = AgeCap THEN age ELSE age + 1

Limit(is_active) ==
    IF is_active THEN MQTT_STALE_SECONDS ELSE MQTT_PARKED_STALE_SECONDS

-----------------------------------------------------------------------------
(* The network thread of paho.                                             *)

Connected == connected_age # NoTime

OnConnect ==
    /\ ~Connected
    /\ handling = NoCar
    /\ connected_age' = 0
    /\ UNCHANGED <<known, healthy, heartbeat_age, active, handling>>

OnDisconnect ==
    /\ Connected
    /\ handling = NoCar
    /\ connected_age' = NoTime
    /\ UNCHANGED <<known, healthy, heartbeat_age, active, handling>>

\* _cars.setdefault()
Insert(c) == known' = IF Contains(known, c) THEN known ELSE Append(known, c)

\* _on_message() of "<car>/healthy": the parsed payload, then the timestamp.
OnHealthy(c, payload) ==
    /\ Connected
    /\ handling = NoCar
    /\ Insert(c)
    /\ healthy' = [healthy EXCEPT ![c] = payload]
    /\ handling' = c
    /\ UNCHANGED <<heartbeat_age, active, connected_age>>

\* No time passes between the two: the timestamp is of the message's arrival.
OnHealthyStamped ==
    /\ handling # NoCar
    /\ heartbeat_age' = [heartbeat_age EXCEPT ![handling] = 0]
    /\ handling' = NoCar
    /\ UNCHANGED <<known, healthy, active, connected_age>>

\* Variant: a state message counts as a heartbeat.
OnStateAsHeartbeat(c, is_active) ==
    /\ Connected
    /\ handling = NoCar
    /\ Insert(c)
    /\ active' = [active EXCEPT ![c] = is_active]
    /\ heartbeat_age' = [heartbeat_age EXCEPT ![c] = 0]
    /\ UNCHANGED <<healthy, connected_age, handling>>

\* _on_message() of "<car>/state".
OnState(c, is_active) ==
    /\ Connected
    /\ handling = NoCar
    /\ Insert(c)
    /\ active' = [active EXCEPT ![c] = is_active]
    /\ UNCHANGED <<healthy, heartbeat_age, connected_age, handling>>

PahoThread ==
    /\ \/ OnConnect
       \/ OnDisconnect
       \/ \E c \in Cars, payload \in TriState : OnHealthy(c, payload)
       \/ OnHealthyStamped
       \/ \E c \in Cars, is_active \in BOOLEAN : OnState(c, is_active)
    /\ UNCHANGED loopVars

-----------------------------------------------------------------------------
(* logger_health(), on the thread of the loop. "call.elapsed" is the time  *)
(* since its "now", to which it relates every age it reads.                *)

Fresh(step) ==
    [at |-> step, elapsed |-> 0, cars |-> <<>>, selected |-> NoCar,
     age |-> 0, stale |-> FALSE]

Idle == Fresh("idle")

NoAnswer == [car |-> NoCar, healthy |-> "unknown", stale |-> FALSE]

Begin ==
    /\ call.at = "idle"
    /\ call' = Fresh("copy")
    /\ answer' = NoAnswer
    /\ UNCHANGED warned

Return(c, reported, stale) ==
    /\ call' = Idle
    /\ answer' = [car |-> c, healthy |-> reported, stale |-> stale]

\* _warn_if_persistently_silent(), with its early returns.
WarnIfPersistentlySilent ==
    warned' = (warned \/ (Connected
                          /\ connected_age - call.elapsed >= MQTT_PARKED_STALE_SECONDS))

\* The copy of the dict under the lock, and the choice of the car: the primary
\* one if it is known, otherwise by a scan for one that is unhealthy.
CopyCars ==
    /\ call.at = "copy"
    /\ handling = NoCar
    /\ IF known = <<>>
       THEN WarnIfPersistentlySilent /\ Return(NoCar, "unknown", FALSE)
       ELSE /\ call' = IF Contains(known, primary)
                       THEN [call EXCEPT !.at = "heard", !.selected = primary]
                       ELSE [call EXCEPT !.at = "scan", !.cars = known,
                                         !.selected = Head(known)]
            /\ UNCHANGED <<warned, answer>>

\* The scan reads one car at a time. The first one that is unhealthy is
\* selected, the first one of all if none is.
ScanCar ==
    /\ call.at = "scan"
    /\ call' = IF call.cars = <<>>
               THEN [call EXCEPT !.at = "heard"]
               ELSE IF healthy[Head(call.cars)] = "false"
               THEN [call EXCEPT !.at = "heard", !.cars = <<>>,
                                 !.selected = Head(call.cars)]
               ELSE [call EXCEPT !.cars = Tail(@)]
    /\ UNCHANGED <<warned, answer>>

\* _staleness() starts: a car never heard is never stale.
CheckHeard ==
    /\ call.at = "heard"
    /\ call' = IF heartbeat_age[call.selected] = NoTime
               THEN [call EXCEPT !.at = "return"]
               ELSE [call EXCEPT !.at = "connection"]
    /\ UNCHANGED <<warned, answer>>

\* Variant: the connection may be lost and is used all the same.
ReadConnectionUnchecked ==
    /\ call.at = "connection"
    /\ call' = [call EXCEPT !.at = "heartbeat",
                            !.age = connected_age - call.elapsed]
    /\ UNCHANGED <<warned, answer>>

\* Variant: the reconnect does not restart the clock.
ReadConnectionKeepingAge ==
    /\ call.at = "connection"
    /\ call' = IF ~Connected
               THEN [call EXCEPT !.at = "return"]
               ELSE [call EXCEPT !.at = "heartbeat", !.age = AgeCap]
    /\ UNCHANGED <<warned, answer>>

\* connected_since, copied: no verdict while there is no connection.
ReadConnection ==
    /\ call.at = "connection"
    /\ call' = IF ~Connected
               THEN [call EXCEPT !.at = "return"]
               ELSE [call EXCEPT !.at = "heartbeat",
                                 !.age = connected_age - call.elapsed]
    /\ UNCHANGED <<warned, answer>>

\* Variant: the earlier of the two.
ReadHeartbeatEarlier ==
    /\ call.at = "heartbeat"
    /\ call' = [call EXCEPT !.at = "state",
                            !.age = Longer(@, heartbeat_age[call.selected] - call.elapsed)]
    /\ UNCHANGED <<warned, answer>>

\* max(healthy_monotonic, connected_since), the later of the two.
ReadHeartbeat ==
    /\ call.at = "heartbeat"
    /\ call' = [call EXCEPT !.at = "state",
                            !.age = Shorter(@, heartbeat_age[call.selected] - call.elapsed)]
    /\ UNCHANGED <<warned, answer>>

ReadState ==
    /\ call.at = "state"
    /\ call' = [call EXCEPT !.at = "return", !.age = 0,
                            !.stale = call.age > Limit(active[call.selected])]
    /\ UNCHANGED <<warned, answer>>

\* selected.healthy is read last.
ReadHealthy ==
    /\ call.at = "return"
    /\ Return(call.selected, healthy[call.selected], call.stale)
    /\ UNCHANGED warned

LoggerHealth ==
    /\ \/ CopyCars \/ ScanCar \/ CheckHeard \/ ReadConnection
       \/ ReadHeartbeat \/ ReadState \/ ReadHealthy
    /\ UNCHANGED pahoVars

-----------------------------------------------------------------------------
Tick ==
    /\ handling = NoCar
    /\ call.at # "idle" => call.elapsed < MaxCallTime
    /\ call' = IF call.at = "idle" THEN call ELSE [call EXCEPT !.elapsed = @ + 1]
    /\ heartbeat_age' = [c \in Cars |-> Older(heartbeat_age[c])]
    /\ connected_age' = Older(connected_age)
    /\ UNCHANGED <<known, healthy, active, handling, warned, answer>>

\* How long a car has been silent while the watchdog listened.
Silence(c) ==
    IF Connected /\ heartbeat_age[c] # NoTime
    THEN Shorter(heartbeat_age[c], connected_age) ELSE NoTime

\* The verdict of logger_health() if it were one step.
Stale(c) == Silence(c) > Limit(active[c])

Unhealthy(reported, stale) == reported = "false" \/ stale

\* A message has arrived from the first of its writes on.
AtomicVerdict ==
    primary # NoCar /\ Unhealthy(healthy[primary], handling # primary /\ Stale(primary))

NothingSeen == [silent |-> {}, verdicts |-> {}, state_came |-> FALSE]

\* The cars that had been silent for long when the call began, the verdicts of its moments,
\* and whether the state of a car arrived since.
NoteMoment ==
    /\ UNCHANGED primary
    /\ seen' = IF call'.at = "idle" THEN NothingSeen
               ELSE [silent |-> IF call.at = "idle"
                                THEN {c \in Cars : Silence(c) > ShorterLimit}
                                ELSE seen.silent,
                     verdicts |-> seen.verdicts \cup {AtomicVerdict'},
                     state_came |-> seen.state_came \/ active' # active]

Init ==
    /\ primary \in Primaries
    /\ known = <<>>
    /\ healthy = [c \in Cars |-> "unknown"]
    /\ heartbeat_age = [c \in Cars |-> NoTime]
    /\ active = [c \in Cars |-> FALSE]
    /\ connected_age = NoTime
    /\ handling = NoCar
    /\ warned = FALSE
    /\ call = Idle
    /\ answer = NoAnswer
    /\ seen = NothingSeen

Next ==
    /\ \/ PahoThread
       \/ Begin /\ UNCHANGED pahoVars
       \/ LoggerHealth
       \/ Tick
    /\ NoteMoment

\* The loop calls logger_health() every interval and each call returns: a
\* message once taken is handled, and the lock, held for a few assignments
\* only, is not withheld from a thread for ever. Time passes. Nothing is
\* assumed about the messages and the connection.
Fairness ==
    /\ WF_vars(Begin /\ UNCHANGED pahoVars /\ NoteMoment)
    /\ SF_vars(LoggerHealth /\ NoteMoment)
    /\ WF_vars(OnHealthyStamped /\ UNCHANGED loopVars /\ NoteMoment)
    /\ SF_vars(Tick /\ NoteMoment)

Spec == Init /\ [][Next]_vars /\ Fairness

-----------------------------------------------------------------------------
(* Properties.                                                             *)

Call == [at : {"idle", "copy", "scan", "heard", "connection", "heartbeat",
               "state", "return"},
         elapsed : 0..MaxCallTime, cars : Seq(Cars), selected : Cars \cup {NoCar},
         age : (0 - MaxCallTime)..AgeCap, stale : BOOLEAN]

CarTopicsTypeOK ==
    /\ primary \in Primaries
    /\ known \in Seq(Cars)
    /\ healthy \in [Cars -> TriState]
    /\ heartbeat_age \in [Cars -> Age]
    /\ active \in [Cars -> BOOLEAN]
    /\ connected_age \in Age
    /\ handling \in Cars \cup {NoCar}
    /\ warned \in BOOLEAN
    /\ call \in Call
    /\ answer \in [car : Cars \cup {NoCar}, healthy : TriState, stale : BOOLEAN]
    /\ seen \in [silent : SUBSET Cars, verdicts : SUBSET BOOLEAN, state_came : BOOLEAN]

\* The watchdog's own downtime is never TeslaMate's silence: a car is called
\* stale only if, when the check began, the watchdog was connected and had been
\* listening to that car's silence for longer than a limit, whatever messages
\* and disconnections come between the reads.
StaleIsSilence ==
    [][answer'.stale /\ ~answer.stale =>
           answer'.car \in seen.silent]_vars

\* The reads of one call are not torn: with a known primary car the verdict is
\* the one of some moment of the call, unless the state of the car, which
\* selects the limit, arrived in between.
VerdictIsAtomic ==
    [][/\ call.at = "return" /\ call'.at = "idle"
       /\ answer'.car = primary
       /\ ~seen.state_came
       => Unhealthy(answer'.healthy, answer'.stale) \in seen.verdicts]_vars

\* A primary car that was heard once and then falls silent while the connection
\* holds is reported, and stays reported, however many state messages arrive.
SilenceIsReported ==
    <>[](/\ Connected
         /\ Contains(known, primary) /\ heartbeat_age[primary] # NoTime
         /\ handling # primary)
    => <>[](call.at = "idle" => answer.stale)
=============================================================================

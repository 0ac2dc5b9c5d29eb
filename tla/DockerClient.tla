---------------------------- MODULE DockerClient ----------------------------
(***************************************************************************)
(* src/src/docker_client.py: how a configured name becomes a container, and*)
(* the three operations the loop builds on it: status(), check_database()  *)
(* and restart(). Each makes several requests, and containers come, go and *)
(* are renamed between one request and the next.                           *)
(***************************************************************************)
EXTENDS Integers, SequencesExt, States

CONSTANTS
    TESLAMATE_CONTAINER,
    DATABASE_CONTAINER,
    NoName,             \* no name, no label
    Kinds,              \* how a container may be named, labelled and checked
    Renames,            \* the names a container may be given later
    MaxContainers,      \* bound of the containers created
    MaxRestarts         \* bound of the calls of restart()

Name == {TESLAMATE_CONTAINER, DATABASE_CONTAINER, NoName}
            \cup UNION {Range(kind.names) \cup {kind.service} : kind \in Kinds}
            \cup UNION {Range(names) : names \in Renames}

\* validate(): the two configured names differ.
ASSUME DockerConstants ==
    /\ TESLAMATE_CONTAINER # DATABASE_CONTAINER
    /\ Kinds \subseteq [names : Seq(Name), service : Name, checked : BOOLEAN]
    /\ Renames \subseteq Seq(Name)
    /\ NoName \notin {TESLAMATE_CONTAINER, DATABASE_CONTAINER}
    /\ MaxContainers \in Nat
    /\ MaxRestarts \in Nat

VARIABLES
    containers,         \* the containers there are: names, label, state, health
    created,            \* how many there have been
    listening,          \* DATABASE_HOST accepts connections
    requests,           \* the restarts Docker was asked for and has not ended
    call,               \* the call under way
    number,             \* of the last call of restart()
    answer,             \* of the last call
    performed,          \* history: the calls whose restart took place
    reported,           \* history: the calls that reported it
    designated,         \* history: the containers a configured name has meant
    seen                \* history: what was the case in the course of the call

engineVars == <<containers, created, listening>>
vars == <<engineVars, requests, call, number, answer, performed, reported,
          designated, seen>>

Health == {"none", "starting", "healthy", "unhealthy"}

Container == [names : Seq(Name), service : Name, running : BOOLEAN, health : Health]

ContainerRef == [id : 0..created, name : Name, compose_service : Name]

Operation == {"none", "status", "database", "restart"}

NoRef == [id |-> 0, name |-> NoName, compose_service |-> NoName]

Idle == [op |-> "none", at |-> "idle", ref |-> NoRef]

NoAnswer == [op |-> "none", verdict |-> "unknown"]

\* ContainerRef: the first name stands for the container.
Ref(id) ==
    [id |-> id,
     name |-> IF containers[id].names = <<>> THEN NoName ELSE Head(containers[id].names),
     compose_service |-> containers[id].service]

Matches(ref, configured) == ref.name = configured \/ ref.compose_service = configured

\* resolve(): by exact name, by label if nothing has the name. Which of several
\* is the first one of the list is Docker's choice.
Resolutions(configured) ==
    LET named == {id \in DOMAIN containers : Contains(containers[id].names, configured)}
    IN  IF named # {} THEN named
        ELSE {id \in DOMAIN containers : containers[id].service = configured}

-----------------------------------------------------------------------------
(* The calls, on the thread of the loop.                                   *)

Answered(verdict) ==
    /\ call' = Idle
    /\ answer' = [op |-> call.op, verdict |-> verdict]

Begin(op) ==
    /\ call = Idle
    /\ op = "restart" => number < MaxRestarts
    /\ number' = IF op = "restart" THEN number + 1 ELSE number
    /\ call' = [Idle EXCEPT !.op = op, !.at = "list"]
    /\ answer' = NoAnswer
    /\ UNCHANGED <<requests, performed, reported>>

Configured(op) == IF op = "database" THEN DATABASE_CONTAINER ELSE TESLAMATE_CONTAINER

\* The list of the containers. Without it, or without a match, nothing is known
\* and nothing is restarted.
List ==
    /\ call.at = "list"
    /\ \/ /\ \E id \in Resolutions(Configured(call.op)) :
                 call' = [call EXCEPT !.at = IF call.op = "restart" THEN "post" ELSE "inspect",
                                      !.ref = Ref(id)]
          /\ UNCHANGED answer
       \/ Answered(IF call.op = "restart" THEN "false" ELSE "unknown")
    /\ UNCHANGED <<requests, number, performed, reported>>

\* The container of the list is asked for its state. It may be gone, and the
\* proxy may fail: running and health are None then, but the container "exists".
Inspected(running, health) ==
    /\ call.at = "inspect"
    /\ \/ /\ call.ref.id \in DOMAIN containers
          /\ running = IF containers[call.ref.id].running THEN "true" ELSE "false"
          /\ health = containers[call.ref.id].health
       \/ running = "unknown" /\ health = "none"
    /\ UNCHANGED <<requests, number, performed, reported>>

Status ==
    /\ call.op = "status"
    /\ \E running \in TriState, health \in Health :
           Inspected(running, health) /\ Answered(running)

\* Variant: a health check that is starting is good enough.
OfHealthEager(health) ==
    CASE health = "healthy"   -> "true"
      [] health = "starting"  -> "true"
      [] OTHER                -> "false"

\* Variant: Docker's word is passed on.
OfHealthVerbatim(health) == IF health = "healthy" THEN "true" ELSE health

OfHealth(health) ==
    CASE health = "healthy"   -> "true"
      [] health = "starting"  -> "unknown"
      [] OTHER                -> "false"

\* check_database(): running, then Docker's health check, then a connection.
CheckDatabase ==
    /\ call.op = "database"
    /\ \E running \in TriState, health \in Health :
           /\ Inspected(running, health)
           /\ \/ running = "false" /\ Answered("false")
              \/ /\ running # "false" /\ health # "none"
                 /\ Answered(OfHealth(health))
              \/ /\ running # "false" /\ health = "none"
                 /\ call' = [call EXCEPT !.at = "probe"]
                 /\ UNCHANGED answer

\* tcp_probe()
Probe ==
    /\ call.at = "probe"
    /\ Answered(IF listening THEN "true" ELSE "false")
    /\ UNCHANGED <<requests, number, performed, reported>>

\* Variant: what was resolved is trusted.
RefusedNever(ref) == FALSE

\* The second look at what was resolved: it is TeslaMate, and not the database.
Refused(ref) ==
    \/ ~Matches(ref, TESLAMATE_CONTAINER)
    \/ Matches(ref, DATABASE_CONTAINER)

\* The POST names the container by its id.
Post ==
    /\ call.at = "post"
    /\ ~Refused(call.ref)
    /\ requests' = requests \cup {[number |-> number, id |-> call.ref.id]}
    /\ call' = [call EXCEPT !.at = "posted"]
    /\ UNCHANGED <<number, answer, performed, reported>>

\* Refused here, or by the proxy, or never connected.
PostRefused ==
    /\ call.at = "post"
    /\ Answered("false")
    /\ UNCHANGED <<requests, number, performed, reported>>

\* 204
Restarted ==
    /\ call.at = "posted"
    /\ number \in performed
    /\ Answered("true")
    /\ reported' = reported \cup {number}
    /\ UNCHANGED <<requests, number, performed>>

\* Variant: a restart that takes long is taken for one that was made.
NotRestartedOptimistic ==
    /\ call.at = "posted"
    /\ Answered("true")
    /\ reported' = reported \cup {number}
    /\ UNCHANGED <<requests, number, performed>>

\* A timeout, a lost connection or an error of Docker's, whatever Docker does.
NotRestarted ==
    /\ call.at = "posted"
    /\ Answered("false")
    /\ UNCHANGED <<requests, number, performed, reported>>

Client ==
    /\ \/ \E op \in {"status", "database", "restart"} : Begin(op)
       \/ List \/ Status \/ CheckDatabase \/ Probe
       \/ Post \/ PostRefused \/ Restarted \/ NotRestarted
    /\ UNCHANGED engineVars

-----------------------------------------------------------------------------
(* Docker, and whoever else uses it.                                       *)

\* Docker restarts a container it was asked to, soon or late, once per request.
DockerRestarts(request) ==
    /\ requests' = requests \ {request}
    /\ request.id \in DOMAIN containers
    /\ containers' = [containers EXCEPT ![request.id].running = TRUE]
    /\ performed' = performed \cup {request.number}
    /\ UNCHANGED <<created, listening, call, number, answer, reported>>

DockerRefuses(request) ==
    /\ requests' = requests \ {request}
    /\ UNCHANGED <<engineVars, call, number, answer, performed, reported>>

Free(names) ==
    \A id \in DOMAIN containers :
        Range(names) \cap Range(containers[id].names) = {}

Create(kind) ==
    /\ created < MaxContainers
    /\ Free(kind.names)
    /\ created' = created + 1
    /\ \E running \in BOOLEAN :
           containers' = [id \in DOMAIN containers \cup {created'} |->
               IF id = created'
               THEN [names |-> kind.names, service |-> kind.service, running |-> running,
                     health |-> IF kind.checked THEN "starting" ELSE "none"]
               ELSE containers[id]]
    /\ UNCHANGED listening

Delete(id) ==
    /\ containers' = [other \in DOMAIN containers \ {id} |-> containers[other]]
    /\ UNCHANGED <<created, listening>>

\* A recreation first takes the name away from the container it replaces.
Rename(id, names) ==
    /\ names # containers[id].names
    /\ Free(names)
    /\ containers' = [containers EXCEPT ![id].names = names]
    /\ UNCHANGED <<created, listening>>

\* A container stops, starts or changes its health.
StateChanges(id) ==
    /\ \E running \in BOOLEAN, health \in Health :
           /\ health = "none" <=> containers[id].health = "none"
           /\ containers' = [containers EXCEPT ![id].running = running, ![id].health = health]
    /\ UNCHANGED <<created, listening>>

ListeningChanges ==
    /\ listening' = ~listening
    /\ UNCHANGED <<containers, created>>

Engine ==
    \/ \E request \in requests : DockerRestarts(request) \/ DockerRefuses(request)
    \/ /\ \/ \E kind \in Kinds : Create(kind)
          \/ \E id \in DOMAIN containers :
                 \/ Delete(id)
                 \/ \E names \in Renames : Rename(id, names)
                 \/ StateChanges(id)
          \/ ListeningChanges
       /\ UNCHANGED <<requests, call, number, answer, performed, reported>>

-----------------------------------------------------------------------------
\* The containers that have the name or the label.
Designated(configured) ==
    {id \in DOMAIN containers :
        Contains(containers[id].names, configured) \/ containers[id].service = configured}

NoteDesignated ==
    designated' = [configured \in DOMAIN designated |->
                      designated[configured] \cup Designated(configured)']

Fact == {"stopped", "healthy", "unchecked", "listening"}

NothingSeen == [fact \in Fact |-> FALSE]

\* What is the case at a moment.
Moment ==
    LET those == designated[Configured(call.op)] \cap DOMAIN containers
        database == call.op = "database"
    IN  [stopped |-> call.op = "status" /\ \E id \in those : ~containers[id].running,
         healthy |-> database /\ \E id \in those :
                         containers[id].running /\ containers[id].health = "healthy",
         unchecked |-> database /\ \A id \in those : containers[id].health = "none",
         listening |-> database /\ listening]

NoteMoment ==
    seen' = IF call'.at = "idle" THEN (IF call.at = "idle" THEN NothingSeen ELSE seen)
            ELSE [fact \in Fact |->
                     Moment'[fact] \/ (call.at # "idle" /\ seen[fact])]

Init ==
    /\ containers = <<>>
    /\ created = 0
    /\ listening = FALSE
    /\ requests = {}
    /\ call = Idle
    /\ number = 0
    /\ answer = NoAnswer
    /\ performed = {}
    /\ reported = {}
    /\ designated = [configured \in {TESLAMATE_CONTAINER, DATABASE_CONTAINER} |-> {}]
    /\ seen = NothingSeen

Next == (Client \/ Engine) /\ NoteDesignated /\ NoteMoment

Spec == Init /\ [][Next]_vars

-----------------------------------------------------------------------------
(* Properties.                                                             *)

DockerTypeOK ==
    /\ created \in 0..MaxContainers
    /\ DOMAIN containers \subseteq 1..created
    /\ containers \in [DOMAIN containers -> Container]
    /\ listening \in BOOLEAN
    /\ number \in 0..MaxRestarts
    /\ requests \subseteq [number : 1..number, id : 1..created]
    /\ call \in [op : Operation, ref : ContainerRef,
                 at : {"idle", "list", "inspect", "probe", "post", "posted"}]
    /\ answer \in [op : Operation, verdict : TriState]
    /\ reported \subseteq performed /\ performed \subseteq 1..number
    /\ designated \in [{TESLAMATE_CONTAINER, DATABASE_CONTAINER} -> SUBSET (1..created)]
    /\ seen \in [Fact -> BOOLEAN]

\* Whatever becomes of the containers between the list and the restart, and
\* however late Docker acts: what the watchdog restarts was TeslaMate by name or
\* by label at some time, and is no container of the database service.
RestartedIsTeslaMate ==
    [][\A request \in requests :
           request.number \in performed' \ performed =>
               /\ request.id \in designated[TESLAMATE_CONTAINER]
               /\ containers[request.id].service # DATABASE_CONTAINER]_vars

Ending == call.at # "idle" /\ call'.at = "idle"

\* No verdict is made up of reads that failed: a TeslaMate reported as stopped
\* was stopped, and a database reported as healthy was healthy or accepted
\* connections, at some moment of the very call.
VerdictsAreObserved ==
    [][Ending =>
           /\ answer' = [op |-> "status", verdict |-> "false"] => seen.stopped
           /\ answer' = [op |-> "database", verdict |-> "true"] =>
                  seen.healthy \/ seen.listening]_vars

Calls == INSTANCE RestartCalls WITH Numbers <- 1..MaxRestarts, asked <- 1..number

\* A restart reported as done has been done, once, and one reported as failed
\* may still come: what the recovery controller builds upon.
ImplementsRestartCalls == Calls!Spec

\* Stated by the documentation, and not what the code does: where the database
\* has a health check, it is the health check that decides.
HealthcheckDecides ==
    [][Ending /\ answer' = [op |-> "database", verdict |-> "true"] =>
           seen.healthy \/ seen.unchecked]_vars
=============================================================================

------------------------- MODULE DockerClientProofs -------------------------
(***************************************************************************)
(* Proofs about DockerClient, for any number of containers and of calls,   *)
(* and whatever happens to the containers between two requests: only       *)
(* TeslaMate is restarted, the recovery controller may rely on the reports *)
(* of restart(), and a verdict is about what was the case during its call. *)
(***************************************************************************)
EXTENDS DockerClient, TLAPS

Configurable == {TESLAMATE_CONTAINER, DATABASE_CONTAINER}

\* What has the configured name or label now has been designated.
DesignatedInv ==
    \A configured \in Configurable : Designated(configured) \subseteq designated[configured]

\* A request, and a call about to make one, is about a container that was
\* TeslaMate when it was resolved. The label of a container never changes.
TargetInv ==
    /\ call.at \in {"post", "posted"} =>
           /\ call.op = "restart"
           /\ call.ref.id \in designated[TESLAMATE_CONTAINER]
           /\ call.ref.id \in DOMAIN containers =>
                  containers[call.ref.id].service = call.ref.compose_service
    /\ \A request \in requests :
           /\ request.id \in designated[TESLAMATE_CONTAINER]
           /\ request.id \in DOMAIN containers =>
                  containers[request.id].service # DATABASE_CONTAINER

\* A number is asked for once, and by nobody before its POST.
NumberInv ==
    /\ \A request \in requests : request.number \notin performed
    /\ \A request, other \in requests : request.number = other.number => request = other
    /\ call.op = "restart" =>
           /\ number \in 1..MaxRestarts
           /\ number \notin reported
           /\ call.at # "posted" =>
                  /\ number \notin performed
                  /\ \A request \in requests : request.number # number

DockerInv == DockerTypeOK /\ DesignatedInv /\ TargetInv /\ NumberInv

-----------------------------------------------------------------------------
(* The parts of a step.                                                    *)

\* The history variables keep their types, and designated only grows.
LEMMA NotesType ==
    ASSUME DockerTypeOK, NoteDesignated, NoteMoment,
           DOMAIN containers' \subseteq 1..created', created' \in Nat, created <= created'
    PROVE  /\ designated' \in [Configurable -> SUBSET (1..created')]
           /\ \A configured \in Configurable :
                  /\ designated[configured] \subseteq designated'[configured]
                  /\ Designated(configured)' \subseteq designated'[configured]
           /\ seen' \in [Fact -> BOOLEAN]
<1>1. /\ designated \in [Configurable -> SUBSET (1..created)] /\ created \in Nat
      /\ seen \in [Fact -> BOOLEAN]
  BY DockerConstants DEF DockerTypeOK, Configurable
<1>2. \A configured : Designated(configured)' \subseteq 1..created'
  BY DEF Designated
<1>3. 1..created \subseteq 1..created'
  BY <1>1
<1>4. designated' = [configured \in Configurable |->
                        designated[configured] \cup Designated(configured)']
  BY <1>1 DEF NoteDesignated
<1>5. designated' \in [Configurable -> SUBSET (1..created')]
  BY <1>1, <1>2, <1>3, <1>4
<1>6. \A configured \in Configurable :
          /\ designated[configured] \subseteq designated'[configured]
          /\ Designated(configured)' \subseteq designated'[configured]
  BY <1>4
<1>7. NothingSeen \in [Fact -> BOOLEAN]
  BY DEF NothingSeen
<1>8. seen' \in [Fact -> BOOLEAN]
  BY <1>1, <1>7, Zenon DEF NoteMoment
<1>. QED
  BY <1>5, <1>6, <1>8

\* The types of the engine and those of the client.
EngineTypeOK ==
    /\ created \in 0..MaxContainers
    /\ DOMAIN containers \subseteq 1..created
    /\ containers \in [DOMAIN containers -> Container]
    /\ listening \in BOOLEAN

ClientTypeOK ==
    /\ number \in 0..MaxRestarts
    /\ requests \subseteq [number : 1..number, id : 1..created]
    /\ call \in [op : Operation, ref : ContainerRef,
                 at : {"idle", "list", "inspect", "probe", "post", "posted"}]
    /\ answer \in [op : Operation, verdict : TriState]
    /\ reported \subseteq performed /\ performed \subseteq 1..number

-----------------------------------------------------------------------------
(* The calls.                                                              *)

\* A container of the list has a reference of its first name and its label.
LEMMA RefType ==
    ASSUME EngineTypeOK, NEW id \in DOMAIN containers
    PROVE  /\ Ref(id) \in ContainerRef
           /\ Ref(id).id = id /\ Ref(id).compose_service = containers[id].service
<1>1. containers[id].names \in Seq(Name) /\ containers[id].service \in Name
  BY DEF EngineTypeOK, Container
<1>2. NoName \in Name
  BY DEF Name
<1>3. id \in 0..created
  BY DEF EngineTypeOK
<1>4. containers[id].names # <<>> => Head(containers[id].names) \in Name
  BY <1>1
<1>. QED
  BY <1>1, <1>2, <1>3, <1>4 DEF Ref, ContainerRef

\* A call that ends leaves nothing under way.
LEMMA AnsweredType ==
    ASSUME ClientTypeOK, EngineTypeOK, NEW verdict \in TriState, Answered(verdict)
    PROVE  /\ call' \in [op : Operation, ref : ContainerRef,
                         at : {"idle", "list", "inspect", "probe", "post", "posted"}]
           /\ answer' \in [op : Operation, verdict : TriState]
           /\ call'.at = "idle" /\ call'.op = "none"
<1>1. 0 \in 0..created /\ NoName \in Name
  BY DEF EngineTypeOK, Name
<1>. QED
  BY <1>1 DEF Answered, Idle, NoRef, ClientTypeOK, ContainerRef, Operation

\* What every operation leaves alone, but for Begin, Post and Restarted.
Quiet == UNCHANGED <<requests, number, performed, reported>>

\* No request and no answer of the client disturbs a type.
LEMMA ClientKeepsType ==
    ASSUME DockerInv, Client
    PROVE  ClientTypeOK' /\ EngineTypeOK'
<1>. ClientTypeOK /\ EngineTypeOK
  BY DEF DockerInv, DockerTypeOK, ClientTypeOK, EngineTypeOK
<1>. DEFINE Called == [op : Operation, ref : ContainerRef,
                       at : {"idle", "list", "inspect", "probe", "post", "posted"}]
<1>0. EngineTypeOK' /\ created' = created /\ ContainerRef' = ContainerRef
  BY DEF Client, engineVars, EngineTypeOK, ContainerRef
<1>. SUFFICES ClientTypeOK'
  BY <1>0
<1>a. ASSUME call' \in Called, answer' \in [op : Operation, verdict : TriState], Quiet
      PROVE  ClientTypeOK'
  BY <1>0, <1>a DEF ClientTypeOK, Quiet
<1>b. ASSUME NEW verdict \in TriState, Answered(verdict), Quiet PROVE ClientTypeOK'
  BY <1>a, <1>b, AnsweredType
<1>c. call \in Called /\ answer \in [op : Operation, verdict : TriState]
  BY DEF ClientTypeOK
<1>1. ASSUME NEW op \in {"status", "database", "restart"}, Begin(op) PROVE ClientTypeOK'
  <2>1. call' \in Called
    <3>1. call' = [op |-> op, at |-> "list", ref |-> NoRef]
      BY <1>1 DEF Begin, Idle
    <3>2. NoRef \in ContainerRef
      BY DEF NoRef, EngineTypeOK, ContainerRef, Name
    <3>. QED
      BY <3>1, <3>2 DEF Operation
  <2>2. answer' \in [op : Operation, verdict : TriState]
    BY <1>1 DEF Begin, NoAnswer, Operation, TriState
  <2>3. number' \in 0..MaxRestarts /\ 1..number \subseteq 1..number'
    BY <1>1, DockerConstants DEF Begin, ClientTypeOK
  <2>4. requests' = requests /\ performed' = performed /\ reported' = reported
    BY <1>1 DEF Begin
  <2>. QED
    BY <1>0, <2>1, <2>2, <2>3, <2>4 DEF ClientTypeOK
<1>2. CASE List
  <2>1. Quiet
    BY <1>2 DEF List, Quiet
  <2>2. ASSUME NEW id \in Resolutions(Configured(call.op)),
               call' = [call EXCEPT !.at = IF call.op = "restart" THEN "post" ELSE "inspect",
                                    !.ref = Ref(id)],
               answer' = answer
        PROVE  ClientTypeOK'
    <3>1. id \in DOMAIN containers
      BY DEF Resolutions
    <3>. QED
      BY <1>a, <1>c, <2>1, <2>2, <3>1, RefType
  <2>3. ASSUME Answered(IF call.op = "restart" THEN "false" ELSE "unknown")
        PROVE  ClientTypeOK'
    BY <1>b, <2>1, <2>3 DEF TriState
  <2>. QED
    BY <1>2, <2>2, <2>3 DEF List
<1>3. CASE Status
  BY <1>b, <1>3 DEF Status, Inspected, Quiet
<1>4. CASE CheckDatabase
  <2>1. PICK running \in TriState, health \in Health :
            /\ Inspected(running, health)
            /\ \/ running = "false" /\ Answered("false")
               \/ /\ running # "false" /\ health # "none"
                  /\ Answered(OfHealth(health))
               \/ /\ running # "false" /\ health = "none"
                  /\ call' = [call EXCEPT !.at = "probe"]
                  /\ UNCHANGED answer
    BY <1>4 DEF CheckDatabase
  <2>2. Quiet
    BY <2>1 DEF Inspected, Quiet
  <2>3. OfHealth(health) \in TriState
    BY DEF OfHealth, Health, TriState
  <2>4. ASSUME call' = [call EXCEPT !.at = "probe"], UNCHANGED answer PROVE ClientTypeOK'
    BY <1>a, <1>c, <2>2, <2>4
  <2>. QED
    BY <1>b, <2>1, <2>2, <2>3, <2>4 DEF TriState
<1>5. CASE Probe
  BY <1>b, <1>5 DEF Probe, Quiet, TriState
<1>6. CASE Post
  <2>1. call' \in Called /\ answer' = answer
    BY <1>6, <1>c DEF Post
  <2>2. call.ref.id \in 1..created /\ number \in 1..number
    BY <1>6, DockerConstants
    DEF Post, DockerInv, DockerTypeOK, TargetInv, NumberInv
  <2>3. [number |-> number, id |-> call.ref.id] \in [number : 1..number, id : 1..created]
    BY <2>2
  <2>. QED
    BY <1>6, <1>0, <2>1, <2>3 DEF Post, ClientTypeOK
<1>7. CASE PostRefused \/ NotRestarted
  BY <1>b, <1>7 DEF PostRefused, NotRestarted, Quiet, TriState
<1>8. CASE Restarted
  <2>1. Answered("true") /\ "true" \in TriState
    BY <1>8 DEF Restarted, TriState
  <2>2. call' \in Called /\ answer' \in [op : Operation, verdict : TriState]
    BY <2>1, AnsweredType
  <2>. QED
    BY <1>8, <1>0, <2>2 DEF Restarted, ClientTypeOK
<1>. QED
  BY <1>0, <1>1, <1>2, <1>3, <1>4, <1>5, <1>6, <1>7, <1>8 DEF Client

\* A call resolves what is TeslaMate at that moment, and posts a request about it
\* only after it has made sure that the label is not that of the database.
LEMMA ClientKeepsTarget ==
    ASSUME DockerInv, Client,
           \A configured \in Configurable : designated[configured] \subseteq designated'[configured]
    PROVE  TargetInv'
<1>. ClientTypeOK /\ EngineTypeOK /\ TargetInv /\ DesignatedInv
  BY DEF DockerInv, DockerTypeOK, ClientTypeOK, EngineTypeOK
<1>0. /\ containers' = containers
      /\ designated[TESLAMATE_CONTAINER] \subseteq designated'[TESLAMATE_CONTAINER]
  BY DEF Client, engineVars, Configurable
<1>a. ASSUME requests' = requests, call'.at \notin {"post", "posted"} PROVE TargetInv'
  BY <1>0, <1>a DEF TargetInv
<1>b. ASSUME NEW verdict, Answered(verdict), requests' = requests PROVE TargetInv'
  BY <1>a, <1>b DEF Answered, Idle
<1>1. ASSUME NEW op \in {"status", "database", "restart"}, Begin(op) PROVE TargetInv'
  <2>1. call'.at = "list"
    BY <1>1 DEF Begin, Idle
  <2>. QED
    BY <1>1, <1>a, <2>1 DEF Begin
<1>2. CASE List
  <2>1. requests' = requests
    BY <1>2 DEF List
  <2>2. ASSUME NEW id \in Resolutions(Configured(call.op)),
               call' = [call EXCEPT !.at = IF call.op = "restart" THEN "post" ELSE "inspect",
                                    !.ref = Ref(id)]
        PROVE  TargetInv'
    <3>1. CASE call.op # "restart"
      BY <1>a, <2>1, <2>2, <3>1 DEF ClientTypeOK
    <3>2. CASE call.op = "restart"
      <4>1. /\ id \in Designated(TESLAMATE_CONTAINER)
            /\ id \in DOMAIN containers
        BY <3>2 DEF Resolutions, Designated, Configured
      <4>2. id \in designated[TESLAMATE_CONTAINER]
        BY <4>1 DEF DesignatedInv, Configurable
      <4>3. Ref(id).id = id /\ Ref(id).compose_service = containers[id].service
        BY <4>1, RefType
      <4>4. call'.op = "restart" /\ call'.ref = Ref(id)
        BY <2>2, <3>2 DEF ClientTypeOK
      <4>. QED
        BY <1>0, <2>1, <4>2, <4>3, <4>4 DEF TargetInv
    <3>. QED
      BY <3>1, <3>2
  <2>. QED
    BY <1>2, <1>b, <2>1, <2>2 DEF List
<1>3. CASE Status
  BY <1>b, <1>3 DEF Status, Inspected
<1>4. CASE CheckDatabase
  <2>1. requests' = requests
    BY <1>4 DEF CheckDatabase, Inspected
  <2>2. call' = [call EXCEPT !.at = "probe"] => call'.at = "probe"
    BY DEF ClientTypeOK
  <2>. QED
    BY <1>4, <1>a, <1>b, <2>1, <2>2 DEF CheckDatabase
<1>5. CASE Probe \/ PostRefused \/ Restarted \/ NotRestarted
  BY <1>b, <1>5 DEF Probe, PostRefused, Restarted, NotRestarted
<1>6. CASE Post
  <2>1. /\ call'.op = call.op /\ call'.ref = call.ref
        /\ requests' = requests \cup {[number |-> number, id |-> call.ref.id]}
    BY <1>6 DEF Post, ClientTypeOK
  <2>2. /\ call.op = "restart" /\ call.ref.id \in designated[TESLAMATE_CONTAINER]
        /\ call.ref.id \in DOMAIN containers =>
               containers[call.ref.id].service = call.ref.compose_service
    BY <1>6 DEF Post, TargetInv
  <2>3. call.ref.compose_service # DATABASE_CONTAINER
    BY <1>6 DEF Post, Refused, Matches
  <2>. QED
    BY <1>0, <2>1, <2>2, <2>3 DEF TargetInv
<1>. QED
  BY <1>1, <1>2, <1>3, <1>4, <1>5, <1>6 DEF Client

\* A call has a number of its own, which it asks for once and reports once.
LEMMA ClientKeepsNumber ==
    ASSUME DockerInv, Client
    PROVE  NumberInv'
<1>. ClientTypeOK /\ NumberInv /\ TargetInv
  BY DEF DockerInv, DockerTypeOK, ClientTypeOK
<1>a. ASSUME UNCHANGED <<requests, performed, reported, number>>,
             call'.op = call.op, call.at # "posted"
      PROVE  NumberInv'
  BY <1>a DEF NumberInv
<1>b. ASSUME NEW verdict, Answered(verdict), UNCHANGED <<requests, performed>>
      PROVE  NumberInv'
  BY <1>b DEF NumberInv, Answered, Idle
<1>1. ASSUME NEW op \in {"status", "database", "restart"}, Begin(op) PROVE NumberInv'
  <2>1. call'.op = op /\ requests' = requests /\ performed' = performed /\ reported' = reported
    BY <1>1 DEF Begin, Idle
  <2>2. op = "restart" => /\ number' = number + 1 /\ number' \in 1..MaxRestarts
                          /\ number' \notin 1..number
    BY <1>1, DockerConstants DEF Begin, ClientTypeOK
  <2>3. \A request \in requests : request.number \in 1..number
    BY DEF ClientTypeOK
  <2>. QED
    BY <2>1, <2>2, <2>3 DEF NumberInv, ClientTypeOK
<1>2. CASE List
  <2>1. UNCHANGED <<requests, performed, reported, number>> /\ call.at # "posted"
    BY <1>2 DEF List
  <2>2. ASSUME NEW id,
               call' = [call EXCEPT !.at = IF call.op = "restart" THEN "post" ELSE "inspect",
                                    !.ref = Ref(id)]
        PROVE  call'.op = call.op
    BY <2>2 DEF ClientTypeOK
  <2>. QED
    BY <1>2, <1>a, <1>b, <2>1, <2>2 DEF List
<1>3. CASE Status
  BY <1>b, <1>3 DEF Status, Inspected
<1>4. CASE CheckDatabase
  <2>1. UNCHANGED <<requests, performed, reported, number>> /\ call.at # "posted"
    BY <1>4 DEF CheckDatabase, Inspected
  <2>2. call' = [call EXCEPT !.at = "probe"] => call'.op = call.op
    BY DEF ClientTypeOK
  <2>. QED
    BY <1>4, <1>a, <1>b, <2>1, <2>2 DEF CheckDatabase
<1>5. CASE Probe \/ PostRefused \/ Restarted \/ NotRestarted
  BY <1>b, <1>5 DEF Probe, PostRefused, Restarted, NotRestarted
<1>6. CASE Post
  <2>1. /\ call'.op = call.op /\ call'.at = "posted" /\ call.op = "restart"
        /\ call.at # "posted"
        /\ requests' = requests \cup {[number |-> number, id |-> call.ref.id]}
        /\ UNCHANGED <<number, performed, reported>>
    BY <1>6 DEF Post, ClientTypeOK, TargetInv
  <2>2. [number |-> number, id |-> call.ref.id].number = number
    OBVIOUS
  <2>. QED
    BY <2>1, <2>2 DEF NumberInv
<1>. QED
  BY <1>1, <1>2, <1>3, <1>4, <1>5, <1>6 DEF Client

-----------------------------------------------------------------------------
(* Docker and its other users.                                             *)

\* What becomes of the containers that Docker does not restart for the watchdog.
Others ==
    \/ \E kind \in Kinds : Create(kind)
    \/ \E id \in DOMAIN containers :
           \/ Delete(id)
           \/ \E names \in Renames : Rename(id, names)
           \/ StateChanges(id)
    \/ ListeningChanges

\* Containers keep their types, new ones have new ids, and none changes its label.
LEMMA ContainersChange ==
    ASSUME EngineTypeOK, Others
    PROVE  /\ EngineTypeOK' /\ created <= created'
           /\ \A id \in 1..created : id \in DOMAIN containers' =>
                  id \in DOMAIN containers /\ containers'[id].service = containers[id].service
<1>1. ASSUME NEW kind \in Kinds, Create(kind)
      PROVE  /\ EngineTypeOK' /\ created <= created'
             /\ \A id \in 1..created : id \in DOMAIN containers' =>
                    id \in DOMAIN containers /\ containers'[id].service = containers[id].service
  <2>1. kind.names \in Seq(Name) /\ kind.service \in Name
    BY DockerConstants
  <2>2. PICK running \in BOOLEAN :
            containers' = [id \in DOMAIN containers \cup {created'} |->
                IF id = created'
                THEN [names |-> kind.names, service |-> kind.service, running |-> running,
                      health |-> IF kind.checked THEN "starting" ELSE "none"]
                ELSE containers[id]]
    BY <1>1 DEF Create
  <2>3. [names |-> kind.names, service |-> kind.service, running |-> running,
         health |-> IF kind.checked THEN "starting" ELSE "none"] \in Container
    BY <2>1 DEF Container, Health
  <2>4. /\ created' = created + 1 /\ created \in Nat /\ created' \in 0..MaxContainers
        /\ listening' = listening
    BY <1>1, DockerConstants DEF Create, EngineTypeOK
  <2>5. created' \notin 1..created /\ 1..created \subseteq 1..created' /\ created' \in 1..created'
    BY <2>4
  <2>6. DOMAIN containers' = DOMAIN containers \cup {created'}
    BY <2>2
  <2>7. containers' \in [DOMAIN containers' -> Container]
    BY <2>2, <2>3, <2>6 DEF EngineTypeOK
  <2>8. \A id \in 1..created : id \in DOMAIN containers' =>
            id \in DOMAIN containers /\ containers'[id] = containers[id]
    BY <2>2, <2>5
  <2>. QED
    BY <2>4, <2>5, <2>6, <2>7, <2>8 DEF EngineTypeOK
<1>2. ASSUME NEW id \in DOMAIN containers,
             Delete(id) \/ (\E names \in Renames : Rename(id, names)) \/ StateChanges(id)
      PROVE  /\ EngineTypeOK' /\ created <= created'
             /\ \A other \in DOMAIN containers' :
                    other \in DOMAIN containers /\ containers'[other].service = containers[other].service
  <2>a. created' = created /\ listening' = listening
    BY <1>2 DEF Delete, Rename, StateChanges
  <2>b. created <= created
    BY DockerConstants DEF EngineTypeOK
  <2>1. created' = created /\ listening' = listening /\ created <= created
    BY <2>a, <2>b
  <2>2. CASE Delete(id)
    BY <2>1, <2>2 DEF Delete, EngineTypeOK
  <2>3. ASSUME NEW names \in Renames, Rename(id, names)
        PROVE  /\ containers' \in [DOMAIN containers -> Container]
               /\ \A other \in DOMAIN containers : containers'[other].service = containers[other].service
    <3>1. names \in Seq(Name) /\ containers[id] \in Container
      BY DockerConstants DEF EngineTypeOK
    <3>2. containers' = [containers EXCEPT ![id] = [containers[id] EXCEPT !.names = names]]
      BY <2>3 DEF Rename
    <3>3. /\ [containers[id] EXCEPT !.names = names] \in Container
          /\ [containers[id] EXCEPT !.names = names].service = containers[id].service
      BY <3>1 DEF Container
    <3>. QED
      BY <3>2, <3>3 DEF EngineTypeOK
  <2>4. ASSUME NEW running \in BOOLEAN, NEW health \in Health,
               containers' = [containers EXCEPT ![id].running = running, ![id].health = health]
        PROVE  /\ containers' \in [DOMAIN containers -> Container]
               /\ \A other \in DOMAIN containers : containers'[other].service = containers[other].service
    <3>1. containers[id] \in Container
      BY DEF EngineTypeOK
    <3>2. containers' = [containers EXCEPT
                            ![id] = [containers[id] EXCEPT !.running = running, !.health = health]]
      BY <2>4
    <3>3. /\ [containers[id] EXCEPT !.running = running, !.health = health] \in Container
          /\ [containers[id] EXCEPT !.running = running, !.health = health].service
                 = containers[id].service
      BY <3>1 DEF Container
    <3>. QED
      BY <3>2, <3>3 DEF EngineTypeOK
  <2>5. CASE (\E names \in Renames : Rename(id, names)) \/ StateChanges(id)
    <3>1. /\ containers' \in [DOMAIN containers -> Container]
          /\ \A other \in DOMAIN containers : containers'[other].service = containers[other].service
      BY <2>3, <2>4, <2>5 DEF StateChanges
    <3>2. DOMAIN containers' = DOMAIN containers
      BY <3>1
    <3>. QED
      BY <2>1, <3>1, <3>2 DEF EngineTypeOK
  <2>. QED
    BY <1>2, <2>2, <2>5
<1>3. CASE ListeningChanges
  BY <1>3 DEF ListeningChanges, EngineTypeOK
<1>. QED
  BY <1>1, <1>2, <1>3 DEF Others

\* Docker restarts what it was asked to, which the notes then count as performed.
LEMMA EngineKeepsType ==
    ASSUME DockerInv, Engine
    PROVE  /\ EngineTypeOK' /\ ClientTypeOK' /\ created <= created'
           /\ \A id \in 1..created : id \in DOMAIN containers' =>
                  id \in DOMAIN containers /\ containers'[id].service = containers[id].service
<1>. ClientTypeOK /\ EngineTypeOK /\ created \in Nat /\ created <= created
  BY DockerConstants DEF DockerInv, DockerTypeOK, ClientTypeOK, EngineTypeOK
<1>1. ASSUME NEW request \in requests, DockerRestarts(request) PROVE
           /\ EngineTypeOK' /\ ClientTypeOK' /\ created <= created'
           /\ \A id \in 1..created : id \in DOMAIN containers' =>
                  id \in DOMAIN containers /\ containers'[id].service = containers[id].service
  <2>1. /\ containers' = [containers EXCEPT ![request.id] = [containers[request.id] EXCEPT !.running = TRUE]]
        /\ containers[request.id] \in Container /\ created' = created /\ listening' = listening
        /\ request.id \in DOMAIN containers
    BY <1>1 DEF DockerRestarts, EngineTypeOK
  <2>2. /\ [containers[request.id] EXCEPT !.running = TRUE] \in Container
        /\ [containers[request.id] EXCEPT !.running = TRUE].service = containers[request.id].service
    BY <2>1 DEF Container
  <2>3. /\ containers' \in [DOMAIN containers' -> Container]
        /\ DOMAIN containers' = DOMAIN containers
        /\ \A id \in DOMAIN containers : containers'[id].service = containers[id].service
    BY <2>1, <2>2 DEF EngineTypeOK
  <2>4. EngineTypeOK'
    BY <2>1, <2>3 DEF EngineTypeOK
  <2>5. request.number \in 1..number
    BY DEF ClientTypeOK
  <2>6. ClientTypeOK'
    BY <1>1, <2>1, <2>5 DEF DockerRestarts, ClientTypeOK, ContainerRef
  <2>. QED
    BY <2>1, <2>3, <2>4, <2>6
<1>2. ASSUME NEW request \in requests, DockerRefuses(request) PROVE
           /\ EngineTypeOK' /\ ClientTypeOK' /\ created <= created'
           /\ \A id \in 1..created : id \in DOMAIN containers' =>
                  id \in DOMAIN containers /\ containers'[id].service = containers[id].service
  <2>1. created' = created /\ containers' = containers /\ listening' = listening
    BY <1>2 DEF DockerRefuses, engineVars
  <2>2. EngineTypeOK'
    BY <2>1 DEF EngineTypeOK
  <2>3. ClientTypeOK'
    BY <1>2, <2>1 DEF DockerRefuses, ClientTypeOK, ContainerRef
  <2>. QED
    BY <2>1, <2>2, <2>3
<1>3. ASSUME Others, UNCHANGED <<requests, call, number, answer, performed, reported>>
      PROVE  ClientTypeOK'
  <2>1. 1..created \subseteq 1..created' /\ 0..created \subseteq 0..created'
    BY <1>3, ContainersChange DEF EngineTypeOK
  <2>2. ContainerRef \subseteq ContainerRef'
    BY <2>1 DEF ContainerRef
  <2>3. [number : 1..number, id : 1..created] \subseteq [number : 1..number, id : 1..created']
    BY <2>1
  <2>4. call \in [op : Operation, ref : ContainerRef',
                 at : {"idle", "list", "inspect", "probe", "post", "posted"}]
    BY <2>2 DEF ClientTypeOK
  <2>. QED
    BY <1>3, <2>3, <2>4 DEF ClientTypeOK
<1>. QED
  BY <1>1, <1>2, <1>3, ContainersChange DEF Engine, Others

\* Requests stay about what they were made for, and each is ended once.
LEMMA EngineKeepsRequests ==
    ASSUME DockerInv, Engine,
           \A configured \in Configurable : designated[configured] \subseteq designated'[configured]
    PROVE  TargetInv' /\ NumberInv'
<1>. TargetInv /\ NumberInv /\ ClientTypeOK
  BY DEF DockerInv, DockerTypeOK, ClientTypeOK
<1>1. call' = call /\ number' = number /\ reported' = reported /\ requests' \subseteq requests
  BY DEF Engine, DockerRestarts, DockerRefuses
<1>2. designated[TESLAMATE_CONTAINER] \subseteq 1..created
  BY DockerConstants DEF DockerInv, DockerTypeOK
<1>3. \A id \in designated[TESLAMATE_CONTAINER] : id \in DOMAIN containers' =>
          id \in DOMAIN containers /\ containers'[id].service = containers[id].service
  BY <1>2, EngineKeepsType
<1>4. TargetInv'
  BY <1>1, <1>3 DEF TargetInv, Configurable
<1>5. NumberInv'
  <2>1. ASSUME NEW request \in requests, DockerRestarts(request) PROVE NumberInv'
    <3>1. /\ requests' = requests \ {request} /\ performed' = performed \cup {request.number}
          /\ UNCHANGED <<call, number, reported>>
      BY <2>1 DEF DockerRestarts
    <3>. QED
      BY <3>1 DEF NumberInv
  <2>2. performed' = performed => NumberInv'
    BY <1>1 DEF NumberInv
  <2>3. performed' = performed \/ \E request \in requests : DockerRestarts(request)
    BY DEF Engine, DockerRefuses
  <2>. QED
    BY <2>1, <2>2, <2>3
<1>. QED
  BY <1>4, <1>5

-----------------------------------------------------------------------------
(* The theorems.                                                           *)

\* Nothing has been called or restarted to begin with.
LEMMA InitDocker == Init => DockerInv
<1>. SUFFICES ASSUME Init PROVE DockerInv
  OBVIOUS
<1>1. containers = <<>> /\ DOMAIN containers = {}
  BY DEF Init
<1>2. EngineTypeOK
  <2>1. created \in 0..MaxContainers
    BY DockerConstants DEF Init
  <2>2. listening \in BOOLEAN
    BY Zenon DEF Init
  <2>3. DOMAIN containers \subseteq 1..created /\ containers \in [DOMAIN containers -> Container]
    BY <1>1
  <2>. QED
    BY <2>1, <2>2, <2>3 DEF EngineTypeOK
<1>3. ClientTypeOK
  BY DockerConstants
  DEF Init, ClientTypeOK, Idle, NoRef, NoAnswer, ContainerRef, Operation, TriState, Name
<1>4. designated = [configured \in Configurable |-> {}] /\ seen \in [Fact -> BOOLEAN]
  BY DEF Init, Configurable, NothingSeen
<1>5. DockerTypeOK
  BY <1>2, <1>3, <1>4 DEF DockerTypeOK, EngineTypeOK, ClientTypeOK, Configurable
<1>6. DesignatedInv
  BY <1>1 DEF DesignatedInv, Designated
<1>7. TargetInv /\ NumberInv
  BY DEF Init, Idle, TargetInv, NumberInv
<1>. QED
  BY <1>5, <1>6, <1>7 DEF DockerInv

\* Each step of the client and of the engine keeps the invariant.
LEMMA NextKeepsDocker ==
    ASSUME DockerInv, [Next]_vars
    PROVE  DockerInv'
<1>1. CASE UNCHANGED vars
  BY <1>1 DEF vars, engineVars, DockerInv, DockerTypeOK, DesignatedInv, Designated, TargetInv,
      NumberInv, ContainerRef
<1>2. CASE Next
  <2>1. EngineTypeOK' /\ ClientTypeOK' /\ created \in Nat /\ created' \in Nat /\ created <= created'
    <3>1. created \in Nat /\ created <= created
      BY DockerConstants DEF DockerInv, DockerTypeOK
    <3>2. Client => created' = created
      BY DEF Client, engineVars
    <3>3. EngineTypeOK' /\ ClientTypeOK' /\ created <= created'
      BY <1>2, <3>1, <3>2, ClientKeepsType, EngineKeepsType DEF Next
    <3>. QED
      BY <3>1, <3>3, DockerConstants DEF EngineTypeOK
  <2>2. /\ designated' \in [Configurable -> SUBSET (1..created')]
        /\ \A configured \in Configurable :
               /\ designated[configured] \subseteq designated'[configured]
               /\ Designated(configured)' \subseteq designated'[configured]
        /\ seen' \in [Fact -> BOOLEAN]
    BY <1>2, <2>1, NotesType DEF Next, DockerInv, EngineTypeOK
  <2>3. DockerTypeOK'
    BY <2>1, <2>2 DEF DockerTypeOK, EngineTypeOK, ClientTypeOK, Configurable
  <2>4. DesignatedInv'
    BY <2>2 DEF DesignatedInv
  <2>5. TargetInv' /\ NumberInv'
    BY <1>2, <2>2, ClientKeepsTarget, ClientKeepsNumber, EngineKeepsRequests DEF Next
  <2>. QED
    BY <2>3, <2>4, <2>5 DEF DockerInv
<1>. QED
  BY <1>1, <1>2

\* The invariant the three theorems rest on.
LEMMA DockerInvariant == Spec => []DockerInv
<1>1. DockerInv /\ [Next]_vars => DockerInv'
  BY NextKeepsDocker
<1>. QED
  BY InitDocker, <1>1, PTL DEF Spec

\* Engine, client and notes keep their types, for any containers and names.
THEOREM DockerTypeCorrect == Spec => []DockerTypeOK
<1>1. DockerInv => DockerTypeOK
  BY DEF DockerInv
<1>. QED
  BY DockerInvariant, <1>1, PTL

\* A restart takes place in one step of Docker's, for one request.
LEMMA PerformedBy ==
    ASSUME DockerInv, Next
    PROVE  \/ performed' = performed
           \/ /\ UNCHANGED <<number, reported>>
              /\ \E request \in requests :
                     /\ request.id \in DOMAIN containers
                     /\ performed' = performed \cup {request.number}
BY DEF Next, Client, Begin, List, Status, Inspected, CheckDatabase, Probe, Post, PostRefused,
    Restarted, NotRestarted, Engine, DockerRestarts, DockerRefuses

\* Nothing is ever restarted but what was TeslaMate, and no container of the
\* database service is, however the containers are named, replaced and renamed.
THEOREM OnlyTeslaMateRestarted == Spec => RestartedIsTeslaMate
<1>1. DockerInv /\ [Next]_vars =>
          [\A request \in requests :
              request.number \in performed' \ performed =>
                  /\ request.id \in designated[TESLAMATE_CONTAINER]
                  /\ containers[request.id].service # DATABASE_CONTAINER]_vars
  <2>. SUFFICES ASSUME DockerInv, Next, NEW request \in requests,
                       request.number \in performed' \ performed
                PROVE  /\ request.id \in designated[TESLAMATE_CONTAINER]
                       /\ containers[request.id].service # DATABASE_CONTAINER
    OBVIOUS
  <2>1. PICK other \in requests : /\ other.id \in DOMAIN containers
                                  /\ performed' = performed \cup {other.number}
    BY PerformedBy
  <2>2. request = other
    BY <2>1 DEF DockerInv, NumberInv
  <2>. QED
    BY <2>1, <2>2 DEF DockerInv, TargetInv
<1>. QED
  BY DockerInvariant, <1>1, PTL DEF Spec, RestartedIsTeslaMate

\* The client reports as done only what Docker did for that very call, and no
\* call is performed twice: restart() is what the recovery controller relies on.
THEOREM ClientImplementsRestartCalls == Spec => ImplementsRestartCalls
<1>1. Init => Calls!Init
  BY DEF Init, Calls!Init
<1>2. DockerInv /\ [Next]_vars => [Calls!Next]_(Calls!vars)
  <2>. SUFFICES ASSUME DockerInv, [Next]_vars
                PROVE  Calls!Next \/ UNCHANGED <<1..number, performed, reported>>
    BY DEF Calls!vars
  <2>. DockerTypeOK /\ NumberInv
    BY DEF DockerInv
  <2>1. CASE UNCHANGED vars
    BY <2>1 DEF vars
  <2>2. CASE Next /\ performed' # performed
    <3>1. PICK request \in requests : performed' = performed \cup {request.number}
      BY <2>2, PerformedBy
    <3>2. UNCHANGED <<number, reported>>
      BY <2>2, PerformedBy
    <3>3. request.number \in (1..number) \ performed /\ 1..number \subseteq 1..MaxRestarts
      BY DockerConstants DEF DockerTypeOK, NumberInv
    <3>4. Calls!Perform(request.number)
      BY <3>1, <3>2, <3>3 DEF Calls!Perform
    <3>. QED
      BY <3>3, <3>4 DEF Calls!Next
  <2>3. CASE Client /\ performed' = performed
    <3>1. ASSUME NEW op \in {"status", "database", "restart"}, Begin(op)
          PROVE  Calls!Next \/ UNCHANGED <<1..number, performed, reported>>
      <4>1. CASE op # "restart"
        BY <3>1, <4>1 DEF Begin
      <4>2. CASE op = "restart"
        <5>1. number' = number + 1 /\ number \in 0..MaxRestarts /\ number < MaxRestarts
              /\ performed' = performed /\ reported' = reported
          BY <3>1, <4>2 DEF Begin, DockerTypeOK
        <5>2. /\ number' \in 1..MaxRestarts /\ number' \notin 1..number
              /\ 1..number' = (1..number) \cup {number'}
          BY <5>1, DockerConstants
        <5>3. Calls!Ask(number')
          BY <5>1, <5>2 DEF Calls!Ask
        <5>. QED
          BY <5>2, <5>3 DEF Calls!Next
      <4>. QED
        BY <4>1, <4>2
    <3>2. CASE Restarted
      <4>1. /\ number \in performed /\ number \notin reported
            /\ reported' = reported \cup {number} /\ number' = number
        BY <3>2, <2>3 DEF Restarted, NumberInv, DockerTypeOK, TargetInv, DockerInv
      <4>2. Calls!Report(number) /\ number \in 1..MaxRestarts
        BY <2>3, <4>1, DockerConstants DEF Calls!Report, DockerTypeOK
      <4>. QED
        BY <4>2 DEF Calls!Next
    <3>3. CASE List \/ Status \/ CheckDatabase \/ Probe \/ Post \/ PostRefused \/ NotRestarted
      BY <3>3 DEF List, Status, CheckDatabase, Inspected, Probe, Post, PostRefused, NotRestarted
    <3>. QED
      BY <2>3, <3>1, <3>2, <3>3 DEF Client
  <2>4. CASE Engine /\ performed' = performed
    BY <2>4 DEF Engine, DockerRestarts, DockerRefuses
  <2>. QED
    BY <2>1, <2>2, <2>3, <2>4 DEF Next
<1>. QED
  BY DockerInvariant, <1>1, <1>2, PTL DEF Spec, ImplementsRestartCalls, Calls!Spec

-----------------------------------------------------------------------------
(* What the verdicts are made of.                                          *)

\* Whatever is the case while a call is under way is noted, and what the call
\* inspects has had the name or the label it looks for.
ObservedInv ==
    /\ call.at # "idle" => \A fact \in Fact : Moment[fact] => seen[fact]
    /\ call.at = "list" => call.op # "none"
    /\ call.at = "inspect" => /\ call.op \in {"status", "database"}
                              /\ call.ref.id \in designated[Configured(call.op)]
    /\ call.at = "probe" => call.op = "database"

\* Nothing is forgotten in the course of a call.
LEMMA MomentNoted ==
    ASSUME NoteMoment, call'.at # "idle"
    PROVE  \A fact \in Fact : Moment'[fact] => seen'[fact]
BY DEF NoteMoment

\* What is the case at a moment, fact by fact.
LEMMA MomentFacts ==
    /\ Moment["stopped"] <=>
           /\ call.op = "status"
           /\ \E id \in designated[Configured(call.op)] \cap DOMAIN containers :
                  ~containers[id].running
    /\ Moment["healthy"] <=>
           /\ call.op = "database"
           /\ \E id \in designated[Configured(call.op)] \cap DOMAIN containers :
                  containers[id].running /\ containers[id].health = "healthy"
    /\ Moment["listening"] <=> call.op = "database" /\ listening
BY Zenon DEF Moment

\* A call that goes on inspects what it has just resolved.
LEMMA ClientKeepsObserved ==
    ASSUME DockerInv, ObservedInv, Client, call'.at # "idle",
           \A configured \in Configurable : designated[configured] \subseteq designated'[configured]
    PROVE  /\ call'.at = "list" => call'.op # "none"
           /\ call'.at = "inspect" => /\ call'.op \in {"status", "database"}
                                      /\ call'.ref.id \in designated'[Configured(call'.op)]
           /\ call'.at = "probe" => call'.op = "database"
<1>. ClientTypeOK /\ EngineTypeOK /\ DesignatedInv
  BY DEF DockerInv, DockerTypeOK, ClientTypeOK, EngineTypeOK
<1>. ~\E verdict : Answered(verdict)
  BY DEF Answered, Idle
<1>1. ASSUME NEW op \in {"status", "database", "restart"}, Begin(op)
      PROVE  call'.at = "list" /\ call'.op # "none"
  BY <1>1 DEF Begin, Idle
<1>2. CASE List
  <2>1. PICK id \in Resolutions(Configured(call.op)) :
            call' = [call EXCEPT !.at = IF call.op = "restart" THEN "post" ELSE "inspect",
                                 !.ref = Ref(id)]
    BY <1>2 DEF List
  <2>2. id \in DOMAIN containers /\ id \in Designated(Configured(call.op))
    BY DEF Resolutions, Designated
  <2>3. Configured(call.op) \in Configurable
    BY DEF Configured, Configurable
  <2>4. id \in designated'[Configured(call.op)]
    BY <2>2, <2>3 DEF DesignatedInv
  <2>5. call'.op = call.op /\ call'.ref.id = id
        /\ call'.at = IF call.op = "restart" THEN "post" ELSE "inspect"
    BY <2>1, <2>2, RefType DEF ClientTypeOK
  <2>6. call.op # "none"
    BY <1>2 DEF List, ObservedInv
  <2>. QED
    BY <2>4, <2>5, <2>6 DEF ClientTypeOK, Operation
<1>3. CASE CheckDatabase
  BY <1>3 DEF CheckDatabase, ClientTypeOK
<1>4. CASE Post
  BY <1>4 DEF Post, ClientTypeOK
<1>. QED
  BY <1>1, <1>2, <1>3, <1>4
  DEF Client, Status, Probe, PostRefused, Restarted, NotRestarted

\* ObservedInv is an invariant.
LEMMA ObservedInvariant == Spec => []ObservedInv
<1>1. Init => ObservedInv
  BY DEF Init, Idle, ObservedInv
<1>2. DockerInv /\ DockerInv' /\ ObservedInv /\ [Next]_vars => ObservedInv'
  <2>. SUFFICES ASSUME DockerInv, DockerInv', ObservedInv, [Next]_vars PROVE ObservedInv'
    OBVIOUS
  <2>1. CASE UNCHANGED vars
    BY <2>1, Zenon DEF vars, engineVars, ObservedInv, Moment
  <2>2. CASE Next /\ call'.at = "idle"
    BY <2>2 DEF ObservedInv
  <2>3. CASE Next /\ call'.at # "idle"
    <3>1. \A fact \in Fact : Moment'[fact] => seen'[fact]
      BY <2>3, MomentNoted DEF Next
    <3>2. \A configured \in Configurable : designated[configured] \subseteq designated'[configured]
      BY <2>3, DockerConstants DEF Next, NoteDesignated, DockerInv, DockerTypeOK, Configurable
    <3>3. CASE Client
      BY <2>3, <3>1, <3>2, <3>3, ClientKeepsObserved DEF ObservedInv
    <3>4. CASE Engine
      <4>1. call' = call
        BY <3>4 DEF Engine, DockerRestarts, DockerRefuses
      <4>2. Configured(call.op) \in Configurable
        BY DEF Configured, Configurable
      <4>. QED
        BY <3>1, <3>2, <4>1, <4>2 DEF ObservedInv
    <3>. QED
      BY <2>3, <3>3, <3>4 DEF Next
  <2>. QED
    BY <2>1, <2>2, <2>3
<1>. QED
  BY <1>1, <1>2, DockerInvariant, PTL DEF Spec

\* No verdict of status() or check_database() is made up of requests that
\* failed, or of two containers: TeslaMate was seen stopped, or the database
\* healthy or listening, in the course of that call.
THEOREM VerdictsObserved == Spec => VerdictsAreObserved
<1>1. DockerInv /\ ObservedInv /\ [Next]_vars =>
          (Ending =>
              /\ answer' = [op |-> "status", verdict |-> "false"] => seen.stopped
              /\ answer' = [op |-> "database", verdict |-> "true"] =>
                     seen.healthy \/ seen.listening)
  <2>. SUFFICES ASSUME DockerInv, ObservedInv, Next, Ending
                PROVE  /\ answer' = [op |-> "status", verdict |-> "false"] => seen.stopped
                       /\ answer' = [op |-> "database", verdict |-> "true"] =>
                              seen.healthy \/ seen.listening
    BY DEF Ending, vars
  <2>1. /\ Moment["stopped"] => seen.stopped
        /\ Moment["healthy"] => seen.healthy
        /\ Moment["listening"] => seen.listening
    BY DEF ObservedInv, Ending, Fact
  <2>2. Client
    BY DEF Next, Engine, DockerRestarts, DockerRefuses, Ending
  <2>3. ASSUME NEW verdict, Answered(verdict)
        PROVE  /\ answer' = [op |-> "status", verdict |-> "false"] =>
                      call.op = "status" /\ verdict = "false"
               /\ answer' = [op |-> "database", verdict |-> "true"] =>
                      call.op = "database" /\ verdict = "true"
    BY <2>3 DEF Answered
  <2>4. ASSUME NEW running, NEW health, Inspected(running, health)
        PROVE  /\ call.op = "status" /\ running = "false" => Moment["stopped"]
               /\ call.op = "database" /\ running # "false" /\ health = "healthy" =>
                      Moment["healthy"]
    <3>1. call.ref.id \in designated[Configured(call.op)]
      BY <2>4 DEF Inspected, ObservedInv
    <3>2. running = "false" => /\ call.ref.id \in DOMAIN containers
                               /\ ~containers[call.ref.id].running
      BY <2>4 DEF Inspected
    <3>3. running # "false" /\ health = "healthy" =>
              /\ call.ref.id \in DOMAIN containers
              /\ containers[call.ref.id].running
              /\ containers[call.ref.id].health = "healthy"
      BY <2>4 DEF Inspected
    <3>. QED
      BY <3>1, <3>2, <3>3, MomentFacts
  <2>5. CASE List \/ PostRefused \/ NotRestarted \/ Restarted
    <3>1. CASE List
      <4>1. Answered(IF call.op = "restart" THEN "false" ELSE "unknown")
        BY <3>1 DEF List, Ending, DockerInv, DockerTypeOK
      <4>. QED
        BY <2>3, <4>1
    <3>2. CASE PostRefused \/ NotRestarted \/ Restarted
      <4>1. call.op = "restart"
        BY <3>2 DEF PostRefused, NotRestarted, Restarted, DockerInv, TargetInv
      <4>. QED
        BY <2>3, <3>2, <4>1 DEF PostRefused, NotRestarted, Restarted
    <3>. QED
      BY <2>5, <3>1, <3>2
  <2>6. CASE Status
    BY <2>1, <2>3, <2>4, <2>6 DEF Status
  <2>7. CASE CheckDatabase
    <3>1. PICK running \in TriState, health \in Health :
              /\ Inspected(running, health)
              /\ \/ running = "false" /\ Answered("false")
                 \/ running # "false" /\ Answered(OfHealth(health))
      BY <2>7 DEF CheckDatabase, Ending, DockerInv, DockerTypeOK
    <3>2. OfHealth(health) = "true" => health = "healthy"
      BY DEF OfHealth
    <3>. QED
      BY <2>1, <2>3, <2>4, <2>7, <3>1, <3>2 DEF CheckDatabase
  <2>8. CASE Probe
    <3>1. call.op = "database" /\ Answered(IF listening THEN "true" ELSE "false")
      BY <2>8 DEF Probe, ObservedInv
    <3>. QED
      BY <2>1, <2>3, <3>1, MomentFacts
  <2>9. ~(\E op \in {"status", "database", "restart"} : Begin(op)) /\ ~Post
    BY DEF Begin, Idle, Post, Ending, DockerInv, DockerTypeOK
  <2>10. List \/ Status \/ CheckDatabase \/ Probe \/ PostRefused \/ NotRestarted \/ Restarted
    BY <2>2, <2>9 DEF Client
  <2>. QED
    BY <2>5, <2>6, <2>7, <2>8, <2>10
<1>. QED
  BY DockerInvariant, ObservedInvariant, <1>1, PTL DEF Spec, VerdictsAreObserved
=============================================================================

---------------------------- MODULE Availability ----------------------------
(***************************************************************************)
(* The watchdog's own presence on MQTT: src/src/mqtt_client.py from the    *)
(* start of a process to its end, the discovery hook of ha_discovery.py    *)
(* and the retained status that each cycle of main.py publishes, with the  *)
(* broker, the connection and the deaths of the process.                   *)
(*                                                                         *)
(* Three parties take steps: the thread of the loop, paho's thread and the *)
(* broker. Every message is of QoS 1: paho holds what is published,        *)
(* connected or not, until it is acknowledged. What it holds when it opens *)
(* a connection it sends again when _on_connect has returned, in the order *)
(* of publication: what is published between these two overtakes it.       *)
(*                                                                         *)
(* The history variable "excuses" records the four events after which the  *)
(* code, as written, does not keep what the properties below ask for.      *)
(***************************************************************************)
EXTENDS Integers, SequencesExt

CONSTANTS
    Conclusions,        \* what a cycle may publish on the status topics
    Nothing,            \* a topic without a retained message
    MaxProcesses,       \* bound of the processes started one after the other
    MaxOutbox           \* bound of the messages held when it connects

Availability == {"online", "offline"}

Message == Availability \cup {"config"} \cup Conclusions

ASSUME AvailabilityConstants ==
    /\ Conclusions \cap (Availability \cup {"config", Nothing}) = {}
    /\ Nothing \notin Message
    /\ MaxProcesses \in Nat \ {0}
    /\ MaxOutbox \in Nat

VARIABLES
    process,            \* the number of the process: its client id
    phase,              \* of the process: "off", "running", "stopping"
    connected,          \* _connected
    callback,           \* how far _on_connect is
    conclusion,         \* what the last cycle published
    last_check,         \* its time, of which a bit tells one cycle from the next
    outbox,             \* the messages paho holds, in the order it sends them
    early,              \* how many come first as published before it was connected
    held,               \* how many come next as held from before the connection
    unacked,            \* how many of them the broker has, unacknowledged
    link,               \* "down", "dialing", "connecting", "up"
    sessions,           \* the client ids whose last will the broker holds
    retained,           \* the retained message of each topic
    excuses             \* see Excuse

\* A stop while a connection was being made; wills forgotten by a broker that kept
\* the retained messages; a running watchdog's availability overwritten by the
\* will of an earlier process; a status that overtook an older one. The first
\* three last until the broker accepts a running watchdog, the fourth until the
\* next status.
Excuse == {"stopped_connecting", "wills_forgotten", "overwritten", "overtaken"}

watchdogVars == <<process, phase, connected, callback, conclusion, last_check>>
queueVars == <<outbox, early, held, unacked>>
brokerVars == <<sessions, retained>>
vars == <<watchdogVars, queueVars, link, brokerVars, excuses>>

Topic == {"availability", "discovery", "status"}

TopicOf(message) ==
    CASE message \in Availability -> "availability"
      [] message = "config" -> "discovery"
      [] OTHER -> "status"

Kept(message) == [retained EXCEPT ![TopicOf(message)] = message]

\* There is a socket, and _on_connect has not returned.
Connecting == link = "connecting" \/ (link = "up" /\ callback # "none")

\* publish_raw(): queued whether connected or not; on a new connection before
\* what was held.
PublishRaw(message) ==
    /\ IF Connecting
       THEN outbox' = InsertAt(outbox, early + 1, message) /\ early' = early + 1
       ELSE outbox' = Append(outbox, message) /\ UNCHANGED early
    /\ UNCHANGED <<held, unacked>>

-----------------------------------------------------------------------------
(* The thread of the loop.                                                 *)

\* A process is started: mqtt.start(), with a client id and a queue of its own.
Start ==
    /\ phase = "off"
    /\ process < MaxProcesses
    /\ process' = process + 1
    /\ phase' = "running"
    /\ UNCHANGED <<connected, callback, conclusion, last_check>>
    /\ UNCHANGED <<queueVars, link, brokerVars, excuses>>

\* The end of a process takes all it remembers with it.
Gone ==
    /\ phase' = "off"
    /\ connected' = FALSE
    /\ callback' = "none"
    /\ conclusion' = Nothing
    /\ last_check' = FALSE
    /\ outbox' = <<>>
    /\ early' = 0
    /\ held' = 0
    /\ unacked' = 0
    /\ link' = "down"
    /\ excuses' = excuses \ {"overtaken"}
    /\ UNCHANGED process

\* A status published now overtakes one that paho still holds.
Overtakes ==
    Connecting /\ \E i \in (early + 1)..Len(outbox) : outbox[i] \in Conclusions

\* A cycle ends in conclusion c; paho has room.
CycleEnds(c) ==
    /\ phase = "running"
    /\ Len(outbox) < MaxOutbox
    /\ conclusion' = c
    /\ last_check' = ~last_check
    /\ excuses' = IF Overtakes THEN excuses \cup {"overtaken"} ELSE excuses \ {"overtaken"}
    /\ UNCHANGED <<process, phase, connected, callback, link, brokerVars>>

\* Variant: the status is published only when it has changed.
CycleOnChange(c) ==
    /\ CycleEnds(c)
    /\ IF c # conclusion THEN PublishRaw(c) ELSE UNCHANGED queueVars

\* Variant: what is not known yet is an empty payload, which deletes the message.
CycleEmpty(c) ==
    /\ CycleEnds(c)
    /\ PublishRaw(IF conclusion = Nothing THEN Nothing ELSE c)

\* Variant: the status is published only while connected.
CycleWhenConnected(c) ==
    /\ CycleEnds(c)
    /\ IF connected THEN PublishRaw(c) ELSE UNCHANGED queueVars

\* _publish_status() at the end of a cycle, whatever the connection.
Cycle(c) ==
    /\ CycleEnds(c)
    /\ PublishRaw(c)

\* A stop at any moment.
Stopping ==
    /\ phase = "running"
    /\ phase' = "stopping"
    /\ excuses' = IF Connecting \/ link = "dialing"
                  THEN excuses \cup {"stopped_connecting"} ELSE excuses
    /\ UNCHANGED <<process, connected, callback, conclusion, last_check, link, brokerVars>>

\* Variant: no goodbye.
StopSilently ==
    /\ Stopping
    /\ UNCHANGED queueVars

\* stop() up to loop_stop(): the goodbye is published only if "_connected" is set.
Stop ==
    /\ Stopping
    /\ IF connected THEN PublishRaw("offline") ELSE UNCHANGED queueVars

\* loop_stop() returns when paho's thread has nothing left to deliver or no
\* connection, and is not opening one; disconnect() then ends the session
\* without the will.
Disconnect ==
    /\ phase = "stopping"
    /\ callback \in {"none", "connack"}
    /\ link # "dialing"
    /\ outbox = <<>> \/ link = "down"
    /\ sessions' = IF link = "up" THEN sessions \ {process} ELSE sessions
    /\ UNCHANGED retained
    /\ Gone

\* The process dies without a goodbye.
Kill ==
    /\ phase # "off"
    /\ Gone
    /\ UNCHANGED brokerVars

-----------------------------------------------------------------------------
(* The thread of paho.                                                     *)

\* paho connects, and reconnects unless it is being stopped.
Dial ==
    /\ phase = "running"
    /\ link = "down"
    /\ ~connected
    /\ Len(outbox) <= MaxOutbox
    /\ link' = "dialing"
    /\ UNCHANGED <<watchdogVars, queueVars, brokerVars, excuses>>

\* It has a socket, and says CONNECT on it.
Connect ==
    /\ link = "dialing"
    /\ link' = "connecting"
    /\ held' = Len(outbox)
    /\ UNCHANGED <<watchdogVars, outbox, early, unacked, brokerVars, excuses>>

\* _on_connect() starts: "_connected" is set first.
OnConnect ==
    /\ phase # "off"
    /\ callback = "connack"
    /\ connected' = TRUE
    /\ callback' = "connected"
    /\ UNCHANGED <<process, phase, conclusion, last_check>>
    /\ UNCHANGED <<queueVars, link, brokerVars, excuses>>

\* Variant: announced at the start only, before the first cycle.
AnnounceAtStart ==
    /\ phase # "off"
    /\ callback = "connected"
    /\ callback' = "announced"
    /\ IF conclusion = Nothing THEN PublishRaw("online") ELSE UNCHANGED queueVars
    /\ UNCHANGED <<process, phase, connected, conclusion, last_check, link, brokerVars, excuses>>

Announce ==
    /\ phase # "off"
    /\ callback = "connected"
    /\ callback' = "announced"
    /\ PublishRaw("online")
    /\ UNCHANGED <<process, phase, connected, conclusion, last_check, link, brokerVars, excuses>>

\* The hook: ha_discovery.publish(), the retained configuration of every entity.
\* _on_connect returns, and paho sends what it held.
PublishDiscovery ==
    /\ phase # "off"
    /\ callback = "announced"
    /\ callback' = "none"
    /\ PublishRaw("config")
    /\ UNCHANGED <<process, phase, connected, conclusion, last_check, link, brokerVars, excuses>>

OnDisconnect ==
    /\ phase # "off"
    /\ link = "down"
    /\ callback = "none"
    /\ connected
    /\ connected' = FALSE
    /\ UNCHANGED <<process, phase, callback, conclusion, last_check>>
    /\ UNCHANGED <<queueVars, link, brokerVars, excuses>>

\* The acknowledgement of the oldest message is read.
Acknowledged ==
    /\ link = "up"
    /\ callback = "none"
    /\ unacked > 0
    /\ outbox' = Tail(outbox)
    /\ unacked' = unacked - 1
    /\ early' = IF early > 0 THEN early - 1 ELSE 0
    /\ held' = IF early = 0 /\ held > 0 THEN held - 1 ELSE held
    /\ UNCHANGED <<watchdogVars, link, brokerVars, excuses>>

-----------------------------------------------------------------------------
(* The broker and the network.                                             *)

\* The will of will_set(), published by the broker.
Will == Kept("offline")

\* The broker accepts the connection. A session of the same client is taken
\* over, which ends it as a death does.
Accept ==
    /\ link = "connecting"
    /\ link' = "up"
    /\ callback' = "connack"
    /\ sessions' = sessions \cup {process}
    /\ retained' = IF process \in sessions THEN Will ELSE retained
    /\ excuses' = IF phase = "running" THEN excuses \cap {"overtaken"} ELSE excuses
    /\ UNCHANGED <<process, phase, connected, conclusion, last_check, queueVars>>

\* The broker receives the next message that was sent.
Deliver ==
    /\ link = "up"
    /\ unacked < IF Connecting THEN early ELSE Len(outbox)
    /\ unacked' = unacked + 1
    /\ retained' = Kept(outbox[unacked + 1])
    /\ UNCHANGED <<watchdogVars, outbox, early, held, link, sessions, excuses>>

\* The broker notices the death of a connection, at once or after the keepalive.
NoticeDeath(id) ==
    /\ id \in sessions
    /\ id = process => link # "up"
    /\ sessions' = sessions \ {id}
    /\ retained' = Will
    /\ excuses' = IF phase = "running" /\ id # process
                  THEN excuses \cup {"overwritten"} ELSE excuses
    /\ UNCHANGED <<watchdogVars, queueVars, link>>

\* The messages in the order of their publication.
InOrder ==
    SubSeq(outbox, early + 1, early + held) \o SubSeq(outbox, 1, early)
        \o SubSeq(outbox, early + held + 1, Len(outbox))

\* The connection is lost, the watchdog's end of it first, or not made.
Lose ==
    /\ link' = "down"
    /\ callback' = IF callback = "connack" THEN "none" ELSE callback
    /\ outbox' = InOrder
    /\ early' = 0
    /\ held' = 0
    /\ unacked' = 0
    /\ UNCHANGED <<process, phase, connected, conclusion, last_check>>

LoseLink ==
    /\ link # "down"
    /\ Lose
    /\ UNCHANGED <<brokerVars, excuses>>

\* The broker is restarted: it forgets the sessions with their wills and, unless
\* it persists them, the retained messages.
RestartBroker ==
    /\ Lose
    /\ sessions' = {}
    /\ \/ retained' = [topic \in Topic |-> Nothing] /\ UNCHANGED excuses
       \/ /\ UNCHANGED retained
          /\ excuses' = IF sessions # {} THEN excuses \cup {"wills_forgotten"} ELSE excuses

-----------------------------------------------------------------------------
Init ==
    /\ process = 0
    /\ phase = "off"
    /\ connected = FALSE
    /\ callback = "none"
    /\ conclusion = Nothing
    /\ last_check = FALSE
    /\ outbox = <<>>
    /\ early = 0
    /\ held = 0
    /\ unacked = 0
    /\ link = "down"
    /\ sessions = {}
    /\ retained = [topic \in Topic |-> Nothing]
    /\ excuses = {}

PahoThread ==
    \/ Dial \/ Connect \/ OnConnect \/ Announce \/ PublishDiscovery
    \/ OnDisconnect \/ Acknowledged

Next ==
    \/ Start
    \/ \E c \in Conclusions : Cycle(c)
    \/ Stop
    \/ Disconnect
    \/ Kill
    \/ PahoThread
    \/ Accept
    \/ Deliver
    \/ \E id \in sessions : NoticeDeath(id)
    \/ LoseLink
    \/ RestartBroker

\* A loop that runs comes to the end of its cycles and paho's thread runs on; the
\* broker answers, and notices a dead connection by the keepalive. Whether a
\* process is started, stopped or killed and whether a connection holds is up
\* to the world.
Fairness ==
    /\ WF_vars(\E c \in Conclusions : Cycle(c))
    /\ WF_vars(Disconnect)
    /\ WF_vars(PahoThread)
    /\ WF_vars(Accept)
    /\ WF_vars(Deliver)
    /\ WF_vars(\E id \in sessions : NoticeDeath(id))

Spec == Init /\ [][Next]_vars /\ Fairness

-----------------------------------------------------------------------------
(* Properties.                                                             *)

AvailabilityTypeOK ==
    /\ process \in 0..MaxProcesses
    /\ phase \in {"off", "running", "stopping"}
    /\ connected \in BOOLEAN
    /\ callback \in {"none", "connack", "connected", "announced"}
    /\ conclusion \in Conclusions \cup {Nothing}
    /\ last_check \in BOOLEAN
    /\ outbox \in Seq(Message)
    /\ early \in 0..Len(outbox)
    /\ held \in 0..(Len(outbox) - early)
    /\ unacked \in 0..Len(outbox)
    /\ link \in {"down", "dialing", "connecting", "up"}
    /\ sessions \subseteq 1..process
    /\ retained \in [Topic -> Message \cup {Nothing}]
    /\ excuses \subseteq Excuse

\* The two ways in which the code leaves an "online" without a will: a stop while
\* a connection is being made, whose goodbye comes too early or not at all before
\* disconnect() drops the will, and a broker that is restarted with its retained
\* messages but without its sessions.
WillLost == excuses \cap {"stopped_connecting", "wills_forgotten"} # {}

\* As long as Home Assistant shows the watchdog as available, the broker holds
\* the will of a process, so that a death of the watchdog is going to be shown:
\* whatever was killed, stopped, lost, taken over, sent again or recreated early,
\* except after a stop while a connection was being made or a restart of the
\* broker that kept the retained messages, until a watchdog connects again.
OnlineIsBacked == retained["availability"] = "online" => sessions # {} \/ WillLost

\* The broker has all that was published so far.
Drained == link = "up" /\ unacked = Len(outbox)

\* No older status outlives a newer one: as soon as the broker has everything,
\* it shows the last conclusion, however often messages were sent again, or
\* nothing, if it has been restarted since; except until the next cycle, if the
\* last one published while a connection was being made that an older status
\* was waiting for.
StatusIsCurrent ==
    conclusion # Nothing /\ Drained /\ "overtaken" \notin excuses =>
        retained["status"] \in {conclusion, Nothing}

\* A watchdog that is connected and whose messages are delivered is shown as
\* available, and its entities are known: neither its own will of a connection
\* that was taken over nor a message that was sent again comes out on top. The
\* will of an earlier process does, if it is published after the connection was
\* accepted, until the next one is.
PresentIsOnline ==
    phase = "running" /\ callback = "none" /\ Drained =>
        /\ retained["availability"] = "online" \/ "overwritten" \in excuses
        /\ retained["discovery"] = "config"

\* A watchdog that is gone for good is not shown as available for ever, whether
\* it was killed at any moment or stopped, except if it was stopped while a
\* connection was being made or the broker forgot its will and kept the message.
DeathIsShown ==
    <>[](phase = "off" /\ ~WillLost) => <>[](retained["availability"] # "online")

Present == phase = "running" /\ link = "up"

\* A watchdog that stays connected is shown as available and its entities are
\* known, whatever was lost or taken over before, broker restarts included,
\* unless the will of an earlier process was published over it.
PresenceIsShown ==
    <>[]Present =>
        <>[](/\ retained["availability"] = "online" \/ "overwritten" \in excuses
             /\ retained["discovery"] = "config")

\* A conclusion that stays is the one that is shown in the end, though messages
\* of before are sent again and the broker may have forgotten it.
ConclusionIsShown ==
    \A c \in Conclusions :
        <>[](Present /\ conclusion = c) => <>[](retained["status"] = c)
=============================================================================

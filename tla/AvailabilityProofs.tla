------------------------- MODULE AvailabilityProofs -------------------------
(***************************************************************************)
(* Proofs about Availability, for any number of processes and of messages: *)
(* as long as the watchdog is shown as available, the broker holds a will  *)
(* that is going to take it back, and as soon as the broker has all that   *)
(* the watchdog published, it shows the watchdog and its last conclusion.  *)
(***************************************************************************)
EXTENDS Availability, SequenceTheorems, TLAPS

\* A connection belongs to a process, the broker has a session of each one that
\* is up, and _on_connect runs for a connection that was accepted. Until it has
\* returned nothing is sent but what was published since there is a socket.
LinkInv ==
    /\ phase = "off" => link = "down"
    /\ phase # "off" => process >= 1
    /\ link = "up" => process \in sessions
    /\ link \in {"dialing", "connecting"} => ~connected
    /\ link = "up" /\ callback = "none" => connected
    /\ callback = "connack" => link = "up"
    /\ callback \in {"connected", "announced"} => connected
    /\ link \in {"down", "dialing"} => early = 0 /\ held = 0 /\ unacked = 0
    /\ Connecting => unacked <= early

\* A process that is being stopped, but not while a connection was being made, has
\* nothing left to say but goodbye: once the broker has all its messages, it has
\* that one.
GoodbyeInv ==
    phase = "stopping" /\ "stopped_connecting" \notin excuses =>
        /\ link \in {"down", "up"}
        /\ link = "up" =>
               /\ callback = "none"
               /\ outbox # <<>> => outbox[Len(outbox)] = "offline"
               /\ unacked = Len(outbox) => retained["availability"] # "online"

BackedInv == AvailabilityTypeOK /\ LinkInv /\ GoodbyeInv /\ OnlineIsBacked

-----------------------------------------------------------------------------
(* The messages.                                                           *)

\* Every message has a topic, and the broker keeps the last one of each.
LEMMA KeptType ==
    ASSUME retained \in [Topic -> Message \cup {Nothing}], NEW message \in Message
    PROVE  /\ Kept(message) \in [Topic -> Message \cup {Nothing}]
           /\ message \in Availability => Kept(message)["availability"] = message
           /\ message \notin Availability =>
                  Kept(message)["availability"] = retained["availability"]
<1>1. TopicOf(message) \in Topic
  BY DEF TopicOf, Topic
<1>2. Kept(message) \in [Topic -> Message \cup {Nothing}]
  BY <1>1 DEF Kept
<1>3. message \in Availability => TopicOf(message) = "availability"
  BY DEF TopicOf, Availability
<1>4. message \notin Availability => TopicOf(message) # "availability"
  BY DEF TopicOf
<1>5. "availability" \in Topic
  BY DEF Topic
<1>6. Kept(message) = [retained EXCEPT ![TopicOf(message)] = message]
  BY DEF Kept
<1>7. message \in Availability => Kept(message)["availability"] = message
  BY <1>3, <1>5, <1>6
<1>8. message \notin Availability => Kept(message)["availability"] = retained["availability"]
  BY <1>4, <1>5, <1>6
<1>. QED
  BY <1>2, <1>7, <1>8

\* The will takes the availability back.
LEMMA WillType ==
    ASSUME retained \in [Topic -> Message \cup {Nothing}]
    PROVE  /\ Will \in [Topic -> Message \cup {Nothing}]
           /\ Will["availability"] = "offline"
BY KeptType DEF Will, Message, Availability

\* Where a message is put that is published now.
Place == IF Connecting THEN early ELSE Len(outbox)

\* Two queues one after the other.
LEMMA Joined ==
    ASSUME NEW s \in Seq(Message), NEW t \in Seq(Message)
    PROVE  /\ s \o t \in Seq(Message) /\ Len(s \o t) = Len(s) + Len(t)
           /\ \A i \in 1..Len(s) : (s \o t)[i] = s[i]
           /\ \A i \in 1..Len(t) : (s \o t)[Len(s) + i] = t[i]
<1>1. Len(s) \in Nat /\ Len(t) \in Nat
  BY LenProperties
<1>2. /\ s \o t \in Seq(Message) /\ Len(s \o t) = Len(s) + Len(t)
      /\ \A i \in 1..(Len(s) + Len(t)) :
             (s \o t)[i] = IF i <= Len(s) THEN s[i] ELSE t[i - Len(s)]
  BY ConcatProperties
<1>. QED
  BY <1>1, <1>2

\* Three queues one after the other.
LEMMA JoinedThree ==
    ASSUME NEW s \in Seq(Message), NEW t \in Seq(Message), NEW u \in Seq(Message)
    PROVE  /\ s \o t \o u \in Seq(Message) /\ Len(s \o t \o u) = Len(s) + Len(t) + Len(u)
           /\ \A i \in 1..Len(s) : (s \o t \o u)[i] = s[i]
           /\ \A i \in 1..Len(t) : (s \o t \o u)[Len(s) + i] = t[i]
           /\ \A i \in 1..Len(u) : (s \o t \o u)[Len(s) + Len(t) + i] = u[i]
<1>1. Len(s) \in Nat /\ Len(t) \in Nat /\ Len(u) \in Nat
  BY LenProperties
<1>2. /\ s \o t \in Seq(Message) /\ Len(s \o t) = Len(s) + Len(t)
      /\ \A i \in 1..Len(s) : (s \o t)[i] = s[i]
      /\ \A i \in 1..Len(t) : (s \o t)[Len(s) + i] = t[i]
  BY Joined
<1>. DEFINE st == s \o t
<1>3. st \in Seq(Message)
  BY <1>2
<1>. HIDE DEF st
<1>4. /\ st \o u \in Seq(Message) /\ Len(st \o u) = Len(st) + Len(u)
      /\ \A i \in 1..Len(st) : (st \o u)[i] = st[i]
      /\ \A i \in 1..Len(u) : (st \o u)[Len(st) + i] = u[i]
  BY <1>3, Joined
<1>5. st = s \o t /\ Len(st) = Len(s) + Len(t)
  BY <1>2 DEF st
<1>6. ASSUME NEW i \in 1..Len(s) PROVE (st \o u)[i] = s[i]
  BY <1>1, <1>2, <1>4, <1>5
<1>7. ASSUME NEW i \in 1..Len(t) PROVE (st \o u)[Len(s) + i] = t[i]
  BY <1>1, <1>2, <1>4, <1>5
<1>8. st \o u = s \o t \o u
  BY <1>5
<1>. QED
  BY <1>4, <1>5, <1>6, <1>7, <1>8

\* A part of a queue.
LEMMA Part ==
    ASSUME NEW s \in Seq(Message), NEW m \in 1..(Len(s) + 1), NEW n \in 0..Len(s), m <= n + 1
    PROVE  /\ SubSeq(s, m, n) \in Seq(Message) /\ Len(SubSeq(s, m, n)) = n + 1 - m
           /\ \A i \in 1..(n + 1 - m) : SubSeq(s, m, n)[i] = s[m - 1 + i]
<1>1. Len(s) \in Nat /\ m \in Int /\ n \in Int
  BY LenProperties
<1>2. \A i \in m..n : s[i] \in Message
  BY <1>1, ElementOfSeq
<1>3. /\ SubSeq(s, m, n) \in Seq(Message)
      /\ Len(SubSeq(s, m, n)) = IF m <= n THEN n - m + 1 ELSE 0
      /\ \A i \in 1..(n - m + 1) : SubSeq(s, m, n)[i] = s[m + i - 1]
  BY <1>1, <1>2, SubSeqProperties
<1>. QED
  BY <1>1, <1>3

\* A message is put into the queue and moves those behind it.
LEMMA Inserted ==
    ASSUME NEW s \in Seq(Message), NEW k \in 0..Len(s), NEW message \in Message
    PROVE  /\ Len(s) \in Nat
           /\ InsertAt(s, k + 1, message) \in Seq(Message)
           /\ Len(InsertAt(s, k + 1, message)) = Len(s) + 1
           /\ \A i \in 1..k : InsertAt(s, k + 1, message)[i] = s[i]
           /\ InsertAt(s, k + 1, message)[k + 1] = message
           /\ \A i \in (k + 2)..(Len(s) + 1) : InsertAt(s, k + 1, message)[i] = s[i - 1]
<1>0. Len(s) \in Nat /\ k \in Nat /\ k <= Len(s) /\ (k + 1) - 1 = k
  BY LenProperties
<1>. DEFINE front == SubSeq(s, 1, (k + 1) - 1)
            middle == <<message>>
            back == SubSeq(s, k + 1, Len(s))
            result == front \o middle \o back
<1>1. front \in Seq(Message) /\ Len(front) = k /\ \A i \in 1..k : front[i] = s[i]
  BY <1>0, Part
<1>2. /\ back \in Seq(Message) /\ Len(back) = Len(s) - k
      /\ \A i \in 1..(Len(s) - k) : back[i] = s[k + i]
  BY <1>0, Part
<1>3. middle \in Seq(Message) /\ Len(middle) = 1 /\ middle[1] = message
  OBVIOUS
<1>4. InsertAt(s, k + 1, message) = result
  BY Zenon DEF InsertAt
<1>. HIDE DEF front, middle, back
<1>5. /\ result \in Seq(Message) /\ Len(result) = Len(front) + Len(middle) + Len(back)
      /\ \A i \in 1..Len(front) : result[i] = front[i]
      /\ \A i \in 1..Len(middle) : result[Len(front) + i] = middle[i]
      /\ \A i \in 1..Len(back) : result[Len(front) + Len(middle) + i] = back[i]
  BY <1>1, <1>2, <1>3, JoinedThree, Zenon
<1>. HIDE DEF result
<1>6. result \in Seq(Message) /\ Len(result) = Len(s) + 1
  BY <1>0, <1>1, <1>2, <1>3, <1>5
<1>7. ASSUME NEW i \in (k + 2)..(Len(s) + 1) PROVE result[i] = s[i - 1]
  <2>1. /\ i - (k + 1) \in 1..(Len(s) - k) /\ k + 1 + (i - (k + 1)) = i
        /\ k + (i - (k + 1)) = i - 1
    BY <1>0
  <2>2. result[k + 1 + (i - (k + 1))] = back[i - (k + 1)]
    BY <1>1, <1>2, <1>3, <1>5, <2>1
  <2>. QED
    BY <1>2, <2>1, <2>2
<1>8. \A i \in 1..k : result[i] = s[i]
  BY <1>1, <1>5
<1>9. result[k + 1] = message
  BY <1>1, <1>3, <1>5
<1>. QED
  BY <1>0, <1>4, <1>6, <1>7, <1>8, <1>9

\* What is published has its place in the queue.
LEMMA Published ==
    ASSUME AvailabilityTypeOK, NEW message \in Message, PublishRaw(message)
    PROVE  /\ Len(outbox) \in Nat /\ Place \in 0..Len(outbox)
           /\ outbox' \in Seq(Message) /\ Len(outbox') = Len(outbox) + 1
           /\ \A i \in 1..Place : outbox'[i] = outbox[i]
           /\ outbox'[Place + 1] = message
           /\ \A i \in (Place + 2)..Len(outbox') : outbox'[i] = outbox[i - 1]
           /\ early' = IF Connecting THEN early + 1 ELSE early
           /\ held' = held /\ unacked' = unacked
           /\ early' \in 0..Len(outbox') /\ held' \in 0..(Len(outbox') - early')
           /\ unacked' \in 0..Len(outbox')
<1>0. /\ outbox \in Seq(Message) /\ Len(outbox) \in Nat /\ early \in 0..Len(outbox)
      /\ held \in 0..(Len(outbox) - early) /\ unacked \in 0..Len(outbox)
      /\ held' = held /\ unacked' = unacked
  BY LenProperties DEF AvailabilityTypeOK, PublishRaw
<1>1. CASE Connecting
  <2>1. Place = early /\ outbox' = InsertAt(outbox, early + 1, message) /\ early' = early + 1
    BY <1>1 DEF Place, PublishRaw
  <2>2. /\ outbox' \in Seq(Message) /\ Len(outbox') = Len(outbox) + 1
        /\ \A i \in 1..early : outbox'[i] = outbox[i]
        /\ outbox'[early + 1] = message
        /\ \A i \in (early + 2)..(Len(outbox) + 1) : outbox'[i] = outbox[i - 1]
    BY <1>0, <2>1, Inserted
  <2>. QED
    BY <1>0, <1>1, <2>1, <2>2
<1>2. CASE ~Connecting
  <2>1. Place = Len(outbox) /\ outbox' = Append(outbox, message) /\ early' = early
    BY <1>2 DEF Place, PublishRaw
  <2>2. /\ outbox' \in Seq(Message) /\ Len(outbox') = Len(outbox) + 1
        /\ \A i \in 1..Len(outbox) : outbox'[i] = outbox[i]
        /\ outbox'[Len(outbox) + 1] = message
    BY <1>0, <2>1, AppendProperties
  <2>3. (Len(outbox) + 2)..(Len(outbox) + 1) = {}
    BY <1>0
  <2>. QED
    BY <1>0, <1>2, <2>1, <2>2, <2>3
<1>. QED
  BY <1>1, <1>2

\* The order of publication: what was held, what was published while the
\* connection was being made, and what was published since.
LEMMA Reordered ==
    ASSUME AvailabilityTypeOK
    PROVE  /\ Len(outbox) \in Nat /\ InOrder \in Seq(Message) /\ Len(InOrder) = Len(outbox)
           /\ \A i \in 1..held : InOrder[i] = outbox[early + i]
           /\ \A i \in (held + 1)..(held + early) : InOrder[i] = outbox[i - held]
           /\ \A i \in (early + held + 1)..Len(outbox) : InOrder[i] = outbox[i]
<1>0. /\ outbox \in Seq(Message) /\ Len(outbox) \in Nat /\ early \in Nat /\ held \in Nat
      /\ early + held <= Len(outbox)
      /\ \A i \in 1..Len(outbox) : outbox[i] \in Message
  BY LenProperties, ElementOfSeq DEF AvailabilityTypeOK
<1>. DEFINE old == SubSeq(outbox, early + 1, early + held)
            new == SubSeq(outbox, 1, early)
            rest == SubSeq(outbox, early + held + 1, Len(outbox))
            result == old \o new \o rest
<1>1. /\ old \in Seq(Message) /\ Len(old) = held
      /\ \A i \in 1..held : old[i] = outbox[early + i]
  BY <1>0, Part
<1>2. new \in Seq(Message) /\ Len(new) = early /\ \A i \in 1..early : new[i] = outbox[i]
  BY <1>0, Part
<1>3. /\ rest \in Seq(Message) /\ Len(rest) = Len(outbox) - (early + held)
      /\ \A i \in 1..(Len(outbox) - (early + held)) : rest[i] = outbox[early + held + i]
  BY <1>0, Part
<1>4. InOrder = result
  BY Zenon DEF InOrder
<1>. HIDE DEF old, new, rest
<1>5. /\ result \in Seq(Message) /\ Len(result) = Len(old) + Len(new) + Len(rest)
      /\ \A i \in 1..Len(old) : result[i] = old[i]
      /\ \A i \in 1..Len(new) : result[Len(old) + i] = new[i]
      /\ \A i \in 1..Len(rest) : result[Len(old) + Len(new) + i] = rest[i]
  BY <1>1, <1>2, <1>3, JoinedThree, Zenon
<1>. HIDE DEF result
<1>6. result \in Seq(Message) /\ Len(result) = Len(outbox)
  BY <1>0, <1>1, <1>2, <1>3, <1>5
<1>7. \A i \in 1..held : result[i] = outbox[early + i]
  BY <1>1, <1>5
<1>8. ASSUME NEW i \in (held + 1)..(held + early) PROVE result[i] = outbox[i - held]
  <2>1. i - held \in 1..early /\ held + (i - held) = i
    BY <1>0
  <2>2. result[held + (i - held)] = new[i - held]
    BY <1>1, <1>2, <1>5, <2>1
  <2>. QED
    BY <1>2, <2>1, <2>2
<1>9. ASSUME NEW i \in (early + held + 1)..Len(outbox) PROVE result[i] = outbox[i]
  <2>1. /\ i - (early + held) \in 1..(Len(outbox) - (early + held))
        /\ held + early + (i - (early + held)) = i /\ early + held + (i - (early + held)) = i
    BY <1>0
  <2>2. result[held + early + (i - (early + held))] = rest[i - (early + held)]
    BY <1>1, <1>2, <1>3, <1>5, <2>1
  <2>. QED
    BY <1>3, <2>1, <2>2
<1>. QED
  BY <1>0, <1>4, <1>6, <1>7, <1>8, <1>9

-----------------------------------------------------------------------------
(* The types and the connection, whatever goes wrong.                      *)

TypeInv == AvailabilityTypeOK /\ LinkInv

\* An empty queue is a queue.
LEMMA NoMessages == <<>> \in Seq(Message) /\ Len(<<>>) = 0
BY EmptySeq

\* A watchdog not started yet has the types and no connection.
LEMMA InitType == Init => TypeInv
<1>. SUFFICES ASSUME Init PROVE TypeInv
  OBVIOUS
<1>1. /\ outbox \in Seq(Message) /\ early \in 0..Len(outbox)
      /\ held \in 0..(Len(outbox) - early) /\ unacked \in 0..Len(outbox)
  BY NoMessages DEF Init
<1>2. retained \in [Topic -> Message \cup {Nothing}] /\ excuses \subseteq Excuse
  BY DEF Init
<1>3. process \in 0..MaxProcesses /\ sessions \subseteq 1..process
  BY AvailabilityConstants DEF Init
<1>4. connected \in BOOLEAN /\ last_check \in BOOLEAN
  BY Zenon DEF Init
<1>5. /\ phase = "off" /\ callback = "none" /\ link = "down" /\ conclusion = Nothing
      /\ early = 0 /\ held = 0 /\ unacked = 0
  BY DEF Init
<1>. QED
  BY <1>1, <1>2, <1>3, <1>4, <1>5 DEF TypeInv, AvailabilityTypeOK, LinkInv, Connecting

\* The queue, which a step changes as publish_raw() does or not at all.
QueueOK ==
    /\ outbox \in Seq(Message)
    /\ early \in 0..Len(outbox)
    /\ held \in 0..(Len(outbox) - early)
    /\ unacked \in 0..Len(outbox)
    /\ link \in {"down", "dialing"} => early = 0 /\ held = 0 /\ unacked = 0
    /\ Connecting => unacked <= early

\* A publication keeps the queue, if the connection is as it was or _on_connect
\* returns.
LEMMA PublishKeepsQueue ==
    ASSUME TypeInv, NEW message \in Message, PublishRaw(message), link' = link,
           Connecting' => Connecting
    PROVE  QueueOK'
<1>1. AvailabilityTypeOK /\ LinkInv
  BY DEF TypeInv
<1>2. /\ outbox' \in Seq(Message) /\ Len(outbox) \in Nat /\ Len(outbox') = Len(outbox) + 1
      /\ early' = IF Connecting THEN early + 1 ELSE early
      /\ held' = held /\ unacked' = unacked
      /\ early' \in 0..Len(outbox') /\ held' \in 0..(Len(outbox') - early')
      /\ unacked' \in 0..Len(outbox')
  BY <1>1, Published
<1>3. link \in {"down", "dialing"} => ~Connecting
  BY DEF Connecting
<1>4. early \in Nat /\ unacked \in Nat
  BY <1>1 DEF AvailabilityTypeOK
<1>. QED
  BY <1>1, <1>2, <1>3, <1>4 DEF QueueOK, LinkInv

\* The loop of the process and its end.
LEMMA LoopKeepsType ==
    ASSUME TypeInv,
           Start \/ (\E c \in Conclusions : Cycle(c)) \/ Stop \/ Disconnect \/ Kill
    PROVE  TypeInv'
<1>. AvailabilityTypeOK /\ LinkInv
  BY DEF TypeInv
<1>1. CASE Start
  BY <1>1, AvailabilityConstants
  DEF Start, queueVars, brokerVars, TypeInv, AvailabilityTypeOK, LinkInv, Connecting
<1>2. ASSUME NEW c \in Conclusions, Cycle(c) PROVE TypeInv'
  <2>1. /\ UNCHANGED <<process, phase, connected, callback, link, brokerVars>>
        /\ phase = "running" /\ conclusion' = c /\ last_check' = ~last_check
        /\ excuses' \subseteq excuses \cup {"overtaken"} /\ PublishRaw(c)
    BY <1>2 DEF Cycle, CycleEnds
  <2>2. c \in Message /\ (Connecting' => Connecting)
    BY <2>1 DEF Message, Connecting
  <2>3. QueueOK'
    BY <2>1, <2>2, PublishKeepsQueue
  <2>. QED
    BY <2>1, <2>3 DEF QueueOK, brokerVars, TypeInv, AvailabilityTypeOK, LinkInv, Excuse
<1>3. CASE Stop
  <2>1. /\ UNCHANGED <<process, connected, callback, conclusion, last_check, link, brokerVars>>
        /\ phase = "running" /\ phase' = "stopping"
        /\ excuses' \subseteq excuses \cup {"stopped_connecting"}
        /\ PublishRaw("offline") \/ UNCHANGED queueVars
    BY <1>3 DEF Stop, Stopping
  <2>2. "offline" \in Message /\ (Connecting' => Connecting)
    BY <2>1 DEF Message, Availability, Connecting
  <2>3. QueueOK'
    <3>1. CASE UNCHANGED queueVars
      BY <2>1, <2>2, <3>1 DEF queueVars, QueueOK, AvailabilityTypeOK, LinkInv
    <3>. QED
      BY <2>1, <2>2, <3>1, PublishKeepsQueue
  <2>. QED
    BY <2>1, <2>3 DEF QueueOK, brokerVars, TypeInv, AvailabilityTypeOK, LinkInv, Excuse
<1>4. CASE Disconnect \/ Kill
  <2>1. Gone /\ sessions' \subseteq sessions /\ retained' = retained
    BY <1>4 DEF Disconnect, Kill, brokerVars
  <2>2. /\ outbox' \in Seq(Message) /\ early' \in 0..Len(outbox')
        /\ held' \in 0..(Len(outbox') - early') /\ unacked' \in 0..Len(outbox')
    BY <2>1, NoMessages DEF Gone
  <2>. QED
    BY <2>1, <2>2 DEF Gone, TypeInv, AvailabilityTypeOK, LinkInv, Connecting
<1>. QED
  BY <1>1, <1>2, <1>3, <1>4

\* The thread of paho.
LEMMA PahoKeepsType ==
    ASSUME TypeInv, PahoThread
    PROVE  TypeInv'
<1>. AvailabilityTypeOK /\ LinkInv
  BY DEF TypeInv
<1>1. CASE Dial
  BY <1>1
  DEF Dial, watchdogVars, queueVars, brokerVars, TypeInv, AvailabilityTypeOK, LinkInv, Connecting
<1>2. CASE Connect
  <2>1. Len(outbox) \in Nat
    BY LenProperties DEF AvailabilityTypeOK
  <2>. QED
    BY <1>2, <2>1
    DEF Connect, watchdogVars, brokerVars, TypeInv, AvailabilityTypeOK, LinkInv, Connecting
<1>3. CASE OnConnect
  BY <1>3 DEF OnConnect, queueVars, brokerVars, TypeInv, AvailabilityTypeOK, LinkInv, Connecting
<1>4. CASE Announce
  <2>1. "online" \in Message /\ (Connecting' => Connecting)
    BY <1>4 DEF Announce, Message, Availability, Connecting
  <2>2. QueueOK'
    BY <1>4, <2>1, PublishKeepsQueue DEF Announce
  <2>. QED
    BY <1>4, <2>2 DEF Announce, QueueOK, brokerVars, TypeInv, AvailabilityTypeOK, LinkInv
<1>5. CASE PublishDiscovery
  <2>1. "config" \in Message /\ (Connecting' => Connecting)
    BY <1>5 DEF PublishDiscovery, Message, Connecting
  <2>2. QueueOK'
    BY <1>5, <2>1, PublishKeepsQueue DEF PublishDiscovery
  <2>. QED
    BY <1>5, <2>2 DEF PublishDiscovery, QueueOK, brokerVars, TypeInv, AvailabilityTypeOK, LinkInv
<1>6. CASE OnDisconnect
  BY <1>6 DEF OnDisconnect, queueVars, brokerVars, TypeInv, AvailabilityTypeOK, LinkInv, Connecting
<1>7. CASE Acknowledged
  <2>1. /\ outbox # <<>> /\ outbox' = Tail(outbox) /\ unacked' = unacked - 1
        /\ unacked \in 1..Len(outbox) /\ outbox \in Seq(Message)
    BY <1>7, EmptySeq DEF Acknowledged, AvailabilityTypeOK
  <2>2. outbox' \in Seq(Message) /\ Len(outbox') = Len(outbox) - 1 /\ Len(outbox) \in Nat
    BY <2>1, HeadTailProperties, LenProperties
  <2>3. /\ early' \in 0..Len(outbox') /\ held' \in 0..(Len(outbox') - early')
        /\ unacked' \in 0..Len(outbox')
    BY <1>7, <2>1, <2>2 DEF Acknowledged, AvailabilityTypeOK
  <2>4. link' = "up" /\ ~Connecting'
    BY <1>7 DEF Acknowledged, watchdogVars, Connecting
  <2>. QED
    BY <1>7, <2>2, <2>3, <2>4
    DEF Acknowledged, watchdogVars, brokerVars, TypeInv, AvailabilityTypeOK, LinkInv
<1>. QED
  BY <1>1, <1>2, <1>3, <1>4, <1>5, <1>6, <1>7 DEF PahoThread

\* The broker and the network.
LEMMA BrokerKeepsType ==
    ASSUME TypeInv,
           Accept \/ Deliver \/ (\E id \in sessions : NoticeDeath(id)) \/ LoseLink
               \/ RestartBroker
    PROVE  TypeInv'
<1>. AvailabilityTypeOK /\ LinkInv
  BY DEF TypeInv
<1>0. Will \in [Topic -> Message \cup {Nothing}]
  BY WillType DEF AvailabilityTypeOK
<1>1. CASE Accept
  <2>1. process \in 1..process
    BY <1>1 DEF Accept, AvailabilityTypeOK, LinkInv
  <2>. QED
    BY <1>0, <1>1, <2>1
    DEF Accept, queueVars, TypeInv, AvailabilityTypeOK, LinkInv, Connecting
<1>2. CASE Deliver
  <2>1. /\ outbox \in Seq(Message) /\ Len(outbox) \in Nat /\ early \in 0..Len(outbox)
        /\ unacked \in Nat /\ unacked < Len(outbox) /\ (Connecting => unacked < early)
    BY <1>2, LenProperties DEF Deliver, AvailabilityTypeOK
  <2>2. outbox[unacked + 1] \in Message
    BY <2>1, ElementOfSeq
  <2>3. retained' \in [Topic -> Message \cup {Nothing}]
    BY <1>2, <2>2, KeptType DEF Deliver, AvailabilityTypeOK
  <2>4. unacked' \in 0..Len(outbox) /\ (Connecting' => unacked' <= early)
    BY <1>2, <2>1 DEF Deliver, watchdogVars, Connecting
  <2>. QED
    BY <1>2, <2>3, <2>4 DEF Deliver, watchdogVars, TypeInv, AvailabilityTypeOK, LinkInv
<1>3. CASE \E id \in sessions : NoticeDeath(id)
  BY <1>0, <1>3
  DEF NoticeDeath, watchdogVars, queueVars, TypeInv, AvailabilityTypeOK, LinkInv, Connecting, Excuse
<1>4. ASSUME Lose,
             sessions' \subseteq 1..process, retained' \in [Topic -> Message \cup {Nothing}],
             excuses' \subseteq Excuse
      PROVE  TypeInv'
  <2>1. /\ outbox' \in Seq(Message) /\ early' \in 0..Len(outbox')
        /\ held' \in 0..(Len(outbox') - early') /\ unacked' \in 0..Len(outbox')
    BY <1>4, Reordered DEF Lose
  <2>. QED
    BY <1>4, <2>1 DEF Lose, TypeInv, AvailabilityTypeOK, LinkInv, Connecting
<1>5. CASE LoseLink
  BY <1>4, <1>5 DEF LoseLink, brokerVars, AvailabilityTypeOK
<1>6. CASE RestartBroker
  BY <1>4, <1>6 DEF RestartBroker, AvailabilityTypeOK, Excuse
<1>. QED
  BY <1>1, <1>2, <1>3, <1>5, <1>6

\* Each step of the process, of paho and of the broker keeps them.
LEMMA NextKeepsType ==
    ASSUME TypeInv, [Next]_vars
    PROVE  TypeInv'
<1>1. CASE UNCHANGED vars
  BY <1>1
  DEF vars, watchdogVars, queueVars, brokerVars, TypeInv, AvailabilityTypeOK, LinkInv, Connecting
<1>. QED
  BY <1>1, LoopKeepsType, PahoKeepsType, BrokerKeepsType DEF Next

\* Process, paho and broker keep their types, whatever fails.
THEOREM AvailabilityTypeCorrect == Spec => []AvailabilityTypeOK
<1>1. TypeInv /\ [Next]_vars => TypeInv'
  BY NextKeepsType
<1>2. TypeInv => AvailabilityTypeOK
  BY DEF TypeInv
<1>. QED
  BY InitType, <1>1, <1>2, PTL DEF Spec
-----------------------------------------------------------------------------
(* Available only with a will.                                             *)

\* A queue that ends in goodbye ends in it after an acknowledgement too.
LEMMA LastKept ==
    ASSUME NEW s \in Seq(Message), s # <<>>, Tail(s) # <<>>
    PROVE  Tail(s)[Len(Tail(s))] = s[Len(s)]
<1>1. /\ Len(s) \in Nat /\ Tail(s) \in Seq(Message) /\ Len(Tail(s)) = Len(s) - 1
      /\ \A i \in 1..Len(Tail(s)) : Tail(s)[i] = s[i + 1]
  BY HeadTailProperties, LenProperties
<1>2. Len(Tail(s)) \in 1..Len(Tail(s))
  BY <1>1, EmptySeq
<1>. QED
  BY <1>1, <1>2

\* To begin with nothing is shown, so nothing needs a will.
LEMMA InitBacked == Init => BackedInv
<1>. SUFFICES ASSUME Init PROVE BackedInv
  OBVIOUS
<1>1. GoodbyeInv
  BY DEF Init, GoodbyeInv
<1>2. retained["availability"] = Nothing
  BY DEF Init, Topic
<1>3. OnlineIsBacked
  BY <1>2, AvailabilityConstants DEF OnlineIsBacked, Message, Availability
<1>. QED
  BY InitType, <1>1, <1>3 DEF TypeInv, BackedInv

\* What the watchdog publishes changes nothing at the broker; it says goodbye
\* last, and its session ends only after the broker has that.
LEMMA WatchdogKeepsBacked ==
    ASSUME BackedInv,
           \/ Start \/ (\E c \in Conclusions : Cycle(c)) \/ Stop \/ Disconnect \/ Kill
           \/ PahoThread
    PROVE  GoodbyeInv' /\ OnlineIsBacked'
<1>. AvailabilityTypeOK /\ LinkInv /\ GoodbyeInv /\ OnlineIsBacked
  BY DEF BackedInv
<1>1. CASE Start
  BY <1>1 DEF Start, brokerVars, GoodbyeInv, OnlineIsBacked, WillLost
<1>2. CASE \E c \in Conclusions : Cycle(c)
  BY <1>2 DEF Cycle, CycleEnds, brokerVars, GoodbyeInv, OnlineIsBacked, WillLost
<1>3. CASE Stop
  <2>1. /\ UNCHANGED <<callback, link, brokerVars>> /\ excuses \subseteq excuses'
        /\ Connecting \/ link = "dialing" => "stopped_connecting" \in excuses'
    BY <1>3 DEF Stop, Stopping
  <2>2. OnlineIsBacked'
    BY <2>1 DEF brokerVars, OnlineIsBacked, WillLost
  <2>3. CASE Connecting \/ link = "dialing"
    BY <2>1, <2>2, <2>3 DEF GoodbyeInv
  <2>4. CASE link = "up" /\ ~Connecting
    <3>1. callback = "none" /\ connected
      BY <2>4 DEF Connecting, LinkInv
    <3>2. PublishRaw("offline") /\ "offline" \in Message
      BY <1>3, <3>1 DEF Stop, Message, Availability
    <3>3. Place = Len(outbox)
      BY <2>4 DEF Place
    <3>4. /\ outbox'[Len(outbox')] = "offline" /\ unacked' # Len(outbox')
      BY <3>2, <3>3, Published DEF AvailabilityTypeOK
    <3>. QED
      BY <2>1, <2>2, <2>4, <3>1, <3>4 DEF GoodbyeInv
  <2>5. CASE link = "down"
    BY <2>1, <2>2, <2>5 DEF GoodbyeInv
  <2>. QED
    BY <2>3, <2>4, <2>5 DEF AvailabilityTypeOK, Connecting
<1>4. CASE Disconnect
  <2>1. GoodbyeInv' /\ retained' = retained /\ (WillLost => WillLost')
    BY <1>4 DEF Disconnect, Gone, GoodbyeInv, WillLost
  <2>2. CASE link = "up" /\ ~WillLost
    <3>1. outbox = <<>> /\ phase = "stopping" /\ "stopped_connecting" \notin excuses
      BY <1>4, <2>2 DEF Disconnect, WillLost
    <3>2. unacked = Len(outbox)
      BY <3>1, EmptySeq DEF AvailabilityTypeOK
    <3>3. retained["availability"] # "online"
      BY <2>2, <3>1, <3>2 DEF GoodbyeInv
    <3>. QED
      BY <2>1, <3>3 DEF OnlineIsBacked
  <2>3. CASE WillLost
    BY <2>1, <2>3 DEF OnlineIsBacked
  <2>4. CASE link # "up" /\ ~WillLost
    BY <1>4, <2>1, <2>4 DEF Disconnect, OnlineIsBacked
  <2>. QED
    BY <2>2, <2>3, <2>4
<1>5. CASE Kill
  BY <1>5 DEF Kill, Gone, brokerVars, GoodbyeInv, OnlineIsBacked, WillLost
<1>6. CASE Dial
  BY <1>6 DEF Dial, watchdogVars, brokerVars, GoodbyeInv, OnlineIsBacked, WillLost
<1>7. CASE Connect
  BY <1>7 DEF Connect, watchdogVars, brokerVars, GoodbyeInv, OnlineIsBacked, WillLost
<1>8. CASE OnConnect
  BY <1>8 DEF OnConnect, queueVars, brokerVars, LinkInv, GoodbyeInv, OnlineIsBacked, WillLost
<1>9. CASE Announce
  BY <1>9 DEF Announce, brokerVars, GoodbyeInv, OnlineIsBacked, WillLost
<1>10. CASE PublishDiscovery
  BY <1>10 DEF PublishDiscovery, brokerVars, GoodbyeInv, OnlineIsBacked, WillLost
<1>11. CASE OnDisconnect
  BY <1>11 DEF OnDisconnect, queueVars, brokerVars, GoodbyeInv, OnlineIsBacked, WillLost
<1>12. CASE Acknowledged
  <2>1. /\ outbox # <<>> /\ outbox' = Tail(outbox) /\ unacked' = unacked - 1
        /\ unacked \in 1..Len(outbox) /\ outbox \in Seq(Message)
        /\ link' = link /\ phase' = phase /\ callback' = callback
        /\ retained' = retained /\ sessions' = sessions /\ excuses' = excuses
    BY <1>12, EmptySeq DEF Acknowledged, AvailabilityTypeOK, watchdogVars, brokerVars
  <2>2. Len(outbox') = Len(outbox) - 1
    BY <2>1, HeadTailProperties
  <2>3. outbox' # <<>> => outbox'[Len(outbox')] = outbox[Len(outbox)]
    BY <2>1, LastKept
  <2>4. unacked' = Len(outbox') => unacked = Len(outbox)
    <3>1. /\ Len(outbox) \in Int /\ unacked \in Int
          /\ unacked' = unacked - 1 /\ Len(outbox') = Len(outbox) - 1
      BY <2>1, <2>2, LenProperties
    <3>. QED
      BY <3>1
  <2>. QED
    BY <2>1, <2>3, <2>4 DEF GoodbyeInv, OnlineIsBacked, WillLost
<1>. QED
  BY <1>1, <1>2, <1>3, <1>4, <1>5, <1>6, <1>7, <1>8, <1>9, <1>10, <1>11, <1>12 DEF PahoThread

\* The broker takes the availability back with every session that dies, and gives
\* the session of the sender of an "online" up no earlier.
LEMMA BrokerKeepsBacked ==
    ASSUME BackedInv,
           \/ Accept \/ Deliver \/ (\E id \in sessions : NoticeDeath(id)) \/ LoseLink
           \/ RestartBroker
    PROVE  GoodbyeInv' /\ OnlineIsBacked'
<1>. AvailabilityTypeOK /\ LinkInv /\ GoodbyeInv /\ OnlineIsBacked
  BY DEF BackedInv
<1>0. Will["availability"] # "online"
  BY WillType DEF AvailabilityTypeOK
<1>1. CASE Accept
  <2>1. OnlineIsBacked'
    BY <1>1 DEF Accept, OnlineIsBacked
  <2>2. phase' = phase /\ (phase = "stopping" => excuses' = excuses)
    BY <1>1 DEF Accept
  <2>3. phase = "stopping" => "stopped_connecting" \in excuses
    BY <1>1 DEF Accept, GoodbyeInv
  <2>. QED
    BY <2>1, <2>2, <2>3 DEF GoodbyeInv
<1>2. CASE Deliver
  <2>1. /\ outbox \in Seq(Message) /\ Len(outbox) \in Nat /\ early \in 0..Len(outbox)
        /\ unacked \in Nat /\ unacked + 1 \in 1..Len(outbox)
        /\ unacked' = unacked + 1 /\ retained' = Kept(outbox[unacked + 1])
    BY <1>2, LenProperties DEF Deliver, AvailabilityTypeOK
  <2>2. /\ outbox' = outbox /\ link' = link /\ phase' = phase /\ callback' = callback
        /\ sessions' = sessions /\ excuses' = excuses /\ link = "up"
    BY <1>2 DEF Deliver, watchdogVars
  <2>3. OnlineIsBacked'
    BY <2>2 DEF LinkInv, OnlineIsBacked
  <2>4. ASSUME phase = "stopping", "stopped_connecting" \notin excuses,
               unacked + 1 = Len(outbox)
        PROVE  retained'["availability"] = "offline"
    <3>1. outbox # <<>>
      BY <2>1, EmptySeq
    <3>2. outbox[unacked + 1] = "offline"
      BY <2>2, <2>4, <3>1 DEF GoodbyeInv
    <3>. QED
      BY <2>1, <3>2, KeptType DEF Message, Availability, AvailabilityTypeOK
  <2>. QED
    BY <2>1, <2>2, <2>3, <2>4 DEF GoodbyeInv
<1>3. CASE \E id \in sessions : NoticeDeath(id)
  BY <1>0, <1>3 DEF NoticeDeath, watchdogVars, queueVars, GoodbyeInv, OnlineIsBacked
<1>4. CASE LoseLink
  BY <1>4 DEF LoseLink, Lose, brokerVars, GoodbyeInv, OnlineIsBacked, WillLost
<1>5. CASE RestartBroker
  <2>1. GoodbyeInv'
    BY <1>5 DEF RestartBroker, Lose, GoodbyeInv
  <2>2. CASE retained' = [topic \in Topic |-> Nothing]
    <3>1. retained'["availability"] = Nothing
      BY <2>2 DEF Topic
    <3>. QED
      BY <2>1, <3>1, AvailabilityConstants DEF OnlineIsBacked, Message, Availability
  <2>3. CASE sessions # {} /\ "wills_forgotten" \in excuses'
    BY <2>1, <2>3 DEF OnlineIsBacked, WillLost
  <2>4. CASE sessions = {} /\ UNCHANGED <<retained, excuses>>
    BY <2>1, <2>4 DEF OnlineIsBacked, WillLost
  <2>. QED
    BY <1>5, <2>2, <2>3, <2>4 DEF RestartBroker
<1>. QED
  BY <1>1, <1>2, <1>3, <1>4, <1>5

\* Whenever Home Assistant shows the watchdog as available, the broker holds a
\* will, unless the last watchdog accepted was stopped while a connection was
\* being made or the broker kept the retained messages and forgot the wills.
THEOREM OnlineBacked == Spec => []OnlineIsBacked
<1>1. BackedInv /\ [Next]_vars => BackedInv'
  <2>. SUFFICES ASSUME BackedInv, [Next]_vars PROVE BackedInv'
    OBVIOUS
  <2>1. AvailabilityTypeOK' /\ LinkInv'
    BY NextKeepsType DEF BackedInv, TypeInv
  <2>2. CASE UNCHANGED vars
    BY <2>1, <2>2
    DEF vars, watchdogVars, queueVars, brokerVars, BackedInv, GoodbyeInv, OnlineIsBacked, WillLost
  <2>3. CASE Next
    BY <2>1, <2>3, WatchdogKeepsBacked, BrokerKeepsBacked DEF Next, BackedInv
  <2>. QED
    BY <2>2, <2>3
<1>2. BackedInv => OnlineIsBacked
  BY DEF BackedInv
<1>. QED
  BY InitBacked, <1>1, <1>2, PTL DEF Spec
-----------------------------------------------------------------------------
(* What the broker shows once it has everything.                           *)

\* The messages the broker has not received since the connection was made.
Unsent == {outbox[i] : i \in (unacked + 1)..Len(outbox)}

\* Unless the last status overtook an older one: after the last status in the
\* queue there is none that differs from the conclusion, neither as it is sent nor
\* in the order of publication; while none is to be sent, the broker shows it or
\* has forgotten it.
StatusInv ==
    conclusion # Nothing /\ "overtaken" \notin excuses =>
        /\ \A i \in 1..Len(outbox) :
               \/ outbox[i] \notin Conclusions
               \/ outbox[i] = conclusion
               \/ \E j \in (i + 1)..Len(outbox) : outbox[j] \in Conclusions
        /\ \/ \E j \in (early + held + 1)..Len(outbox) : outbox[j] \in Conclusions
           \/ \A i \in 1..early : outbox[i] \notin Conclusions
           \/ \A i \in (early + 1)..(early + held) : outbox[i] \notin Conclusions
        /\ Unsent \cap Conclusions = {} =>
               retained["status"] \in {conclusion, Nothing}

\* A process starts with an empty queue. While it runs it has no goodbye in its
\* queue; what it owes to a connection is on its way or shown, but for the will of
\* an earlier process.
PresenceInv ==
    /\ phase = "off" => outbox = <<>>
    /\ phase = "running" =>
           /\ \A i \in 1..Len(outbox) : outbox[i] # "offline"
           /\ link = "up" /\ callback \in {"announced", "none"} =>
                  \/ "online" \in Unsent
                  \/ retained["availability"] = "online"
                  \/ "overwritten" \in excuses
           /\ link = "up" /\ callback = "none" =>
                  "config" \in Unsent \/ retained["discovery"] = "config"

\* A message changes what is shown on its own topic only.
LEMMA KeptShown ==
    ASSUME retained \in [Topic -> Message \cup {Nothing}], NEW message \in Message
    PROVE  /\ message \in Conclusions => Kept(message)["status"] = message
           /\ message \notin Conclusions => Kept(message)["status"] = retained["status"]
           /\ message = "config" => Kept(message)["discovery"] = "config"
           /\ message # "config" => Kept(message)["discovery"] = retained["discovery"]
<1>1. message \in Conclusions => TopicOf(message) = "status"
  BY AvailabilityConstants DEF TopicOf
<1>2. message \notin Conclusions => TopicOf(message) # "status"
  BY DEF TopicOf, Message
<1>3. message = "config" <=> TopicOf(message) = "discovery"
  BY AvailabilityConstants DEF TopicOf, Message, Availability
<1>4. "status" \in Topic /\ "discovery" \in Topic
  BY DEF Topic
<1>. QED
  BY <1>1, <1>2, <1>3, <1>4 DEF Kept

\* A will changes the availability only.
LEMMA WillShown ==
    ASSUME retained \in [Topic -> Message \cup {Nothing}]
    PROVE  /\ Will["status"] = retained["status"]
           /\ Will["discovery"] = retained["discovery"]
BY KeptShown, AvailabilityConstants DEF Will, Message, Availability

\* What is published is still to be sent.
LEMMA PublishQueues ==
    ASSUME TypeInv, NEW message \in Message, PublishRaw(message)
    PROVE  Unsent' = Unsent \cup {message}
<1>. AvailabilityTypeOK /\ LinkInv
  BY DEF TypeInv
<1>1. /\ Len(outbox) \in Nat /\ Place \in 0..Len(outbox) /\ Len(outbox') = Len(outbox) + 1
      /\ \A i \in 1..Place : outbox'[i] = outbox[i]
      /\ outbox'[Place + 1] = message
      /\ \A i \in (Place + 2)..Len(outbox') : outbox'[i] = outbox[i - 1]
      /\ unacked' = unacked
  BY Published
<1>2. unacked \in Nat /\ unacked <= Place
  BY DEF AvailabilityTypeOK, LinkInv, Place
<1>3. ASSUME NEW i \in (unacked' + 1)..Len(outbox') PROVE outbox'[i] \in Unsent \cup {message}
  <2>1. CASE i <= Place
    <3>1. i \in (unacked + 1)..Len(outbox) /\ outbox'[i] = outbox[i]
      BY <1>1, <1>2, <1>3, <2>1
    <3>. QED
      BY <3>1 DEF Unsent
  <2>2. CASE i = Place + 1
    BY <1>1, <2>2
  <2>3. CASE i > Place + 1
    <3>1. i - 1 \in (unacked + 1)..Len(outbox) /\ outbox'[i] = outbox[i - 1]
      BY <1>1, <1>2, <1>3, <2>3
    <3>. QED
      BY <3>1 DEF Unsent
  <2>. QED
    BY <1>1, <1>2, <1>3, <2>1, <2>2, <2>3
<1>4. ASSUME NEW i \in (unacked + 1)..Len(outbox) PROVE outbox[i] \in Unsent'
  <2>1. CASE i <= Place
    <3>1. i \in (unacked' + 1)..Len(outbox') /\ outbox'[i] = outbox[i]
      BY <1>1, <1>2, <1>4, <2>1
    <3>. QED
      BY <3>1 DEF Unsent
  <2>2. CASE i > Place
    <3>1. /\ i + 1 \in (Place + 2)..Len(outbox') /\ i + 1 \in (unacked' + 1)..Len(outbox')
          /\ (i + 1) - 1 = i
      BY <1>1, <1>2, <1>4, <2>2
    <3>2. outbox'[i + 1] = outbox[i]
      BY <1>1, <3>1
    <3>. QED
      BY <3>1, <3>2 DEF Unsent
  <2>. QED
    BY <1>1, <1>2, <1>4, <2>1, <2>2
<1>5. message \in Unsent'
  <2>1. Place + 1 \in (unacked' + 1)..Len(outbox')
    BY <1>1, <1>2
  <2>. QED
    BY <1>1, <2>1 DEF Unsent
<1>. QED
  BY <1>3, <1>4, <1>5 DEF Unsent

\* What is acknowledged leaves the front of the queue, and was sent before.
LEMMA AcknowledgedQueue ==
    ASSUME AvailabilityTypeOK, Acknowledged
    PROVE  /\ Len(outbox) \in Nat /\ Len(outbox') = Len(outbox) - 1
           /\ \A i \in 1..Len(outbox') : outbox'[i] = outbox[i + 1]
           /\ Unsent' = Unsent
<1>1. /\ outbox # <<>> /\ outbox' = Tail(outbox) /\ unacked' = unacked - 1
      /\ unacked \in 1..Len(outbox) /\ outbox \in Seq(Message)
  BY EmptySeq DEF Acknowledged, AvailabilityTypeOK
<1>2. /\ Len(outbox) \in Nat /\ Len(outbox') = Len(outbox) - 1
      /\ \A i \in 1..Len(outbox') : outbox'[i] = outbox[i + 1]
  BY <1>1, HeadTailProperties, LenProperties
<1>3. ASSUME NEW i \in (unacked' + 1)..Len(outbox')
      PROVE  i + 1 \in (unacked + 1)..Len(outbox) /\ outbox'[i] = outbox[i + 1]
  BY <1>1, <1>2
<1>4. ASSUME NEW i \in (unacked + 1)..Len(outbox)
      PROVE  i - 1 \in (unacked' + 1)..Len(outbox') /\ outbox'[i - 1] = outbox[i]
  BY <1>1, <1>2
<1>5. Unsent' = Unsent
  BY <1>3, <1>4 DEF Unsent
<1>. QED
  BY <1>2, <1>5

\* A delivery takes one message from those to be sent.
LEMMA DeliverSends ==
    ASSUME AvailabilityTypeOK, Deliver
    PROVE  /\ unacked + 1 \in 1..Len(outbox) /\ Len(outbox) \in Nat
           /\ outbox[unacked + 1] \in Message
           /\ Unsent = Unsent' \cup {outbox[unacked + 1]}
           /\ retained' = Kept(outbox[unacked + 1])
<1>1. /\ outbox \in Seq(Message) /\ unacked + 1 \in 1..Len(outbox)
      /\ Len(outbox) \in Nat /\ unacked \in Nat
      /\ outbox' = outbox /\ unacked' = unacked + 1
      /\ retained' = Kept(outbox[unacked + 1])
  <2>1. Len(outbox) \in Nat /\ early \in 0..Len(outbox) /\ unacked \in 0..Len(outbox)
    BY LenProperties DEF AvailabilityTypeOK
  <2>2. unacked < Len(outbox)
    BY <2>1 DEF Deliver
  <2>. QED
    BY <2>1, <2>2 DEF AvailabilityTypeOK, Deliver
<1>2. outbox[unacked + 1] \in Message
  BY <1>1, ElementOfSeq
<1>3. (unacked + 1)..Len(outbox) = {unacked + 1} \cup ((unacked + 2)..Len(outbox))
  BY <1>1
<1>4. unacked' + 1 = unacked + 2
  BY <1>1
<1>5. Unsent = Unsent' \cup {outbox[unacked + 1]}
  BY <1>1, <1>3, <1>4 DEF Unsent
<1>. QED
  BY <1>1, <1>2, <1>5

\* A lost connection makes paho send again what it holds, and loses none of it.
LEMMA LoseResends ==
    ASSUME AvailabilityTypeOK, Lose
    PROVE  /\ Unsent \subseteq Unsent'
           /\ \A i \in 1..Len(outbox') : \E j \in 1..Len(outbox) : outbox'[i] = outbox[j]
<1>1. /\ Len(outbox) \in Nat /\ outbox' = InOrder /\ Len(outbox') = Len(outbox)
      /\ \A i \in 1..held : outbox'[i] = outbox[early + i]
      /\ \A i \in (held + 1)..(held + early) : outbox'[i] = outbox[i - held]
      /\ \A i \in (early + held + 1)..Len(outbox) : outbox'[i] = outbox[i]
      /\ unacked' = 0
  BY Reordered DEF Lose
<1>2. /\ early \in Nat /\ held \in Nat /\ early + held <= Len(outbox) /\ unacked \in Nat
  BY <1>1 DEF AvailabilityTypeOK
<1>3. ASSUME NEW i \in 1..Len(outbox)
      PROVE  \E j \in 1..Len(outbox') : outbox'[j] = outbox[i]
  <2>1. CASE i <= early
    <3>1. /\ held + i \in (held + 1)..(held + early) /\ held + i \in 1..Len(outbox')
          /\ (held + i) - held = i
      BY <1>1, <1>2, <1>3, <2>1
    <3>. QED
      BY <1>1, <3>1
  <2>2. CASE i > early /\ i <= early + held
    <3>1. i - early \in 1..held /\ i - early \in 1..Len(outbox') /\ early + (i - early) = i
      BY <1>1, <1>2, <1>3, <2>2
    <3>. QED
      BY <1>1, <3>1
  <2>3. CASE i > early + held
    BY <1>1, <1>2, <1>3, <2>3
  <2>. QED
    BY <1>1, <1>2, <1>3, <2>1, <2>2, <2>3
<1>4. ASSUME NEW i \in 1..Len(outbox')
      PROVE  \E j \in 1..Len(outbox) : outbox'[i] = outbox[j]
  <2>1. CASE i <= held
    <3>1. i \in 1..held /\ early + i \in 1..Len(outbox)
      BY <1>1, <1>2, <1>4, <2>1
    <3>. QED
      BY <1>1, <3>1
  <2>2. CASE i > held /\ i <= held + early
    <3>1. i \in (held + 1)..(held + early) /\ i - held \in 1..Len(outbox)
      BY <1>1, <1>2, <1>4, <2>2
    <3>. QED
      BY <1>1, <3>1
  <2>3. CASE i > held + early
    BY <1>1, <1>2, <1>4, <2>3
  <2>. QED
    BY <1>1, <1>2, <1>4, <2>1, <2>2, <2>3
<1>5. Unsent' = {outbox'[i] : i \in 1..Len(outbox')}
  BY <1>1 DEF Unsent
<1>6. \A i \in (unacked + 1)..Len(outbox) : i \in 1..Len(outbox)
  BY <1>1, <1>2
<1>7. ASSUME NEW message \in Unsent
      PROVE  message \in Unsent'
  <2>1. PICK i \in (unacked + 1)..Len(outbox) : message = outbox[i]
    BY DEF Unsent
  <2>2. PICK j \in 1..Len(outbox') : outbox'[j] = outbox[i]
    BY <1>3, <1>6, <2>1
  <2>. QED
    BY <1>5, <2>1, <2>2
<1>. QED
  BY <1>4, <1>7

\* Where the broker has everything nothing is to be sent.
LEMMA DrainedQueue ==
    ASSUME AvailabilityTypeOK, Drained
    PROVE  Unsent = {}
<1>1. Len(outbox) \in Nat /\ unacked = Len(outbox)
  BY LenProperties DEF AvailabilityTypeOK, Drained
<1>2. (unacked + 1)..Len(outbox) = {}
  BY <1>1
<1>. QED
  BY <1>2 DEF Unsent
-----------------------------------------------------------------------------
(* The status.                                                             *)

\* A message that is no status leaves the last one what it is.
LEMMA OtherMessage ==
    ASSUME TypeInv, StatusInv, NEW message \in Message \ Conclusions,
           PublishRaw(message), UNCHANGED <<conclusion, retained>>,
           "overtaken" \in excuses => "overtaken" \in excuses'
    PROVE  StatusInv'
<1>. AvailabilityTypeOK
  BY DEF TypeInv
<1>1. /\ Len(outbox) \in Nat /\ Place \in 0..Len(outbox) /\ Len(outbox') = Len(outbox) + 1
      /\ \A i \in 1..Place : outbox'[i] = outbox[i]
      /\ outbox'[Place + 1] = message
      /\ \A i \in (Place + 2)..Len(outbox') : outbox'[i] = outbox[i - 1]
      /\ early' = IF Connecting THEN early + 1 ELSE early
      /\ held' = held
  BY Published
<1>2. Unsent' = Unsent \cup {message} /\ message \notin Conclusions
  BY PublishQueues
<1>3. /\ early \in Nat /\ held \in Nat /\ early + held <= Len(outbox)
      /\ Place = IF Connecting THEN early ELSE Len(outbox)
  BY <1>1 DEF AvailabilityTypeOK, Place
<1>. SUFFICES ASSUME conclusion # Nothing, "overtaken" \notin excuses PROVE StatusInv'
  BY DEF StatusInv
<1>4. /\ \A i \in 1..Len(outbox) :
             \/ outbox[i] \notin Conclusions
             \/ outbox[i] = conclusion
             \/ \E j \in (i + 1)..Len(outbox) : outbox[j] \in Conclusions
      /\ \/ \E j \in (early + held + 1)..Len(outbox) : outbox[j] \in Conclusions
         \/ \A i \in 1..early : outbox[i] \notin Conclusions
         \/ \A i \in (early + 1)..(early + held) : outbox[i] \notin Conclusions
      /\ Unsent \cap Conclusions = {} => retained["status"] \in {conclusion, Nothing}
  BY DEF StatusInv
<1>5. ASSUME NEW j \in 1..Len(outbox)
      PROVE  \/ j <= Place /\ j \in 1..Len(outbox') /\ outbox'[j] = outbox[j]
             \/ j > Place /\ j + 1 \in 1..Len(outbox') /\ outbox'[j + 1] = outbox[j]
  <2>1. CASE j <= Place
    BY <1>1, <1>5, <2>1
  <2>2. CASE j > Place
    <3>1. j + 1 \in (Place + 2)..Len(outbox') /\ (j + 1) - 1 = j
      BY <1>1, <1>5, <2>2
    <3>2. outbox'[j + 1] = outbox[j]
      BY <1>1, <3>1
    <3>. QED
      BY <1>1, <1>5, <2>2, <3>2
  <2>. QED
    BY <1>1, <1>5, <2>1, <2>2
<1>6. ASSUME NEW i \in 1..Len(outbox'), outbox'[i] \in Conclusions
      PROVE  \E k \in 1..Len(outbox) :
                 /\ outbox'[i] = outbox[k]
                 /\ \/ i = k /\ k <= Place
                    \/ i = k + 1 /\ k > Place
  <2>1. CASE i <= Place
    BY <1>1, <1>6, <2>1
  <2>2. CASE i > Place
    <3>1. i # Place + 1
      BY <1>1, <1>2, <1>6
    <3>2. i - 1 \in 1..Len(outbox) /\ i - 1 > Place /\ i = (i - 1) + 1 /\ outbox'[i] = outbox[i - 1]
      BY <1>1, <1>6, <2>2, <3>1
    <3>. QED
      BY <3>2
  <2>. QED
    BY <1>1, <1>6, <2>1, <2>2
<1>7. ASSUME NEW i \in 1..Len(outbox')
      PROVE  \/ outbox'[i] \notin Conclusions
             \/ outbox'[i] = conclusion
             \/ \E j \in (i + 1)..Len(outbox') : outbox'[j] \in Conclusions
  <2>. SUFFICES ASSUME outbox'[i] \in Conclusions, outbox'[i] # conclusion
                PROVE  \E j \in (i + 1)..Len(outbox') : outbox'[j] \in Conclusions
    OBVIOUS
  <2>1. PICK k \in 1..Len(outbox) :
            /\ outbox'[i] = outbox[k]
            /\ \/ i = k /\ k <= Place
               \/ i = k + 1 /\ k > Place
    BY <1>6
  <2>2. PICK j \in (k + 1)..Len(outbox) : outbox[j] \in Conclusions
    BY <1>4, <2>1
  <2>3. j \in 1..Len(outbox) /\ j > k
    BY <1>1, <2>1, <2>2
  <2>4. CASE j <= Place /\ j \in 1..Len(outbox') /\ outbox'[j] = outbox[j]
    <3>1. j \in (i + 1)..Len(outbox')
      BY <1>1, <2>1, <2>3, <2>4
    <3>. QED
      BY <2>2, <2>4, <3>1
  <2>5. CASE j > Place /\ j + 1 \in 1..Len(outbox') /\ outbox'[j + 1] = outbox[j]
    <3>1. j + 1 \in (i + 1)..Len(outbox')
      BY <1>1, <2>1, <2>3, <2>5
    <3>. QED
      BY <2>2, <2>5, <3>1
  <2>. QED
    BY <1>5, <2>3, <2>4, <2>5
<1>8. CASE \E j \in (early + held + 1)..Len(outbox) : outbox[j] \in Conclusions
  <2>1. PICK j \in (early + held + 1)..Len(outbox) : outbox[j] \in Conclusions
    BY <1>8
  <2>2. j \in 1..Len(outbox)
    BY <1>1, <1>3, <2>1
  <2>3. CASE Connecting
    <3>1. j > Place /\ early' = early + 1
      BY <1>1, <1>3, <2>1, <2>3
    <3>2. j + 1 \in (early' + held' + 1)..Len(outbox') /\ outbox'[j + 1] = outbox[j]
      BY <1>1, <1>3, <1>5, <2>1, <2>2, <3>1
    <3>. QED
      BY <1>2, <1>4, <1>7, <2>1, <3>2 DEF StatusInv
  <2>4. CASE ~Connecting
    <3>1. j <= Place /\ early' = early
      BY <1>1, <1>3, <2>1, <2>2, <2>4
    <3>2. j \in (early' + held' + 1)..Len(outbox') /\ outbox'[j] = outbox[j]
      BY <1>1, <1>3, <1>5, <2>1, <2>2, <3>1
    <3>. QED
      BY <1>2, <1>4, <1>7, <2>1, <3>2 DEF StatusInv
  <2>. QED
    BY <2>3, <2>4
<1>9. CASE \A i \in 1..early : outbox[i] \notin Conclusions
  <2>1. ASSUME NEW i \in 1..early' PROVE outbox'[i] \notin Conclusions
    <3>1. CASE i <= early
      <4>1. i \in 1..early /\ i \in 1..Place
        BY <1>1, <1>3, <2>1, <3>1
      <4>. QED
        BY <1>1, <1>9, <4>1
    <3>2. CASE i > early
      <4>1. i = Place + 1
        BY <1>1, <1>3, <2>1, <3>2
      <4>. QED
        BY <1>1, <1>2, <4>1
    <3>. QED
      BY <1>1, <1>3, <2>1, <3>1, <3>2
  <2>. QED
    BY <1>2, <1>4, <1>7, <2>1 DEF StatusInv
<1>10. CASE \A i \in (early + 1)..(early + held) : outbox[i] \notin Conclusions
  <2>1. ASSUME NEW i \in (early' + 1)..(early' + held') PROVE outbox'[i] \notin Conclusions
    <3>1. CASE Connecting
      <4>1. /\ i \in (Place + 2)..Len(outbox')
            /\ i - 1 \in (early + 1)..(early + held)
        BY <1>1, <1>3, <2>1, <3>1
      <4>. QED
        BY <1>1, <1>10, <4>1
    <3>2. CASE ~Connecting
      <4>1. i \in 1..Place /\ i \in (early + 1)..(early + held)
        BY <1>1, <1>3, <2>1, <3>2
      <4>. QED
        BY <1>1, <1>10, <4>1
    <3>. QED
      BY <3>1, <3>2
  <2>. QED
    BY <1>2, <1>4, <1>7, <2>1 DEF StatusInv
<1>. QED
  BY <1>4, <1>8, <1>9, <1>10

\* A new conclusion is the last status in the queue, or overtakes an older one.
LEMMA CycleKeepsStatus ==
    ASSUME TypeInv, NEW c \in Conclusions, Cycle(c)
    PROVE  StatusInv'
<1>. AvailabilityTypeOK
  BY DEF TypeInv
<1>1. /\ conclusion' = c /\ PublishRaw(c) /\ c \in Message
      /\ Overtakes => "overtaken" \in excuses'
  BY DEF Cycle, CycleEnds, Message
<1>2. /\ Len(outbox) \in Nat /\ Place \in 0..Len(outbox) /\ Len(outbox') = Len(outbox) + 1
      /\ outbox'[Place + 1] = c
      /\ \A i \in (Place + 2)..Len(outbox') : outbox'[i] = outbox[i - 1]
      /\ early' = IF Connecting THEN early + 1 ELSE early
      /\ held' = held
  BY <1>1, Published
<1>3. Unsent' = Unsent \cup {c}
  BY <1>1, PublishQueues
<1>4. /\ early \in Nat /\ held \in Nat /\ early + held <= Len(outbox)
      /\ Place = IF Connecting THEN early ELSE Len(outbox)
  BY <1>2 DEF AvailabilityTypeOK, Place
<1>5. CASE Overtakes
  BY <1>1, <1>5 DEF StatusInv
<1>6. ASSUME ~Overtakes, NEW i \in (Place + 2)..Len(outbox') PROVE outbox'[i] \notin Conclusions
  <2>1. i - 1 \in (Place + 1)..Len(outbox) /\ outbox'[i] = outbox[i - 1]
    BY <1>2, <1>6
  <2>2. Connecting /\ i - 1 \in (early + 1)..Len(outbox)
    BY <1>2, <1>4, <2>1
  <2>. QED
    BY <1>6, <2>1, <2>2 DEF Overtakes
<1>7. CASE ~Overtakes
  <2>1. ASSUME NEW i \in 1..Len(outbox')
        PROVE  \/ outbox'[i] \notin Conclusions
               \/ outbox'[i] = conclusion'
               \/ \E j \in (i + 1)..Len(outbox') : outbox'[j] \in Conclusions
    <3>1. CASE i <= Place
      <4>1. Place + 1 \in (i + 1)..Len(outbox')
        BY <1>2, <2>1, <3>1
      <4>. QED
        BY <1>2, <4>1
    <3>2. CASE i = Place + 1
      BY <1>1, <1>2, <3>2
    <3>3. CASE i > Place + 1
      <4>1. i \in (Place + 2)..Len(outbox')
        BY <1>2, <2>1, <3>3
      <4>. QED
        BY <1>6, <1>7, <4>1
    <3>. QED
      BY <1>2, <2>1, <3>1, <3>2, <3>3
  <2>2. CASE Connecting
    <3>1. ASSUME NEW i \in (early' + 1)..(early' + held') PROVE outbox'[i] \notin Conclusions
      <4>1. i \in (Place + 2)..Len(outbox')
        BY <1>2, <1>4, <2>2, <3>1
      <4>. QED
        BY <1>6, <1>7, <4>1
    <3>. QED
      BY <1>3, <2>1, <3>1 DEF StatusInv
  <2>3. CASE ~Connecting
    <3>1. Place + 1 \in (early' + held' + 1)..Len(outbox')
      BY <1>2, <1>4, <2>3
    <3>. QED
      BY <1>2, <1>3, <2>1, <3>1 DEF StatusInv
  <2>. QED
    BY <2>2, <2>3
<1>. QED
  BY <1>5, <1>7

\* An acknowledged message was delivered, and leaves the last status in the queue.
LEMMA AcknowledgedKeepsStatus ==
    ASSUME AvailabilityTypeOK, StatusInv, Acknowledged
    PROVE  StatusInv'
<1>1. /\ Len(outbox) \in Nat /\ Len(outbox') = Len(outbox) - 1
      /\ \A i \in 1..Len(outbox') : outbox'[i] = outbox[i + 1]
      /\ Unsent' = Unsent
  BY AcknowledgedQueue
<1>2. /\ conclusion' = conclusion /\ retained' = retained /\ excuses' = excuses
      /\ early' = IF early > 0 THEN early - 1 ELSE 0
      /\ held' = IF early = 0 /\ held > 0 THEN held - 1 ELSE held
  BY DEF Acknowledged, watchdogVars, brokerVars
<1>3. early \in Nat /\ held \in Nat /\ early + held <= Len(outbox)
  BY <1>1 DEF AvailabilityTypeOK
<1>. SUFFICES ASSUME conclusion # Nothing, "overtaken" \notin excuses PROVE StatusInv'
  BY <1>2 DEF StatusInv
<1>4. /\ \A i \in 1..Len(outbox) :
             \/ outbox[i] \notin Conclusions
             \/ outbox[i] = conclusion
             \/ \E j \in (i + 1)..Len(outbox) : outbox[j] \in Conclusions
      /\ \/ \E j \in (early + held + 1)..Len(outbox) : outbox[j] \in Conclusions
         \/ \A i \in 1..early : outbox[i] \notin Conclusions
         \/ \A i \in (early + 1)..(early + held) : outbox[i] \notin Conclusions
      /\ Unsent \cap Conclusions = {} => retained["status"] \in {conclusion, Nothing}
  BY DEF StatusInv
<1>5. ASSUME NEW i \in 1..Len(outbox')
      PROVE  \/ outbox'[i] \notin Conclusions
             \/ outbox'[i] = conclusion
             \/ \E j \in (i + 1)..Len(outbox') : outbox'[j] \in Conclusions
  <2>1. i + 1 \in 1..Len(outbox) /\ outbox'[i] = outbox[i + 1]
    BY <1>1, <1>5
  <2>2. CASE \E j \in ((i + 1) + 1)..Len(outbox) : outbox[j] \in Conclusions
    <3>1. PICK j \in ((i + 1) + 1)..Len(outbox) : outbox[j] \in Conclusions
      BY <2>2
    <3>2. j - 1 \in (i + 1)..Len(outbox') /\ outbox'[j - 1] = outbox[j]
      BY <1>1, <1>5, <3>1
    <3>. QED
      BY <3>1, <3>2
  <2>. QED
    BY <1>4, <2>1, <2>2
<1>6. CASE \E j \in (early + held + 1)..Len(outbox) : outbox[j] \in Conclusions
  <2>1. PICK j \in (early + held + 1)..Len(outbox) : outbox[j] \in Conclusions
    BY <1>6
  <2>2. \/ j - 1 \in (early' + held' + 1)..Len(outbox') /\ outbox'[j - 1] = outbox[j]
        \/ early' = 0 /\ held' = 0
    BY <1>1, <1>2, <1>3, <2>1
  <2>3. CASE early' = 0 /\ held' = 0
    <3>1. \A i \in 1..early' : FALSE
      BY <2>3
    <3>. QED
      BY <1>1, <1>2, <1>4, <1>5, <3>1 DEF StatusInv
  <2>. QED
    BY <1>1, <1>2, <1>4, <1>5, <2>1, <2>2, <2>3 DEF StatusInv
<1>7. CASE \A i \in 1..early : outbox[i] \notin Conclusions
  <2>1. ASSUME NEW i \in 1..early' PROVE outbox'[i] \notin Conclusions
    <3>1. i \in 1..Len(outbox') /\ i + 1 \in 1..early
      BY <1>1, <1>2, <1>3, <2>1
    <3>. QED
      BY <1>1, <1>7, <3>1
  <2>. QED
    BY <1>1, <1>2, <1>4, <1>5, <2>1 DEF StatusInv
<1>8. CASE \A i \in (early + 1)..(early + held) : outbox[i] \notin Conclusions
  <2>1. ASSUME NEW i \in (early' + 1)..(early' + held') PROVE outbox'[i] \notin Conclusions
    <3>1. i \in 1..Len(outbox') /\ i + 1 \in (early + 1)..(early + held)
      BY <1>1, <1>2, <1>3, <2>1
    <3>. QED
      BY <1>1, <1>8, <3>1
  <2>. QED
    BY <1>1, <1>2, <1>4, <1>5, <2>1 DEF StatusInv
<1>. QED
  BY <1>4, <1>6, <1>7, <1>8

\* A goodbye and an announcement are no status.
LEMMA WatchdogKeepsStatus ==
    ASSUME TypeInv, StatusInv,
           \/ Start \/ (\E c \in Conclusions : Cycle(c)) \/ Stop \/ Disconnect \/ Kill
           \/ PahoThread
    PROVE  StatusInv'
<1>. AvailabilityTypeOK /\ LinkInv
  BY DEF TypeInv
<1>0. /\ "online" \in Message \ Conclusions /\ "offline" \in Message \ Conclusions
      /\ "config" \in Message \ Conclusions
  BY AvailabilityConstants DEF Message, Availability
<1>1. ASSUME UNCHANGED <<conclusion, queueVars, retained>>,
             "overtaken" \in excuses => "overtaken" \in excuses'
      PROVE  StatusInv'
  BY <1>1 DEF StatusInv, Unsent, queueVars
<1>2. CASE Start
  BY <1>1, <1>2 DEF Start, brokerVars
<1>3. CASE \E c \in Conclusions : Cycle(c)
  BY <1>3, CycleKeepsStatus
<1>4. CASE Stop
  BY <1>0, <1>1, <1>4, OtherMessage DEF Stop, Stopping, brokerVars
<1>5. CASE Disconnect \/ Kill
  BY <1>5 DEF Disconnect, Kill, Gone, StatusInv
<1>6. CASE Dial \/ OnConnect \/ OnDisconnect
  BY <1>1, <1>6 DEF Dial, OnConnect, OnDisconnect, watchdogVars, brokerVars
<1>7. CASE Connect
  <2>1. /\ UNCHANGED <<conclusion, outbox, unacked, retained, excuses>> /\ early = 0 /\ early' = 0
    BY <1>7 DEF Connect, watchdogVars, brokerVars, LinkInv
  <2>2. \A i \in 1..early' : outbox'[i] \notin Conclusions
    BY <2>1
  <2>. QED
    BY <2>1, <2>2 DEF StatusInv, Unsent
<1>8. CASE Announce
  BY <1>0, <1>8, OtherMessage DEF Announce, brokerVars
<1>9. CASE PublishDiscovery
  BY <1>0, <1>9, OtherMessage DEF PublishDiscovery, brokerVars
<1>10. CASE Acknowledged
  BY <1>10, AcknowledgedKeepsStatus
<1>. QED
  BY <1>2, <1>3, <1>4, <1>5, <1>6, <1>7, <1>8, <1>9, <1>10 DEF PahoThread

\* In the order of publication the last status is the same, unless it overtook one.
LEMMA LoseKeepsStatus ==
    ASSUME TypeInv, StatusInv, Lose,
           retained'["status"] \in {retained["status"], Nothing},
           "overtaken" \in excuses => "overtaken" \in excuses'
    PROVE  StatusInv'
<1>. AvailabilityTypeOK
  BY DEF TypeInv
<1>1. /\ Len(outbox) \in Nat /\ Len(outbox') = Len(outbox)
      /\ \A i \in 1..held : outbox'[i] = outbox[early + i]
      /\ \A i \in (held + 1)..(held + early) : outbox'[i] = outbox[i - held]
      /\ \A i \in (early + held + 1)..Len(outbox) : outbox'[i] = outbox[i]
      /\ early' = 0 /\ held' = 0 /\ conclusion' = conclusion
  BY Reordered DEF Lose
<1>2. early \in Nat /\ held \in Nat /\ early + held <= Len(outbox)
  BY <1>1 DEF AvailabilityTypeOK
<1>3. Unsent \subseteq Unsent'
  BY LoseResends
<1>. SUFFICES ASSUME conclusion # Nothing, "overtaken" \notin excuses PROVE StatusInv'
  BY <1>1 DEF StatusInv
<1>4. /\ \A i \in 1..Len(outbox) :
             \/ outbox[i] \notin Conclusions
             \/ outbox[i] = conclusion
             \/ \E j \in (i + 1)..Len(outbox) : outbox[j] \in Conclusions
      /\ \/ \E j \in (early + held + 1)..Len(outbox) : outbox[j] \in Conclusions
         \/ \A i \in 1..early : outbox[i] \notin Conclusions
         \/ \A i \in (early + 1)..(early + held) : outbox[i] \notin Conclusions
      /\ Unsent \cap Conclusions = {} => retained["status"] \in {conclusion, Nothing}
  BY DEF StatusInv
<1>5. ASSUME NEW j \in 1..Len(outbox)
      PROVE  /\ j <= early => held + j \in 1..Len(outbox) /\ outbox'[held + j] = outbox[j]
             /\ j > early /\ j <= early + held =>
                    j - early \in 1..Len(outbox) /\ outbox'[j - early] = outbox[j]
             /\ j > early + held => outbox'[j] = outbox[j]
  <2>1. CASE j <= early
    <3>1. held + j \in (held + 1)..(held + early) /\ (held + j) - held = j
      BY <1>2, <1>5, <2>1
    <3>2. outbox'[held + j] = outbox[j]
      BY <1>1, <3>1
    <3>. QED
      BY <1>1, <1>2, <1>5, <2>1, <3>2
  <2>2. CASE j > early /\ j <= early + held
    <3>1. j - early \in 1..held /\ early + (j - early) = j
      BY <1>1, <1>2, <1>5, <2>2
    <3>2. outbox'[j - early] = outbox[j]
      BY <1>1, <3>1
    <3>. QED
      BY <1>1, <1>2, <1>5, <2>2, <3>2
  <2>3. CASE j > early + held
    BY <1>1, <1>2, <1>5, <2>3
  <2>. QED
    BY <1>1, <1>2, <1>5, <2>1, <2>2, <2>3
<1>6. ASSUME NEW i \in 1..Len(outbox')
      PROVE  \/ outbox'[i] \notin Conclusions
             \/ outbox'[i] = conclusion
             \/ \E j \in (i + 1)..Len(outbox') : outbox'[j] \in Conclusions
  <2>. SUFFICES ASSUME outbox'[i] \in Conclusions, outbox'[i] # conclusion
                PROVE  \E j \in (i + 1)..Len(outbox') : outbox'[j] \in Conclusions
    OBVIOUS
  <2>1. CASE i > early + held
    <3>1. i \in (early + held + 1)..Len(outbox) /\ i \in 1..Len(outbox)
      BY <1>1, <1>2, <1>6, <2>1
    <3>2. outbox[i] = outbox'[i]
      BY <1>1, <3>1
    <3>3. PICK j \in (i + 1)..Len(outbox) : outbox[j] \in Conclusions
      BY <1>4, <3>1, <3>2
    <3>4. j \in (early + held + 1)..Len(outbox) /\ j \in (i + 1)..Len(outbox')
      BY <1>1, <1>2, <2>1, <3>1, <3>3
    <3>. QED
      BY <1>1, <3>3, <3>4
  <2>2. CASE i <= early + held /\ \E j \in (early + held + 1)..Len(outbox) : outbox[j] \in Conclusions
    <3>1. PICK j \in (early + held + 1)..Len(outbox) : outbox[j] \in Conclusions
      BY <2>2
    <3>2. j \in (i + 1)..Len(outbox') /\ outbox'[j] = outbox[j]
      BY <1>1, <1>2, <1>6, <2>2, <3>1
    <3>. QED
      BY <3>1, <3>2
  <2>3. CASE i <= held
    <3>1. i \in 1..held /\ early + i \in 1..Len(outbox)
      BY <1>1, <1>2, <1>6, <2>3
    <3>2. outbox'[i] = outbox[early + i]
      BY <1>1, <3>1
    <3>3. PICK j \in (early + i + 1)..Len(outbox) : outbox[j] \in Conclusions
      BY <1>4, <3>1, <3>2
    <3>4. j \in 1..Len(outbox) /\ j > early + i
      BY <1>1, <1>2, <1>6, <3>3
    <3>5. CASE j <= early + held
      <4>1. j - early \in (i + 1)..Len(outbox') /\ outbox'[j - early] = outbox[j]
        BY <1>1, <1>2, <1>5, <1>6, <3>4, <3>5
      <4>. QED
        BY <3>3, <4>1
    <3>6. CASE j > early + held
      <4>1. j \in (i + 1)..Len(outbox') /\ outbox'[j] = outbox[j]
        BY <1>1, <1>2, <1>5, <1>6, <3>4, <3>6
      <4>. QED
        BY <3>3, <4>1
    <3>. QED
      BY <1>2, <3>4, <3>5, <3>6
  <2>4. CASE i > held /\ i <= early + held
    <3>1. i \in (held + 1)..(held + early) /\ i - held \in 1..early /\ i - held \in 1..Len(outbox)
      BY <1>1, <1>2, <1>6, <2>4
    <3>2. outbox'[i] = outbox[i - held]
      BY <1>1, <3>1
    <3>3. PICK j \in ((i - held) + 1)..Len(outbox) : outbox[j] \in Conclusions
      BY <1>4, <3>1, <3>2
    <3>4. j \in 1..Len(outbox) /\ j > i - held
      BY <1>1, <1>2, <3>1, <3>3
    <3>5. CASE j <= early
      <4>1. held + j \in (i + 1)..Len(outbox') /\ outbox'[held + j] = outbox[j]
        BY <1>1, <1>2, <1>5, <1>6, <3>4, <3>5
      <4>. QED
        BY <3>3, <4>1
    <3>6. CASE j > early + held
      <4>1. j \in (i + 1)..Len(outbox') /\ outbox'[j] = outbox[j]
        BY <1>1, <1>2, <1>5, <1>6, <2>4, <3>4, <3>6
      <4>. QED
        BY <3>3, <4>1
    <3>7. CASE j > early /\ j <= early + held
      <4>1. j \in (early + 1)..(early + held)
        BY <1>2, <3>4, <3>7
      <4>2. \E l \in (early + held + 1)..Len(outbox) : outbox[l] \in Conclusions
        BY <1>4, <3>1, <3>2, <3>3, <4>1
      <4>. QED
        BY <2>2, <2>4, <4>2
    <3>. QED
      BY <1>2, <3>4, <3>5, <3>6, <3>7
  <2>. QED
    BY <1>1, <1>2, <1>6, <2>1, <2>3, <2>4
<1>7. \A i \in 1..early' : outbox'[i] \notin Conclusions
  BY <1>1
<1>. QED
  BY <1>1, <1>3, <1>4, <1>6, <1>7 DEF StatusInv

\* The broker shows the last status it was sent, and sends none itself.
LEMMA BrokerKeepsStatus ==
    ASSUME TypeInv, StatusInv,
           \/ Accept \/ Deliver \/ (\E id \in sessions : NoticeDeath(id)) \/ LoseLink
           \/ RestartBroker
    PROVE  StatusInv'
<1>. AvailabilityTypeOK
  BY DEF TypeInv
<1>0. Will["status"] = retained["status"]
  BY WillShown DEF AvailabilityTypeOK
<1>1. ASSUME UNCHANGED <<conclusion, queueVars>>, retained'["status"] = retained["status"],
             "overtaken" \in excuses => "overtaken" \in excuses'
      PROVE  StatusInv'
  BY <1>1 DEF StatusInv, Unsent, queueVars
<1>2. CASE Accept
  BY <1>0, <1>1, <1>2 DEF Accept
<1>3. CASE Deliver
  <2>1. /\ unacked + 1 \in 1..Len(outbox) /\ Len(outbox) \in Nat
        /\ outbox[unacked + 1] \in Message
        /\ Unsent = Unsent' \cup {outbox[unacked + 1]}
        /\ retained' = Kept(outbox[unacked + 1])
    BY <1>3, DeliverSends
  <2>2. UNCHANGED <<conclusion, outbox, early, held, excuses>> /\ unacked' = unacked + 1
    BY <1>3 DEF Deliver, watchdogVars
  <2>3. ASSUME conclusion # Nothing, "overtaken" \notin excuses, Unsent' \cap Conclusions = {}
        PROVE  retained'["status"] \in {conclusion, Nothing}
    <3>1. CASE outbox[unacked + 1] \in Conclusions
      <4>1. ASSUME NEW j \in (unacked + 1 + 1)..Len(outbox)
            PROVE  outbox[j] \in Unsent'
        BY <2>2, <4>1 DEF Unsent
      <4>2. outbox[unacked + 1] = conclusion
        BY <2>1, <2>3, <3>1, <4>1 DEF StatusInv
      <4>. QED
        BY <2>1, <3>1, <4>2, KeptShown DEF AvailabilityTypeOK
    <3>2. CASE outbox[unacked + 1] \notin Conclusions
      <4>1. Unsent \cap Conclusions = {}
        BY <2>1, <2>3, <3>2
      <4>. QED
        BY <2>1, <2>3, <3>2, <4>1, KeptShown DEF StatusInv, AvailabilityTypeOK
    <3>. QED
      BY <3>1, <3>2
  <2>. QED
    BY <2>2, <2>3 DEF StatusInv
<1>4. CASE \E id \in sessions : NoticeDeath(id)
  BY <1>0, <1>1, <1>4 DEF NoticeDeath, watchdogVars
<1>5. CASE LoseLink
  BY <1>5, LoseKeepsStatus DEF LoseLink, brokerVars
<1>6. CASE RestartBroker
  <2>1. retained'["status"] \in {retained["status"], Nothing}
    BY <1>6 DEF RestartBroker, Topic
  <2>. QED
    BY <1>6, <2>1, LoseKeepsStatus DEF RestartBroker
<1>. QED
  BY <1>2, <1>3, <1>4, <1>5, <1>6

\* Whatever is lost, sent again, killed or restarted: no older status is shown
\* once the broker has everything the watchdog published, unless the last one
\* overtook it on a new connection.
THEOREM StatusCurrent == Spec => []StatusIsCurrent
<1>1. Init => StatusInv
  BY DEF Init, StatusInv
<1>2. TypeInv /\ StatusInv /\ [Next]_vars => StatusInv'
  <2>1. CASE UNCHANGED vars
    BY <2>1 DEF vars, watchdogVars, queueVars, brokerVars, StatusInv, Unsent
  <2>. QED
    BY <2>1, WatchdogKeepsStatus, BrokerKeepsStatus DEF Next, TypeInv
<1>3. TypeInv /\ StatusInv => StatusIsCurrent
  BY DrainedQueue DEF TypeInv, StatusInv, StatusIsCurrent
<1>. QED
  BY InitType, NextKeepsType, <1>1, <1>2, <1>3, PTL DEF Spec
-----------------------------------------------------------------------------
(* The presence.                                                           *)

\* What a running watchdog publishes, but for the goodbye, takes nothing back.
LEMMA PublishKeepsPresence ==
    ASSUME TypeInv, PresenceInv, NEW message \in Message \ {"offline"},
           PublishRaw(message),
           UNCHANGED <<phase, link, retained>>, phase # "off",
           "overwritten" \in excuses => "overwritten" \in excuses',
           callback' = "announced" => callback = "announced" \/ message = "online",
           callback' = "none" =>
               callback = "none" \/ (callback = "announced" /\ message = "config")
    PROVE  PresenceInv'
<1>1. /\ Len(outbox) \in Nat /\ Place \in 0..Len(outbox) /\ Len(outbox') = Len(outbox) + 1
      /\ \A i \in 1..Place : outbox'[i] = outbox[i]
      /\ outbox'[Place + 1] = message
      /\ \A i \in (Place + 2)..Len(outbox') : outbox'[i] = outbox[i - 1]
  BY Published DEF TypeInv
<1>2. Unsent' = Unsent \cup {message}
  BY PublishQueues
<1>3. ASSUME phase = "running", NEW i \in 1..Len(outbox') PROVE outbox'[i] # "offline"
  <2>1. CASE i <= Place
    <3>1. i \in 1..Place /\ i \in 1..Len(outbox)
      BY <1>1, <1>3, <2>1
    <3>. QED
      BY <1>1, <1>3, <3>1 DEF PresenceInv
  <2>2. CASE i = Place + 1
    BY <1>1, <2>2
  <2>3. CASE i > Place + 1
    <3>1. i \in (Place + 2)..Len(outbox') /\ i - 1 \in 1..Len(outbox)
      BY <1>1, <1>3, <2>3
    <3>. QED
      BY <1>1, <1>3, <3>1 DEF PresenceInv
  <2>. QED
    BY <1>1, <1>3, <2>1, <2>2, <2>3
<1>. QED
  BY <1>2, <1>3 DEF PresenceInv

\* The loop and paho's thread keep what they owe to the connection.
LEMMA WatchdogKeepsPresence ==
    ASSUME TypeInv, PresenceInv,
           \/ Start \/ (\E c \in Conclusions : Cycle(c)) \/ Stop \/ Disconnect \/ Kill
           \/ PahoThread
    PROVE  PresenceInv'
<1>. AvailabilityTypeOK /\ LinkInv
  BY DEF TypeInv
<1>0. /\ Conclusions \subseteq Message \ {"offline"}
      /\ "online" \in Message \ {"offline"} /\ "config" \in Message \ {"offline"}
  BY AvailabilityConstants DEF Message, Availability
<1>1. CASE Start
  <2>1. outbox' = <<>> /\ link' = "down" /\ phase' = "running"
    BY <1>1 DEF Start, queueVars, LinkInv, PresenceInv
  <2>2. Len(outbox') = 0
    BY <2>1, NoMessages
  <2>. QED
    BY <2>1, <2>2 DEF PresenceInv
<1>2. CASE \E c \in Conclusions : Cycle(c)
  BY <1>0, <1>2, PublishKeepsPresence DEF Cycle, CycleEnds, brokerVars
<1>3. CASE Stop \/ Disconnect \/ Kill
  BY <1>3 DEF Stop, Stopping, Disconnect, Kill, Gone, PresenceInv
<1>4. CASE Dial \/ Connect \/ OnConnect \/ OnDisconnect
  BY <1>4
  DEF Dial, Connect, OnConnect, OnDisconnect, watchdogVars, queueVars, brokerVars,
      PresenceInv, Unsent
<1>5. CASE Announce
  BY <1>0, <1>5, PublishKeepsPresence DEF Announce, brokerVars
<1>6. CASE PublishDiscovery
  BY <1>0, <1>6, PublishKeepsPresence DEF PublishDiscovery, brokerVars
<1>7. CASE Acknowledged
  <2>1. /\ Len(outbox) \in Nat /\ Len(outbox') = Len(outbox) - 1
        /\ \A i \in 1..Len(outbox') : outbox'[i] = outbox[i + 1]
        /\ Unsent' = Unsent
    BY <1>7, AcknowledgedQueue
  <2>2. \A i \in 1..Len(outbox') : i + 1 \in 1..Len(outbox)
    BY <2>1
  <2>3. phase' = "off" => outbox' = <<>>
    BY <1>7 DEF Acknowledged, watchdogVars, LinkInv
  <2>. QED
    BY <1>7, <2>1, <2>2, <2>3 DEF Acknowledged, watchdogVars, brokerVars, PresenceInv
<1>. QED
  BY <1>1, <1>2, <1>3, <1>4, <1>5, <1>6, <1>7 DEF PahoThread

\* The watchdog's own will is published before the connection that took its place
\* announces itself; that of another process is the exception.
LEMMA BrokerKeepsPresence ==
    ASSUME TypeInv, PresenceInv,
           \/ Accept \/ Deliver \/ (\E id \in sessions : NoticeDeath(id)) \/ LoseLink
           \/ RestartBroker
    PROVE  PresenceInv'
<1>. AvailabilityTypeOK /\ LinkInv
  BY DEF TypeInv
<1>1. CASE Accept
  BY <1>1 DEF Accept, queueVars, PresenceInv
<1>2. CASE Deliver
  <2>1. /\ unacked + 1 \in 1..Len(outbox) /\ Len(outbox) \in Nat
        /\ outbox[unacked + 1] \in Message
        /\ Unsent = Unsent' \cup {outbox[unacked + 1]}
        /\ retained' = Kept(outbox[unacked + 1])
    BY <1>2, DeliverSends
  <2>2. UNCHANGED <<phase, link, callback, outbox, excuses>>
    BY <1>2 DEF Deliver, watchdogVars
  <2>3. ASSUME outbox[unacked + 1] # "offline",
               "online" \in Unsent \/ retained["availability"] = "online"
        PROVE  "online" \in Unsent' \/ retained'["availability"] = "online"
    <3>1. outbox[unacked + 1] \in Availability => outbox[unacked + 1] = "online"
      BY <2>3 DEF Availability
    <3>. QED
      BY <2>1, <2>3, <3>1, KeptType DEF AvailabilityTypeOK, Availability
  <2>4. ASSUME "config" \in Unsent \/ retained["discovery"] = "config"
        PROVE  "config" \in Unsent' \/ retained'["discovery"] = "config"
    BY <2>1, <2>4, KeptShown DEF AvailabilityTypeOK
  <2>. QED
    BY <2>1, <2>2, <2>3, <2>4 DEF PresenceInv
<1>3. CASE \E id \in sessions : NoticeDeath(id)
  <2>1. PICK id \in sessions : NoticeDeath(id)
    BY <1>3
  <2>2. retained'["discovery"] = retained["discovery"]
    BY <2>1, WillShown DEF NoticeDeath, AvailabilityTypeOK
  <2>3. phase = "running" /\ link = "up" => "overwritten" \in excuses'
    BY <2>1 DEF NoticeDeath
  <2>4. UNCHANGED <<phase, link, callback, queueVars>>
    BY <2>1 DEF NoticeDeath, watchdogVars
  <2>. QED
    BY <2>2, <2>3, <2>4 DEF PresenceInv, Unsent, queueVars
<1>4. CASE LoseLink \/ RestartBroker
  <2>1. Lose
    BY <1>4 DEF LoseLink, RestartBroker
  <2>2. /\ \A i \in 1..Len(outbox') : \E j \in 1..Len(outbox) : outbox'[i] = outbox[j]
        /\ phase' = phase /\ link' = "down"
    BY <2>1, LoseResends DEF Lose
  <2>3. phase' = "off" => outbox' = <<>>
    <3>1. ASSUME phase = "off" PROVE outbox' = <<>>
      <4>1. Len(outbox) = 0
        BY <3>1, NoMessages DEF PresenceInv
      <4>2. InOrder \in Seq(Message) /\ Len(InOrder) = 0 /\ outbox' = InOrder
        BY <2>1, <4>1, Reordered DEF Lose
      <4>. QED
        BY <4>2, EmptySeq
    <3>. QED
      BY <2>2, <3>1
  <2>. QED
    BY <2>2, <2>3 DEF PresenceInv
<1>. QED
  BY <1>1, <1>2, <1>3, <1>4

\* A running watchdog is shown as available, with its entities, whenever the
\* broker has everything, unless the will of an earlier process came after it.
THEOREM PresentOnline == Spec => []PresentIsOnline
<1>1. Init => PresenceInv
  BY DEF Init, PresenceInv
<1>2. TypeInv /\ PresenceInv /\ [Next]_vars => PresenceInv'
  <2>1. CASE UNCHANGED vars
    BY <2>1 DEF vars, watchdogVars, queueVars, brokerVars, PresenceInv, Unsent
  <2>. QED
    BY <2>1, WatchdogKeepsPresence, BrokerKeepsPresence DEF Next
<1>3. TypeInv /\ PresenceInv => PresentIsOnline
  BY DrainedQueue DEF TypeInv, PresenceInv, PresentIsOnline, Drained
<1>. QED
  BY InitType, NextKeepsType, <1>1, <1>2, <1>3, PTL DEF Spec
=============================================================================

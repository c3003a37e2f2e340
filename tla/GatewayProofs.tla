---------------------------- MODULE GatewayProofs ----------------------------
(***************************************************************************)
(* Proofs about Gateway and FrontEnd for every size of the queue and any    *)
(* number of packets, requests, status events, failures and losses of the   *)
(* connection.                                                             *)
(***************************************************************************)
EXTENDS Gateway, SequenceTheorems, TLAPS

-------------------------------------------------------------------------------
(* The inductive invariant                                                 *)

\* How far behind the read index a slot is.
Dist(i) == IF i >= m_pub_queue_read THEN i - m_pub_queue_read
           ELSE i + PUBLISH_QUEUE_SIZE - m_pub_queue_read

\* Equal indexes mean a full queue unless it is marked empty, and it is not
\* while the publish thread works on its oldest slot.
RingInv == /\ m_pub_queue_empty => m_pub_queue_read = m_pub_queue_write
           /\ pub \in {"publish", "free", "advance"} => ~m_pub_queue_empty

\* The slots that hold memory are those in use, until they are freed.
SlotsInv == \A i \in Slots :
  m_publish_queue[i] # NULL <=> Dist(i) < Used /\ (pub = "advance" => i # m_pub_queue_read)

\* Each buffer belongs to the event, request or reconnection that frees it.
Owned(b) ==
  \/ \E t \in {Client, Dispatch} : b = <<t, "event">> /\ event[t].at \in {"allocate", "encode"}
  \/ \E t \in {Client, Dispatch} : b = <<t, "encoded">> /\ event[t].at \in {"encode", "call", "free"}
  \/ b = <<Client, "request">> /\ request.at \in {"decoded", "handle", "encoded", "failed"}
  \/ b = <<Client, "response">> /\ request.at \in {"handle", "encoded", "failed"}
  \/ \E t \in {MainThread, Client} : b = Buffer(t) /\ reconnecting[t] \in {"connect", "status"}
HeapInv == \A b \in heap : Owned(b)

\* Once the status of a connection has been published or queued, it has reached
\* the broker or is still to be published.
Unpublished(i) == Dist(i) < Used /\ (pub \in {"free", "advance"} => i # m_pub_queue_read)
Announced == \A t \in {MainThread, Client} : reconnecting[t] \notin {"connect", "status"}
StatusWaits == \E i \in Slots : Unpublished(i) /\ m_publish_queue[i].kind = "status"
StatusInv == conn = "up" /\ ~refused /\ Announced => retained = "online" \/ StatusWaits

\* Nobody connects while the connection is up: the main thread connects first,
\* and the callback thread only when it has been told of a loss.
Starting == main \in {"start", "opened", "checked", "data", "initialized", "connecting"}
ConnInv ==
  Alive =>
    /\ reconnecting[MainThread] = "connect" => conn = "none"
    /\ reconnecting[MainThread] # "none" => main = "connecting"
    /\ reconnecting[Client] = "connect" => conn = "told"
    /\ Starting /\ reconnecting[MainThread] = "none" => conn = "none"

\* The modules register after the link is open and are closed after it.
MainInv ==
  /\ main \in {"start", "closed", "half closed", "unregistered"} => ~wpc
  /\ main \in {"start", "opened", "checked"} => ~dataCb /\ ~statusCb

Inv == /\ TypeOK /\ RingInv /\ SlotsInv /\ HeapInv /\ ConnInv /\ StatusInv
       /\ MainInv /\ CallbacksFindModules

-------------------------------------------------------------------------------
(* The places of the ring                                                  *)

LEMMA Sizes ==
  /\ PUBLISH_QUEUE_SIZE \in Nat /\ PUBLISH_QUEUE_SIZE > 0
  /\ MaxPackets \in Nat /\ MaxRequests \in Nat /\ MaxStatus \in Nat /\ MaxFaults \in Nat
  /\ MaxLosses \in Nat
  BY SizeAssumption, BoundsAssumption, LossesAssumption

\* The next index, without the remainder.
LEMMA SuccValue ==
  ASSUME NEW i \in Slots
  PROVE  Succ(i) = (IF i = PUBLISH_QUEUE_SIZE - 1 THEN 0 ELSE i + 1) /\ Succ(i) \in Slots
<1>. USE Sizes
<1>1. CASE i = PUBLISH_QUEUE_SIZE - 1
  <2>1. (i + 1) % PUBLISH_QUEUE_SIZE = 0
    BY <1>1
  <2>. QED BY <2>1, <1>1 DEF Succ, Slots
<1>2. CASE i # PUBLISH_QUEUE_SIZE - 1
  <2>1. i + 1 \in 0 .. PUBLISH_QUEUE_SIZE - 1
    BY <1>2 DEF Slots
  <2>2. (i + 1) % PUBLISH_QUEUE_SIZE = i + 1
    BY <2>1
  <2>. QED BY <2>1, <2>2, <1>2 DEF Succ, Slots
<1>. QED BY <1>1, <1>2

\* The n-th slot in use is n - 1 behind.
LEMMA SlotValue ==
  ASSUME m_pub_queue_read \in Slots, NEW n \in 1 .. PUBLISH_QUEUE_SIZE
  PROVE  \E i \in Slots : Slot(n) = i /\ Dist(i) = n - 1
<1>. USE Sizes
<1>. DEFINE a == m_pub_queue_read + n - 1
<1>1. a \in Nat /\ a < 2 * PUBLISH_QUEUE_SIZE
  BY DEF Slots
<1>2. CASE a < PUBLISH_QUEUE_SIZE
  <2>1. a % PUBLISH_QUEUE_SIZE = a
    BY <1>1, <1>2
  <2>. QED BY <1>1, <1>2, <2>1 DEF Slot, Slots, Dist
<1>3. CASE ~(a < PUBLISH_QUEUE_SIZE)
  <2>1. a % PUBLISH_QUEUE_SIZE = a - PUBLISH_QUEUE_SIZE
    BY <1>1, <1>3
  <2>. QED BY <1>1, <1>3, <2>1 DEF Slot, Slots, Dist
<1>. QED BY <1>2, <1>3

\* Every slot is one of those, and only the first is not behind.
LEMMA DistValue ==
  ASSUME m_pub_queue_read \in Slots, NEW i \in Slots
  PROVE  /\ Dist(i) \in 0 .. PUBLISH_QUEUE_SIZE - 1
         /\ Dist(i) = 0 <=> i = m_pub_queue_read
         /\ \A j \in Slots : Dist(j) = Dist(i) => j = i
  BY Sizes DEF Dist, Slots

\* What the ring needs of the invariant.
QueueTypes == /\ m_publish_queue \in [Slots -> Messages \cup {NULL}]
              /\ m_pub_queue_write \in Slots /\ m_pub_queue_read \in Slots
              /\ m_pub_queue_empty \in BOOLEAN
              /\ pub \in {"none", "check", "asleep", "publish", "free", "advance"}
RingSteady == QueueTypes /\ RingInv /\ SlotsInv

\* Used counts slots; the write index is the first that is not in use.
LEMMA UsedValue ==
  ASSUME QueueTypes, RingInv
  PROVE  /\ Used \in 0 .. PUBLISH_QUEUE_SIZE
         /\ Used = 0 <=> m_pub_queue_empty
         /\ Full <=> Used = PUBLISH_QUEUE_SIZE
         /\ ~Full => Dist(m_pub_queue_write) = Used
<1>. USE Sizes
<1>1. m_pub_queue_write \in 0 .. PUBLISH_QUEUE_SIZE - 1 /\ m_pub_queue_read \in 0 .. PUBLISH_QUEUE_SIZE - 1
  BY DEF QueueTypes, Slots
<1>2. CASE m_pub_queue_empty
  BY <1>1, <1>2 DEF RingInv, Used, Full, Dist
<1>3. CASE ~m_pub_queue_empty
  BY <1>1, <1>3 DEF Used, Full, Dist
<1>. QED BY <1>2, <1>3

-------------------------------------------------------------------------------
(* The steps of the ring                                                   *)

\* MQTT_publish finds room and memory for its message.
Inserts(x) ==
  /\ ~Full /\ m_publish_queue' = [m_publish_queue EXCEPT ![m_pub_queue_write] = x]
  /\ m_pub_queue_write' = Succ(m_pub_queue_write) /\ m_pub_queue_empty' = FALSE
  /\ UNCHANGED m_pub_queue_read /\ Wakes

\* Without room or memory it changes nothing: the slot it would write is empty.
LEMMA Publishing ==
  ASSUME RingSteady, NEW x \in Messages, MQTT_publish(x)
  PROVE  \/ Inserts(x) /\ Works /\ refused' = (refused /\ (x.kind # "status"))
         \/ UNCHANGED <<queue, pub>> /\ (Works \/ Fails)
              /\ refused' = (refused \/ (x.kind = "status"))
<1>. QueueTypes /\ RingInv /\ SlotsInv
  BY DEF RingSteady
<1>1. CASE Full
  BY <1>1 DEF MQTT_publish
<1>2. CASE ~Full /\ Stores(x, TRUE) /\ Works /\ refused' = (refused /\ (x.kind # "status"))
  BY <1>2 DEF Stores, Inserts
<1>3. CASE ~Full /\ Stores(x, FALSE) /\ Fails /\ refused' = (refused \/ (x.kind = "status"))
  <2>1. m_pub_queue_write \in Slots /\ m_publish_queue \in [Slots -> Messages \cup {NULL}]
    BY DEF QueueTypes
  <2>2. m_publish_queue[m_pub_queue_write] = NULL
    <3>1. Dist(m_pub_queue_write) = Used /\ Used \in Nat
      BY <1>3, UsedValue
    <3>2. ~(Dist(m_pub_queue_write) < Used)
      BY <3>1
    <3>. QED BY <2>1, <3>2 DEF SlotsInv
  <2>3. m_publish_queue' = [m_publish_queue EXCEPT ![m_pub_queue_write] = NULL]
        /\ UNCHANGED <<m_pub_queue_write, m_pub_queue_read, m_pub_queue_empty, pub>>
    BY <1>3 DEF Stores
  <2>4. m_publish_queue' = m_publish_queue
    BY <2>1, <2>2, <2>3
  <2>. QED BY <1>3, <2>3, <2>4 DEF queue
<1>. QED BY <1>1, <1>2, <1>3 DEF MQTT_publish

\* An insertion takes the first free slot, and no other changes.
LEMMA InsertSlots ==
  ASSUME RingSteady, NEW x \in Messages, Inserts(x)
  PROVE  /\ RingSteady' /\ Used' = Used + 1 /\ Used < PUBLISH_QUEUE_SIZE
         /\ \A i \in Slots : Dist(i)' = Dist(i)
         /\ m_pub_queue_write \in Slots /\ Dist(m_pub_queue_write) = Used
         /\ m_publish_queue'[m_pub_queue_write] = x
         /\ \A i \in Slots : i # m_pub_queue_write => m_publish_queue'[i] = m_publish_queue[i]
<1>. QueueTypes /\ RingInv /\ SlotsInv
  BY DEF RingSteady
<1>. USE Sizes
<1>1. QueueTypes'
  <2>1. m_publish_queue' \in [Slots -> Messages \cup {NULL}] /\ m_pub_queue_empty' \in BOOLEAN
    BY DEF QueueTypes, Inserts
  <2>2. m_pub_queue_write' \in Slots /\ m_pub_queue_read' \in Slots
    BY SuccValue DEF QueueTypes, Inserts
  <2>. QED BY <2>1, <2>2 DEF QueueTypes, Inserts, Wakes
<1>2. /\ m_pub_queue_write \in 0 .. PUBLISH_QUEUE_SIZE - 1 /\ m_pub_queue_read \in 0 .. PUBLISH_QUEUE_SIZE - 1
      /\ m_pub_queue_write \in Slots /\ m_pub_queue_read \in Slots
      /\ m_pub_queue_write' = IF m_pub_queue_write = PUBLISH_QUEUE_SIZE - 1 THEN 0 ELSE m_pub_queue_write + 1
      /\ m_pub_queue_read' = m_pub_queue_read /\ ~m_pub_queue_empty'
  BY SuccValue DEF QueueTypes, Inserts, Slots
<1>3. Used \in Nat /\ Used < PUBLISH_QUEUE_SIZE /\ Dist(m_pub_queue_write) = Used
  BY UsedValue DEF Inserts
<1>4. Used' = Used + 1
  <2>1. CASE m_pub_queue_empty
    BY <1>2, <2>1 DEF RingInv, Used
  <2>2. CASE ~m_pub_queue_empty
    BY <1>2, <2>2 DEF Used, Inserts, Full
  <2>. QED BY <2>1, <2>2
<1>5. \A i \in Slots : Dist(i)' = Dist(i)
  BY <1>2 DEF Dist
<1>6. /\ m_publish_queue'[m_pub_queue_write] = x
      /\ \A i \in Slots : i # m_pub_queue_write => m_publish_queue'[i] = m_publish_queue[i]
  BY <1>2 DEF QueueTypes, Inserts
<1>7. pub' \in {"publish", "free", "advance"} <=> pub \in {"publish", "free", "advance"}
  BY DEF Inserts, Wakes
<1>8. pub' = "advance" <=> pub = "advance"
  BY DEF Inserts, Wakes
<1>9. RingInv'
  BY <1>2, <1>7 DEF RingInv
<1>10. SlotsInv'
  <2>. SUFFICES ASSUME NEW i \in Slots
                PROVE  m_publish_queue'[i] # NULL
                         <=> Dist(i) < Used + 1 /\ (pub = "advance" => i # m_pub_queue_read)
    BY <1>2, <1>4, <1>5, <1>8 DEF SlotsInv
  <2>1. Dist(i) \in Nat
    BY <1>2, DistValue
  <2>2. CASE i = m_pub_queue_write
    <3>1. pub = "advance" => i # m_pub_queue_read
      <4>. SUFFICES ASSUME pub = "advance", i = m_pub_queue_read PROVE FALSE
        OBVIOUS
      <4>1. ~m_pub_queue_empty
        BY DEF RingInv
      <4>2. Used # 0
        BY <4>1, UsedValue
      <4>. QED BY <1>2, <1>3, <2>2, <4>2, DistValue
    <3>. QED BY <1>3, <1>6, <2>2, <3>1, NULLAssumption
  <2>3. CASE i # m_pub_queue_write
    <3>1. Dist(i) # Used
      BY <1>2, <1>3, <2>3, DistValue
    <3>. QED BY <1>3, <1>6, <2>1, <2>3, <3>1 DEF SlotsInv
  <2>. QED BY <2>2, <2>3
<1>. QED BY <1>1, <1>2, <1>3, <1>4, <1>5, <1>6, <1>9, <1>10 DEF RingSteady

\* The slot that was published and freed is given back, and is the oldest no more.
LEMMA AdvanceSlots ==
  ASSUME RingSteady, PubAdvance
  PROVE  /\ RingSteady' /\ Used' = Used - 1 /\ Used \in 1 .. PUBLISH_QUEUE_SIZE
         /\ \A i \in Slots : i # m_pub_queue_read => Dist(i) = Dist(i)' + 1
         /\ \A i \in Slots : i = m_pub_queue_read => Dist(i)' = PUBLISH_QUEUE_SIZE - 1
<1>. QueueTypes /\ RingInv /\ SlotsInv
  BY DEF RingSteady
<1>. USE Sizes
<1>1. /\ pub = "advance" /\ pub' = "check" /\ ~m_pub_queue_empty
      /\ UNCHANGED <<m_publish_queue, m_pub_queue_write>>
      /\ m_pub_queue_read' = Succ(m_pub_queue_read)
      /\ m_pub_queue_empty' = (m_pub_queue_read' = m_pub_queue_write)
  BY DEF PubAdvance, RingInv
<1>2. /\ m_pub_queue_write \in 0 .. PUBLISH_QUEUE_SIZE - 1 /\ m_pub_queue_read \in 0 .. PUBLISH_QUEUE_SIZE - 1
      /\ m_pub_queue_read' \in Slots /\ m_pub_queue_read \in Slots
      /\ m_pub_queue_read' = IF m_pub_queue_read = PUBLISH_QUEUE_SIZE - 1 THEN 0 ELSE m_pub_queue_read + 1
  BY <1>1, SuccValue DEF QueueTypes, Slots
<1>3. Used \in 1 .. PUBLISH_QUEUE_SIZE
  BY <1>1, UsedValue
<1>4. Used' = Used - 1
  <2>1. CASE m_pub_queue_read' = m_pub_queue_write
    <3>1. Used' = 0
      BY <1>1, <2>1 DEF Used
    <3>2. Used = 1
      BY <1>1, <1>2, <2>1 DEF Used
    <3>. QED BY <3>1, <3>2
  <2>2. CASE m_pub_queue_read' # m_pub_queue_write
    <3>1. ~m_pub_queue_empty'
      BY <1>1, <2>2
    <3>. QED BY <1>1, <1>2, <2>2, <3>1 DEF Used
  <2>. QED BY <2>1, <2>2
<1>5. /\ \A i \in Slots : i # m_pub_queue_read => Dist(i) = Dist(i)' + 1
      /\ \A i \in Slots : i = m_pub_queue_read => Dist(i)' = PUBLISH_QUEUE_SIZE - 1
  <2>1. \A i \in Slots : i # m_pub_queue_read => Dist(i) = Dist(i)' + 1
    <3>. SUFFICES ASSUME NEW i \in Slots, i # m_pub_queue_read PROVE Dist(i) = Dist(i)' + 1
      OBVIOUS
    <3>1. i \in 0 .. PUBLISH_QUEUE_SIZE - 1
      BY DEF Slots
    <3>. QED BY <1>2, <3>1 DEF Dist
  <2>2. \A i \in Slots : i = m_pub_queue_read => Dist(i)' = PUBLISH_QUEUE_SIZE - 1
    BY <1>2 DEF Dist
  <2>. QED BY <2>1, <2>2
<1>6. QueueTypes' /\ RingInv'
  BY <1>1, <1>2 DEF QueueTypes, RingInv
<1>7. SlotsInv'
  <2>. SUFFICES ASSUME NEW i \in Slots
                PROVE  m_publish_queue[i] # NULL <=> Dist(i)' < Used - 1
    BY <1>1, <1>4 DEF SlotsInv
  <2>1. CASE i = m_pub_queue_read
    <3>1. m_publish_queue[i] = NULL
      BY <1>1, <2>1 DEF SlotsInv
    <3>. QED BY <1>3, <1>5, <2>1, <3>1
  <2>2. CASE i # m_pub_queue_read
    <3>1. Dist(i) = Dist(i)' + 1 /\ Dist(i)' \in Int
      <4>1. i \in 0 .. PUBLISH_QUEUE_SIZE - 1
        BY DEF Slots
      <4>. QED BY <1>2, <1>5, <2>2, <4>1 DEF Dist
    <3>2. m_publish_queue[i] # NULL <=> Dist(i) < Used
      BY <2>2 DEF SlotsInv
    <3>. QED BY <1>3, <3>1, <3>2
  <2>. QED BY <2>1, <2>2
<1>. QED BY <1>3, <1>4, <1>5, <1>6, <1>7 DEF RingSteady

\* The other steps of the publish thread move no index; the payload that is
\* freed is that of the oldest slot.
LEMMA PublishSlots ==
  ASSUME RingSteady, PubCheck \/ PubPublish \/ PubFree
  PROVE  /\ RingSteady' /\ Used' = Used /\ \A i : Dist(i)' = Dist(i)
         /\ UNCHANGED m_pub_queue_read
         /\ \A i \in Slots : i # m_pub_queue_read => m_publish_queue'[i] = m_publish_queue[i]
<1>. QueueTypes /\ RingInv /\ SlotsInv
  BY DEF RingSteady
<1>1. UNCHANGED <<m_pub_queue_write, m_pub_queue_read, m_pub_queue_empty>>
  BY DEF PubCheck, PubPublish, PubFree, queue
<1>2. Used' = Used /\ \A i : Dist(i)' = Dist(i)
  BY <1>1 DEF Used, Dist
<1>3. CASE PubCheck \/ PubPublish
  <2>1. UNCHANGED m_publish_queue /\ pub # "advance"
        /\ (pub' = "asleep" \/ (pub' \in {"publish", "free"} /\ ~m_pub_queue_empty))
    BY <1>3 DEF PubCheck, PubPublish, queue, RingInv
  <2>2. QueueTypes' /\ RingInv'
    BY <1>1, <2>1 DEF QueueTypes, RingInv
  <2>3. SlotsInv'
    BY <1>1, <1>2, <2>1 DEF SlotsInv
  <2>. QED BY <1>1, <1>2, <2>1, <2>2, <2>3 DEF RingSteady
<1>4. CASE PubFree
  <2>1. /\ pub = "free" /\ pub' = "advance" /\ ~m_pub_queue_empty
        /\ m_publish_queue' = [m_publish_queue EXCEPT ![m_pub_queue_read] = NULL]
    BY <1>4 DEF PubFree, RingInv
  <2>2. QueueTypes' /\ RingInv'
    BY <1>1, <2>1 DEF QueueTypes, RingInv
  <2>3. \A i \in Slots : m_publish_queue'[i] = IF i = m_pub_queue_read THEN NULL ELSE m_publish_queue[i]
    BY <2>1 DEF QueueTypes
  <2>4. SlotsInv'
    BY <1>1, <1>2, <2>1, <2>3 DEF SlotsInv
  <2>. QED BY <1>1, <1>2, <2>2, <2>3, <2>4 DEF RingSteady
<1>. QED BY <1>3, <1>4

\* A step that leaves the queue alone, even if it starts the publish thread.
Rests == UNCHANGED queue /\ (UNCHANGED pub \/ (pub = "none" /\ pub' = "check"))
LEMMA RestSlots ==
  ASSUME RingSteady, Rests
  PROVE  /\ RingSteady' /\ Used' = Used /\ (\A i : Dist(i)' = Dist(i))
         /\ \A i : Unpublished(i)' <=> Unpublished(i)
<1>. QueueTypes /\ RingInv /\ SlotsInv
  BY DEF RingSteady
<1>1. UNCHANGED <<m_publish_queue, m_pub_queue_write, m_pub_queue_read, m_pub_queue_empty>>
  BY DEF Rests, queue
<1>2. Used' = Used /\ \A i : Dist(i)' = Dist(i)
  BY <1>1 DEF Used, Dist
<1>. QED BY <1>1, <1>2 DEF Rests, RingSteady, QueueTypes, RingInv, SlotsInv, Unpublished

-------------------------------------------------------------------------------
(* The queue as a sequence                                                 *)

\* What the abstract queue holds, what the broker's client is given now, and
\* the slots of the messages that are still to be published.
Contents == IF pub \in {"free", "advance"} THEN Tail(Queued) ELSE Queued
Given == IF pub = "publish" THEN m_publish_queue[m_pub_queue_read] ELSE NULL
Past == IF pub \in {"free", "advance"} THEN 1 ELSE 0
Waiting == [n \in 1 .. Used - Past |-> m_publish_queue[Slot(n + Past)]]

\* The n-th message waiting is n + Past - 1 behind the read index.
WaitingInSlots == \A n \in 1 .. Used - Past :
  \E i \in Slots : /\ Waiting[n] = m_publish_queue[i]
                   /\ Dist(i) = n + Past - 1 /\ Dist(i) < Used
LEMMA WaitingSlot == RingSteady => WaitingInSlots
<1>. SUFFICES ASSUME RingSteady, NEW n \in 1 .. Used - Past
              PROVE  \E i \in Slots : /\ Waiting[n] = m_publish_queue[i]
                                      /\ Dist(i) = n + Past - 1 /\ Dist(i) < Used
  BY DEF WaitingInSlots
<1>. QueueTypes /\ RingInv
  BY DEF RingSteady
<1>. USE Sizes
<1>1. PICK p : p = Past
  OBVIOUS
<1>2. p \in {0, 1} /\ Used \in 0 .. PUBLISH_QUEUE_SIZE
  BY <1>1, UsedValue DEF Past
<1>3. n + p \in 1 .. PUBLISH_QUEUE_SIZE /\ n \in Nat /\ n + p <= Used
  BY <1>1, <1>2
<1>4. PICK i \in Slots : Slot(n + p) = i /\ Dist(i) = n + p - 1
  <2>1. m_pub_queue_read \in Slots
    BY DEF QueueTypes
  <2>. DEFINE m == n + p
  <2>2. m \in 1 .. PUBLISH_QUEUE_SIZE
    BY <1>3
  <2>. HIDE DEF m
  <2>3. \E i \in Slots : Slot(m) = i /\ Dist(i) = m - 1
    BY <2>1, <2>2, SlotValue
  <2>4. m = n + p /\ m - 1 = n + p - 1
    BY <1>2, <1>3 DEF m
  <2>. QED BY <2>3, <2>4
<1>5. Waiting[n] = m_publish_queue[i]
  BY <1>1, <1>4 DEF Waiting, Slot
<1>. QED BY <1>1, <1>2, <1>3, <1>4, <1>5

\* Contents is a sequence of messages, read from the slots in use.
ContentsFacts == /\ Contents = Waiting /\ Waiting \in Seq(Messages)
                 /\ Len(Waiting) = Used - Past /\ Used - Past \in Nat
                 /\ Used \in 0 .. PUBLISH_QUEUE_SIZE /\ Past \in {0, 1}
LEMMA ContentsSeq == RingSteady => ContentsFacts
<1>. SUFFICES ASSUME RingSteady PROVE ContentsFacts
  OBVIOUS
<1>. QueueTypes /\ RingInv /\ SlotsInv
  BY DEF RingSteady
<1>. USE Sizes
<1>1. Used \in 0 .. PUBLISH_QUEUE_SIZE /\ Past \in {0, 1} /\ m_pub_queue_read \in Slots
  BY UsedValue DEF Past, QueueTypes
<1>2. Used - Past \in Nat
  BY <1>1, UsedValue DEF Past, RingInv
<1>3. Queued \in Seq(Messages \cup {NULL}) /\ Len(Queued) = Used
  <2>1. \A n \in 1 .. Used : m_publish_queue[Slot(n)] \in Messages \cup {NULL}
    <3>. SUFFICES ASSUME NEW n \in 1 .. Used
                  PROVE  m_publish_queue[Slot(n)] \in Messages \cup {NULL}
      OBVIOUS
    <3>1. n \in 1 .. PUBLISH_QUEUE_SIZE
      BY <1>1
    <3>. QED BY <1>1, <3>1, SlotValue DEF QueueTypes
  <2>2. Queued \in [1 .. Used -> Messages \cup {NULL}]
    BY <2>1 DEF Queued
  <2>. QED BY <1>1, <2>2, LenProperties, SeqDef
<1>4. Waiting \in Seq(Messages) /\ Len(Waiting) = Used - Past
  <2>1. \A n \in 1 .. Used - Past : Waiting[n] \in Messages
    <3>. SUFFICES ASSUME NEW n \in 1 .. Used - Past PROVE Waiting[n] \in Messages
      OBVIOUS
    <3>1. PICK i \in Slots : /\ Waiting[n] = m_publish_queue[i]
                             /\ Dist(i) = n + Past - 1 /\ Dist(i) < Used
      BY WaitingSlot DEF WaitingInSlots
    <3>2. pub = "advance" => Dist(i) # 0
      BY <3>1 DEF Past
    <3>3. pub = "advance" => i # m_pub_queue_read
      BY <1>1, <3>2, DistValue
    <3>4. m_publish_queue[i] # NULL
      BY <3>1, <3>3 DEF SlotsInv
    <3>. QED BY <3>1, <3>4 DEF QueueTypes
  <2>2. Waiting \in [1 .. Used - Past -> Messages]
    BY <2>1 DEF Waiting
  <2>. QED BY <1>2, <2>2, LenProperties, SeqDef
<1>5. Contents = Waiting
  <2>1. CASE pub \in {"free", "advance"}
    <3>1. Past = 1 /\ Contents = Tail(Queued) /\ Used >= 1
      BY <1>1, <1>2, <2>1 DEF Past, Contents
    <3>2. Queued # << >>
      BY <1>3, <3>1, EmptySeq
    <3>3. /\ Tail(Queued) \in Seq(Messages \cup {NULL}) /\ Len(Tail(Queued)) = Used - 1
          /\ \A n \in 1 .. Used - 1 : Tail(Queued)[n] = Queued[n + 1]
      BY <1>3, <3>2, HeadTailProperties
    <3>4. \A n \in 1 .. Used - 1 : Waiting[n] = Queued[n + 1]
      <4>1. \A n \in 1 .. Used - 1 : n + 1 \in 1 .. Used
        BY <1>1
      <4>. QED BY <3>1, <4>1 DEF Waiting, Queued, Slot
    <3>5. Waiting \in Seq(Messages \cup {NULL})
      BY <1>4
    <3>6. \A n \in 1 .. Len(Tail(Queued)) : Tail(Queued)[n] = Waiting[n]
      BY <3>3, <3>4
    <3>. QED BY <1>4, <3>1, <3>3, <3>5, <3>6, SeqEqual
  <2>2. CASE pub \notin {"free", "advance"}
    <3>1. Past = 0 /\ Contents = Queued
      BY <2>2 DEF Past, Contents
    <3>2. Used - 0 = Used /\ \A n \in 1 .. Used : n + 0 = n
      BY <1>1
    <3>3. Waiting = [n \in 1 .. Used |-> m_publish_queue[Slot(n)]]
      BY <3>1, <3>2 DEF Waiting, Slot
    <3>. QED BY <3>1, <3>3 DEF Queued
  <2>. QED BY <2>1, <2>2
<1>. QED BY <1>1, <1>2, <1>4, <1>5 DEF ContentsFacts

\* So it is after a step.
LEMMA FactsNext ==
  RingSteady' => WaitingInSlots' /\ ContentsFacts'
  BY WaitingSlot, ContentsSeq, PTL

\* The abstract actions in terms of Contents and Given.
LEMMA FifoSteps ==
  /\ Fifo!Init <=> Contents = << >> /\ Given = NULL
  /\ \A x \in Messages : Fifo!Arrive(x) <=>
       Len(Contents) < PUBLISH_QUEUE_SIZE /\ Contents' = Append(Contents, x) /\ Given' = Given
  /\ Fifo!Begin <=>
       Given = NULL /\ Contents # << >> /\ Given' = Head(Contents) /\ Contents' = Contents
  /\ Fifo!End <=> Given # NULL /\ Given' = NULL /\ Contents' = Tail(Contents)
  /\ Contents' = Contents /\ Given' = Given => UNCHANGED Fifo!vars
BY DEF Fifo!Init, Fifo!Arrive, Fifo!Begin, Fifo!End, Fifo!vars, Contents, Given

\* The oldest slot holds the first message until it is published.
LEMMA OldestSlot ==
  ASSUME RingSteady, pub \in {"check", "publish"}, ~m_pub_queue_empty
  PROVE  /\ Contents # << >> /\ Head(Contents) = m_publish_queue[m_pub_queue_read]
         /\ m_publish_queue[m_pub_queue_read] \in Messages
<1>. QueueTypes /\ RingInv /\ SlotsInv
  BY DEF RingSteady
<1>. USE Sizes
<1>1. Past = 0 /\ Used >= 1 /\ Used \in Nat
  BY UsedValue DEF Past
<1>2. 1 \in 1 .. Used - Past
  BY <1>1
<1>3. Contents = Waiting /\ Contents \in Seq(Messages) /\ Len(Contents) >= 1
  BY <1>1, ContentsSeq DEF ContentsFacts
<1>4. Contents # << >> /\ Contents[1] \in Messages
  BY <1>3, EmptySeq, ElementOfSeq
<1>5. Head(Contents) = Contents[1]
  BY <1>3, <1>4
<1>6. PICK i \in Slots : /\ Waiting[1] = m_publish_queue[i] /\ Dist(i) = 1 + Past - 1
  BY <1>2, WaitingSlot DEF WaitingInSlots
<1>7. i = m_pub_queue_read
  <2>1. m_pub_queue_read \in Slots
    BY DEF QueueTypes
  <2>2. Dist(i) = 0
    BY <1>1, <1>6
  <2>. QED BY <2>1, <2>2, DistValue
<1>. QED BY <1>3, <1>4, <1>5, <1>6, <1>7

\* A message that is queued arrives at the end.
LEMMA InsertArrives ==
  ASSUME RingSteady, NEW x \in Messages, Inserts(x)
  PROVE  Fifo!Arrive(x)
<1>. USE Sizes
<1>1. /\ RingSteady' /\ Used' = Used + 1 /\ Used < PUBLISH_QUEUE_SIZE
      /\ \A i \in Slots : Dist(i)' = Dist(i)
      /\ m_pub_queue_write \in Slots /\ Dist(m_pub_queue_write) = Used
      /\ m_publish_queue'[m_pub_queue_write] = x
      /\ \A i \in Slots : i # m_pub_queue_write => m_publish_queue'[i] = m_publish_queue[i]
      /\ m_pub_queue_read \in Slots /\ m_pub_queue_read' = m_pub_queue_read
  BY InsertSlots DEF Inserts, RingSteady, QueueTypes
<1>2. ContentsFacts /\ ContentsFacts' /\ WaitingInSlots /\ WaitingInSlots'
  BY <1>1, ContentsSeq, WaitingSlot, FactsNext
<1>3. Past' = Past /\ Past \in {0, 1} /\ Used \in Nat /\ Used - Past \in Nat
  <2>1. pub' \in {"free", "advance"} <=> pub \in {"free", "advance"}
    BY DEF Inserts, Wakes
  <2>. QED BY <1>2, <2>1 DEF Past, ContentsFacts
<1>4. PICK len \in Nat : len = Used - Past
  BY <1>3
<1>5. Len(Waiting) = len /\ Len(Waiting') = len + 1 /\ Waiting \in Seq(Messages) /\ Waiting' \in Seq(Messages)
  BY <1>1, <1>2, <1>3, <1>4 DEF ContentsFacts
<1>6. \A n \in 1 .. len : Waiting'[n] = Waiting[n]
  <2>. SUFFICES ASSUME NEW n \in 1 .. len PROVE Waiting'[n] = Waiting[n]
    OBVIOUS
  <2>1. n \in 1 .. Used - Past /\ n \in 1 .. (Used - Past)'
    BY <1>1, <1>3, <1>4
  <2>2. PICK i \in Slots : /\ Waiting[n] = m_publish_queue[i]
                           /\ Dist(i) = n + Past - 1 /\ Dist(i) < Used
    BY <1>2, <2>1 DEF WaitingInSlots
  <2>3. PICK j \in Slots : Waiting'[n] = m_publish_queue'[j] /\ Dist(j)' = n + Past' - 1
    BY <1>1, <1>2, <2>1 DEF WaitingInSlots, Slots
  <2>4. j = i
    <3>1. Dist(j) = Dist(i)
      BY <1>1, <1>3, <2>2, <2>3
    <3>. QED BY <1>1, <3>1, DistValue
  <2>5. i # m_pub_queue_write
    BY <1>1, <1>3, <2>2
  <2>. QED BY <1>1, <2>2, <2>3, <2>4, <2>5
<1>7. Waiting'[len + 1] = x
  <2>1. len + 1 \in 1 .. (Used - Past)'
    BY <1>1, <1>3, <1>4
  <2>2. PICK j \in Slots : Waiting'[len + 1] = m_publish_queue'[j] /\ Dist(j)' = len + 1 + Past' - 1
    BY <1>1, <1>2, <2>1 DEF WaitingInSlots, Slots
  <2>3. Dist(j) = Dist(m_pub_queue_write)
    BY <1>1, <1>3, <1>4, <2>2
  <2>4. j = m_pub_queue_write
    BY <1>1, <2>3, DistValue
  <2>. QED BY <1>1, <2>2, <2>4
<1>8. Waiting' = Append(Waiting, x)
  <2>1. /\ Append(Waiting, x) \in Seq(Messages) /\ Len(Append(Waiting, x)) = len + 1
        /\ \A n \in 1 .. len : Append(Waiting, x)[n] = Waiting[n]
        /\ Append(Waiting, x)[len + 1] = x
    BY <1>5, AppendProperties
  <2>2. \A n \in 1 .. len + 1 : n \in 1 .. len \/ n = len + 1
    OBVIOUS
  <2>3. \A n \in 1 .. Len(Waiting') : Waiting'[n] = Append(Waiting, x)[n]
    BY <1>5, <1>6, <1>7, <2>1, <2>2
  <2>. QED BY <1>5, <2>1, <2>3, SeqEqual
<1>9. Given' = Given
  <2>1. pub' = "publish" <=> pub = "publish"
    BY DEF Inserts, Wakes
  <2>2. pub = "publish" => m_publish_queue'[m_pub_queue_read] = m_publish_queue[m_pub_queue_read]
    <3>. SUFFICES ASSUME pub = "publish"
                  PROVE  m_publish_queue'[m_pub_queue_read] = m_publish_queue[m_pub_queue_read]
      OBVIOUS
    <3>1. Used # 0
      BY UsedValue DEF RingSteady, RingInv
    <3>2. m_pub_queue_read # m_pub_queue_write
      BY <1>1, <3>1, DistValue
    <3>. QED BY <1>1, <3>2
  <2>. QED BY <1>1, <2>1, <2>2 DEF Given
<1>10. Len(Contents) < PUBLISH_QUEUE_SIZE /\ Contents = Waiting /\ Contents' = Waiting'
  BY <1>1, <1>2, <1>3 DEF ContentsFacts
<1>. QED BY <1>8, <1>9, <1>10, FifoSteps

\* The message given to the broker's client leaves the queue when it returns.
LEMMA PublishEnds ==
  ASSUME RingSteady, PubPublish
  PROVE  Fifo!End
<1>. USE Sizes
<1>1. /\ RingSteady' /\ Used' = Used /\ (\A i : Dist(i)' = Dist(i))
      /\ pub = "publish" /\ pub' = "free" /\ UNCHANGED m_publish_queue /\ ~m_pub_queue_empty
      /\ m_pub_queue_read \in Slots
  BY PublishSlots DEF PubPublish, RingSteady, RingInv, QueueTypes, queue
<1>2. ContentsFacts /\ ContentsFacts' /\ WaitingInSlots /\ WaitingInSlots'
  BY <1>1, ContentsSeq, WaitingSlot, FactsNext
<1>3. Past = 0 /\ Past' = 1 /\ Used \in Nat /\ Used >= 1
  BY <1>1, <1>2 DEF Past, ContentsFacts
<1>4. Len(Waiting) = Used /\ Len(Waiting') = Used - 1 /\ Waiting \in Seq(Messages) /\ Waiting' \in Seq(Messages)
  BY <1>1, <1>2, <1>3 DEF ContentsFacts
<1>5. \A n \in 1 .. Used - 1 : Waiting'[n] = Waiting[n + 1]
  <2>. SUFFICES ASSUME NEW n \in 1 .. Used - 1 PROVE Waiting'[n] = Waiting[n + 1]
    OBVIOUS
  <2>1. n + 1 \in 1 .. Used - Past /\ n \in 1 .. (Used - Past)'
    BY <1>1, <1>3
  <2>2. PICK i \in Slots : Waiting[n + 1] = m_publish_queue[i] /\ Dist(i) = n + 1 + Past - 1
    BY <1>2, <2>1 DEF WaitingInSlots
  <2>3. PICK j \in Slots : Waiting'[n] = m_publish_queue'[j] /\ Dist(j)' = n + Past' - 1
    BY <1>2, <2>1 DEF WaitingInSlots, Slots
  <2>4. Dist(j) = Dist(i)
    BY <1>1, <1>3, <2>2, <2>3
  <2>5. j = i
    BY <1>1, <2>4, DistValue
  <2>. QED BY <1>1, <2>2, <2>3, <2>5
<1>6. Waiting # << >>
  BY <1>3, <1>4, EmptySeq
<1>7. Waiting' = Tail(Waiting)
  <2>1. /\ Tail(Waiting) \in Seq(Messages) /\ Len(Tail(Waiting)) = Used - 1
        /\ \A n \in 1 .. Used - 1 : Tail(Waiting)[n] = Waiting[n + 1]
    BY <1>4, <1>6, HeadTailProperties
  <2>2. \A n \in 1 .. Len(Waiting') : Waiting'[n] = Tail(Waiting)[n]
    BY <1>4, <1>5, <2>1
  <2>. QED BY <1>4, <2>1, <2>2, SeqEqual
<1>8. Given # NULL /\ Given' = NULL
  <2>1. m_publish_queue[m_pub_queue_read] \in Messages
    BY <1>1, OldestSlot
  <2>. QED BY <1>1, <2>1, NULLAssumption DEF Given
<1>9. Contents = Waiting /\ Contents' = Waiting'
  BY <1>2 DEF ContentsFacts
<1>. QED BY <1>7, <1>8, <1>9, FifoSteps

\* A step that changes no slot of a waiting message, counted from the oldest.
LEMMA SameContents ==
  ASSUME RingSteady, RingSteady', Used' - Past' = Used - Past,
         \A i, j \in Slots : Dist(i) - Past = Dist(j)' - Past' /\ Dist(i) >= Past =>
           m_publish_queue'[j] = m_publish_queue[i]
  PROVE  Contents' = Contents
<1>1. ContentsFacts /\ ContentsFacts' /\ WaitingInSlots /\ WaitingInSlots'
  BY ContentsSeq, WaitingSlot, FactsNext
<1>2. PICK len \in Nat : len = Used - Past /\ len = Used' - Past'
  BY <1>1 DEF ContentsFacts
<1>3. Past \in {0, 1} /\ Past' \in {0, 1}
  BY <1>1 DEF ContentsFacts
<1>4. ASSUME NEW n \in 1 .. len
      PROVE  Waiting'[n] = Waiting[n]
  <2>1. PICK i \in Slots : Waiting[n] = m_publish_queue[i] /\ Dist(i) = n + Past - 1
    BY <1>1, <1>2 DEF WaitingInSlots
  <2>2. PICK j \in Slots : Waiting'[n] = m_publish_queue'[j] /\ Dist(j)' = n + Past' - 1
    BY <1>1, <1>2 DEF WaitingInSlots, Slots
  <2>3. Dist(i) - Past = Dist(j)' - Past' /\ Dist(i) >= Past
    BY <1>3, <2>1, <2>2
  <2>. QED BY <2>1, <2>2, <2>3
<1>5. /\ Waiting \in Seq(Messages) /\ Waiting' \in Seq(Messages)
      /\ Len(Waiting) = len /\ Len(Waiting') = len
      /\ Contents = Waiting /\ Contents' = Waiting'
  BY <1>1, <1>2 DEF ContentsFacts
<1>. QED BY <1>4, <1>5, SeqEqual

\* The publish thread looks at the oldest message, or goes to sleep.
LEMMA CheckBegins ==
  ASSUME RingSteady, PubCheck
  PROVE  Fifo!Begin \/ UNCHANGED Fifo!vars
<1>. USE Sizes
<1>1. /\ RingSteady' /\ Used' = Used /\ (\A i : Dist(i)' = Dist(i))
      /\ pub = "check" /\ pub' = (IF m_pub_queue_empty THEN "asleep" ELSE "publish")
      /\ UNCHANGED <<m_publish_queue, m_pub_queue_read>> /\ m_pub_queue_read \in Slots
  BY PublishSlots DEF PubCheck, RingSteady, QueueTypes, queue
<1>2. Past = 0 /\ Past' = 0 /\ Given = NULL
  BY <1>1 DEF Past, Given
<1>3. Contents' = Contents
  <2>1. ASSUME NEW i \in Slots, NEW j \in Slots, Dist(i) - Past = Dist(j)' - Past'
        PROVE  m_publish_queue'[j] = m_publish_queue[i]
    <3>1. Dist(i) \in Nat /\ Dist(j) \in Nat
      BY <1>1, DistValue
    <3>2. Dist(i) = Dist(j)
      BY <1>1, <1>2, <2>1, <3>1
    <3>. QED BY <1>1, <3>2, DistValue
  <2>2. Used' - Past' = Used - Past
    BY <1>1, <1>2
  <2>. QED BY <1>1, <2>1, <2>2, SameContents
<1>4. CASE m_pub_queue_empty
  <2>1. Given' = NULL
    BY <1>1, <1>4 DEF Given
  <2>. QED BY <1>2, <1>3, <2>1, FifoSteps
<1>5. CASE ~m_pub_queue_empty
  <2>1. Contents # << >> /\ Head(Contents) = m_publish_queue[m_pub_queue_read]
    BY <1>1, <1>5, OldestSlot
  <2>2. Given' = m_publish_queue[m_pub_queue_read]
    BY <1>1, <1>5 DEF Given
  <2>. QED BY <1>2, <1>3, <2>1, <2>2, FifoSteps
<1>. QED BY <1>4, <1>5

\* Freeing the payload and giving the slot back are not seen.
LEMMA ReleaseStutters ==
  ASSUME RingSteady, PubFree \/ PubAdvance
  PROVE  UNCHANGED Fifo!vars
<1>. USE Sizes
<1>1. m_pub_queue_read \in Slots
  BY DEF RingSteady, QueueTypes
<1>2. Given = NULL /\ Given' = NULL
  BY DEF PubFree, PubAdvance, Given
<1>3. CASE PubFree
  <2>1. /\ RingSteady' /\ Used' = Used /\ (\A i : Dist(i)' = Dist(i))
        /\ pub = "free" /\ pub' = "advance"
        /\ \A i \in Slots : i # m_pub_queue_read => m_publish_queue'[i] = m_publish_queue[i]
    BY <1>3, PublishSlots DEF PubFree
  <2>2. Past = 1 /\ Past' = 1
    BY <2>1 DEF Past
  <2>3. ASSUME NEW i \in Slots, NEW j \in Slots, Dist(i) - Past = Dist(j)' - Past', Dist(i) >= Past
        PROVE  m_publish_queue'[j] = m_publish_queue[i]
    <3>1. Dist(i) \in Nat /\ Dist(j) \in Nat
      BY <1>1, DistValue
    <3>2. Dist(i) = Dist(j) /\ Dist(i) # 0
      BY <2>1, <2>2, <2>3, <3>1
    <3>. QED BY <1>1, <2>1, <3>2, DistValue
  <2>4. Used' - Past' = Used - Past
    BY <2>1, <2>2
  <2>5. Contents' = Contents
    BY <2>1, <2>3, <2>4, SameContents
  <2>. QED BY <1>2, <2>5, FifoSteps
<1>4. CASE PubAdvance
  <2>1. /\ RingSteady' /\ Used' = Used - 1 /\ Used \in Nat
        /\ \A i \in Slots : i # m_pub_queue_read => Dist(i) = Dist(i)' + 1
        /\ \A i \in Slots : i = m_pub_queue_read => Dist(i)' = PUBLISH_QUEUE_SIZE - 1
        /\ pub = "advance" /\ pub' = "check" /\ m_publish_queue' = m_publish_queue
    BY <1>4, AdvanceSlots DEF PubAdvance
  <2>2. Past = 1 /\ Past' = 0
    BY <2>1 DEF Past
  <2>3. ASSUME NEW i \in Slots, NEW j \in Slots, Dist(i) - Past = Dist(j)' - Past', Dist(i) >= Past
        PROVE  m_publish_queue'[j] = m_publish_queue[i]
    <3>1. Dist(i) \in 0 .. PUBLISH_QUEUE_SIZE - 1 /\ Dist(j) \in Nat
      BY <1>1, DistValue
    <3>2. Dist(j)' \in Int
      <4>1. m_pub_queue_read' \in Slots
        BY <2>1 DEF RingSteady, QueueTypes
      <4>. QED BY <4>1 DEF Dist, Slots
    <3>3. j # m_pub_queue_read
      BY <2>1, <2>2, <2>3, <3>1, <3>2
    <3>4. Dist(i) = Dist(j)
      BY <2>1, <2>2, <2>3, <3>1, <3>2, <3>3
    <3>. QED BY <1>1, <2>1, <3>4, DistValue
  <2>4. Used' - Past' = Used - Past
    BY <2>1, <2>2
  <2>5. Contents' = Contents
    BY <2>1, <2>3, <2>4, SameContents
  <2>. QED BY <1>2, <2>5, FifoSteps
<1>. QED BY <1>3, <1>4

\* A step that leaves the queue alone is not seen either.
LEMMA RestStutters ==
  ASSUME RingSteady, Rests
  PROVE  UNCHANGED Fifo!vars
<1>1. UNCHANGED <<m_publish_queue, m_pub_queue_write, m_pub_queue_read, m_pub_queue_empty>>
  BY DEF Rests, queue
<1>2. pub' = pub \/ {pub, pub'} \cap {"free", "advance", "publish"} = {}
  BY DEF Rests
<1>3. Used' = Used /\ Queued' = Queued
  BY <1>1 DEF Used, Queued, Slot
<1>4. Contents' = Contents /\ Given' = Given
  BY <1>1, <1>2, <1>3 DEF Contents, Given
<1>. QED BY <1>4, FifoSteps

-------------------------------------------------------------------------------
(* Types                                                                   *)

EventsUnderWay == [at : {"allocate", "encode", "call", "free"}, message : Messages]
RequestsUnderWay == [at : {"decoded", "handle", "encoded", "failed", "respond"}, n : 1..MaxRequests]
EventTypes == event \in [{Client, Dispatch} -> {NoEvent} \cup EventsUnderWay]
RequestTypes == request \in {NoRequest} \cup RequestsUnderWay
HeapTypes == heap \subseteq Threads \X {"event", "encoded", "request", "response", "event_status"}
LinkTypes ==
  /\ conn \in {"none", "up", "lost", "told"} /\ subscribed \in BOOLEAN
  /\ reconnecting \in [{MainThread, Client} -> {"none", "connect", "status", "subscribe"}]
  /\ retained \in {"none", "online", "offline"} /\ will \in BOOLEAN /\ refused \in BOOLEAN
MainTypes ==
  /\ main \in {"start", "opened", "checked", "data", "initialized", "connecting", "connected",
              "half registered", "running", "closing", "closed", "half closed", "unregistered",
              "ended", "exited"}
  /\ wpc \in BOOLEAN /\ dataCb \in BOOLEAN /\ statusCb \in BOOLEAN
  /\ m_rx_event_cb \in BOOLEAN /\ m_onProtoEventStatus_cb \in BOOLEAN
CountTypes ==
  /\ packets \in 0..MaxPackets /\ requests \in 0..MaxRequests /\ statuses \in 0..MaxStatus
  /\ faults \in 0..MaxFaults /\ losses \in 0..MaxLosses

LEMMA TypeParts ==
  TypeOK <=> /\ QueueTypes /\ EventTypes /\ RequestTypes /\ HeapTypes
             /\ LinkTypes /\ MainTypes /\ CountTypes
  BY DEF TypeOK, QueueTypes, EventTypes, RequestTypes, HeapTypes, LinkTypes, MainTypes, CountTypes,
         EventsUnderWay, RequestsUnderWay
LEMMA TypePartsNext ==
  TypeOK' <=> /\ QueueTypes' /\ EventTypes' /\ RequestTypes' /\ HeapTypes'
              /\ LinkTypes' /\ MainTypes' /\ CountTypes'
  BY TypeParts, PTL

\* Messages of the queue: those of events, of responses, and the status.
LEMMA MessageTypes ==
  ASSUME EventTypes, RequestTypes
  PROVE  /\ [kind |-> "status", n |-> 0] \in Messages
         /\ request.at = "respond" => [kind |-> "response", n |-> request.n] \in Messages
         /\ \A t \in {Client, Dispatch} : event[t].at = "call" => event[t].message \in Messages
         /\ \A n \in 1..MaxPackets : [kind |-> "data", n |-> n] \in Messages
<1>. USE Sizes
<1>1. request.at = "respond" => request.n \in 1 .. MaxPackets + MaxRequests
  BY DEF RequestTypes, RequestsUnderWay, NoRequest
<1>2. \A t \in {Client, Dispatch} : event[t].at = "call" => event[t].message \in Messages
  BY DEF EventTypes, EventsUnderWay, NoEvent
<1>3. \A n \in 1..MaxPackets : n \in 1 .. MaxPackets + MaxRequests
  OBVIOUS
<1>. QED BY <1>1, <1>2, <1>3 DEF Messages

\* What every step does to the queue.
LEMMA QueueSteps ==
  ASSUME TypeOK, RingSteady, [Next]_vars
  PROVE  \/ Rests \/ (\E x \in Messages : Inserts(x))
         \/ PubCheck \/ PubPublish \/ PubFree \/ PubAdvance
<1>. EventTypes /\ RequestTypes /\ TypeOK /\ RingInv /\ SlotsInv
  BY TypeParts DEF RingSteady
<1>1. ASSUME NEW x \in Messages, MQTT_publish(x)
      PROVE  Inserts(x) \/ Rests
  BY <1>1, Publishing DEF Rests
<1>2. CASE Library /\ UNCHANGED <<queue, pub, link, refused>>
  BY <1>2 DEF Rests
<1>3. ASSUME NEW t \in {Client, Dispatch}, CallsClient(t)
      PROVE  (\E x \in Messages : Inserts(x)) \/ Rests
  <2>1. event[t].at = "call" /\ (MQTT_publish(event[t].message) \/ UNCHANGED <<queue, pub>>)
    BY <1>3 DEF CallsClient, CallClient
  <2>2. event[t].message \in Messages
    BY <2>1, MessageTypes
  <2>. QED BY <1>1, <2>1, <2>2 DEF Rests
<1>4. CASE PublishThread
  BY <1>4 DEF PublishThread
<1>5. CASE MqttConnect \/ OnMqttConnectionLost \/ LoseConnection
  BY <1>5 DEF MqttConnect, OnMqttConnectionLost, LoseConnection, BeginsReconnect, Rests
<1>6. ASSUME NEW t \in {MainThread, Client}, Connects(t) \/ PublishesStatus(t) \/ Subscribes(t)
      PROVE  (\E x \in Messages : Inserts(x)) \/ Rests
  <2>1. MQTT_publish([kind |-> "status", n |-> 0]) \/ UNCHANGED <<queue, pub>>
    BY <1>6 DEF Connects, PublishesStatus, Subscribes
  <2>. QED BY <1>1, <2>1, MessageTypes DEF Rests
<1>7. CASE OnMessageRx \/ PublishResponse
  <2>1. \/ request.at = "respond" /\ MQTT_publish([kind |-> "response", n |-> request.n])
        \/ UNCHANGED <<queue, pub>>
    BY <1>7 DEF OnMessageRx, PublishResponse
  <2>. QED BY <1>1, <2>1, MessageTypes DEF Rests
<1>8. CASE StartPublishThread \/ CleanExit \/ Disconnect
  BY <1>8 DEF StartPublishThread, CleanExit, Disconnect, Rests
<1>9. CASE UNCHANGED vars
  BY <1>9 DEF vars, Rests
<1>. QED BY <1>2, <1>3, <1>4, <1>5, <1>6, <1>7, <1>8, <1>9 DEF Next

\* The ring keeps its invariant.
LEMMA RingNext == TypeOK /\ RingSteady /\ [Next]_vars => RingSteady'
  BY QueueSteps, InsertSlots, AdvanceSlots, PublishSlots, RestSlots

\* The stages of an event.
LEMMA EventSteps ==
  ASSUME TypeOK, [Next]_vars
  PROVE  EventTypes'
<1>. EventTypes /\ RequestTypes /\ CountTypes
  BY TypeParts
<1>. USE Sizes
<1>1. ASSUME NEW t \in {Client, Dispatch}, NEW m \in Messages, Allocates(t, m)
      PROVE  EventTypes'
  BY <1>1 DEF Allocates, EventTypes, EventsUnderWay
<1>2. CASE OnDataReceived
  <2>1. CASE UNCHANGED event
    BY <2>1 DEF EventTypes
  <2>2. CASE Allocates(Dispatch, [kind |-> "data", n |-> packets'])
    <3>1. packets' \in 1..MaxPackets
      BY <1>2 DEF OnDataReceived, CountTypes
    <3>2. [kind |-> "data", n |-> packets'] \in Messages
      BY <3>1, MessageTypes
    <3>. QED BY <1>1, <2>2, <3>2
  <2>. QED BY <1>2, <2>1, <2>2 DEF OnDataReceived
<1>3. CASE OnStackStatusReceived \/ HandlerTellsStatus
  <2>1. CASE UNCHANGED event
    BY <2>1 DEF EventTypes
  <2>2. ASSUME NEW t \in {Client, Dispatch}, Allocates(t, [kind |-> "status", n |-> 0])
        PROVE  EventTypes'
    BY <1>1, <2>2, MessageTypes
  <2>. QED BY <1>3, <2>1, <2>2 DEF OnStackStatusReceived, HandlerTellsStatus
<1>4. ASSUME NEW t \in {Client, Dispatch},
             AllocateEncoded(t) \/ EncodeEvent(t) \/ FreeEvent(t) \/ CallsClient(t)
      PROVE  EventTypes'
  <2>4. CASE AllocateEncoded(t)
    <3>1. event[t] \in EventsUnderWay
      BY <2>4 DEF AllocateEncoded, EventTypes, NoEvent
    <3>2. event' = [event EXCEPT ![t].at = "encode"] \/ event' = [event EXCEPT ![t] = NoEvent]
      BY <2>4 DEF AllocateEncoded
    <3>. QED BY <3>1, <3>2 DEF EventTypes, EventsUnderWay
  <2>1. CASE EncodeEvent(t)
    <3>1. event[t] \in EventsUnderWay
      BY <2>1 DEF EncodeEvent, EventTypes, NoEvent
    <3>2. event' = [event EXCEPT ![t].at = "call"] \/ event' = [event EXCEPT ![t].at = "free"]
      BY <2>1 DEF EncodeEvent
    <3>. QED BY <3>1, <3>2 DEF EventTypes, EventsUnderWay
  <2>2. CASE CallsClient(t)
    <3>1. event[t] \in EventsUnderWay
      BY <2>2 DEF CallsClient, CallClient, EventTypes, NoEvent
    <3>2. event' = [event EXCEPT ![t].at = "free"]
      BY <2>2 DEF CallsClient, CallClient
    <3>. QED BY <3>1, <3>2 DEF EventTypes, EventsUnderWay
  <2>3. CASE FreeEvent(t)
    BY <2>3 DEF FreeEvent, EventTypes
  <2>. QED BY <1>4, <2>1, <2>2, <2>3, <2>4
<1>5. CASE UNCHANGED event
  BY <1>5 DEF EventTypes
<1>. QED BY <1>2, <1>3, <1>4, <1>5 DEF Next, Library, PublishThread, vars, frontEnd,
       WpcInitialize, CheckConnection, ProtoDataInit, ProtoConfigInit, RegisterForDataRxEvent,
       RegisterForEventStatus, WpcClose, UnregisterFromStackStatus, ProtoDataClose,
       NotWirepasMessage, AllocateResponse, EncodeResponse, ReleaseRequest,
       PubCheck, PubPublish, PubFree, PubAdvance, MqttConnect, OnMqttConnectionLost,
       BeginsReconnect, LoseConnection, Connects, PublishesStatus, Subscribes,
       OnMessageRx, DecodeRequest, PublishResponse, StartPublishThread, CleanExit, Disconnect

\* The stages of a request.
LEMMA RequestSteps ==
  ASSUME TypeOK, [Next]_vars
  PROVE  RequestTypes'
<1>. RequestTypes /\ CountTypes
  BY TypeParts
<1>. USE Sizes
<1>1. CASE OnMessageRx
  <2>1. requests' \in 1..MaxRequests
    BY <1>1 DEF OnMessageRx, DecodeRequest, CountTypes
  <2>2. request' = [at |-> "decoded", n |-> requests'] \/ request' = request
    BY <1>1 DEF OnMessageRx, DecodeRequest
  <2>. QED BY <2>1, <2>2 DEF RequestTypes, RequestsUnderWay
<1>2. CASE AllocateResponse \/ EncodeResponse \/ ReleaseRequest
  <2>1. request \in RequestsUnderWay
    BY <1>2 DEF AllocateResponse, EncodeResponse, ReleaseRequest, Handling, RequestTypes, NoRequest
  <2>2. \/ \E at \in {"handle", "encoded", "failed", "respond"} : request' = [request EXCEPT !.at = at]
        \/ request' = NoRequest
    BY <1>2 DEF AllocateResponse, EncodeResponse, ReleaseRequest, RequestGoes
  <2>. QED BY <2>1, <2>2 DEF RequestTypes, RequestsUnderWay
<1>3. CASE request' \in {request, NoRequest}
  BY <1>3 DEF RequestTypes
<1>. QED BY <1>1, <1>2, <1>3 DEF Next, Library, CallsClient, CallClient, PublishThread, vars, frontEnd,
       WpcInitialize, CheckConnection, ProtoDataInit, ProtoConfigInit, RegisterForDataRxEvent,
       RegisterForEventStatus, WpcClose, UnregisterFromStackStatus, ProtoDataClose, OnDataReceived, OnStackStatusReceived,
       NotWirepasMessage, HandlerTellsStatus, AllocateEncoded, EncodeEvent, FreeEvent,
       PubCheck, PubPublish, PubFree, PubAdvance, MqttConnect, OnMqttConnectionLost,
       BeginsReconnect, LoseConnection, Connects, PublishesStatus, Subscribes,
       PublishResponse, StartPublishThread, CleanExit, Disconnect

\* Where main is, and what is registered.
LEMMA MainSteps ==
  ASSUME TypeOK, [Next]_vars
  PROVE  MainTypes'
<1>. MainTypes
  BY TypeParts
<1>1. CASE WpcInitialize \/ CheckConnection \/ ProtoDataInit \/ ProtoConfigInit
  BY <1>1 DEF WpcInitialize, CheckConnection, ProtoDataInit, ProtoConfigInit, Goes, MainTypes
<1>2. CASE RegisterForDataRxEvent \/ RegisterForEventStatus \/ WpcClose \/ UnregisterFromStackStatus \/ ProtoDataClose
  BY <1>2 DEF RegisterForDataRxEvent, RegisterForEventStatus, WpcClose, UnregisterFromStackStatus, ProtoDataClose, Goes, MainTypes
<1>3. CASE StartPublishThread \/ CleanExit \/ Disconnect
  BY <1>3 DEF StartPublishThread, CleanExit, Disconnect, Goes, registered, MainTypes
<1>4. CASE UNCHANGED registered /\ main' \in {main, "connected", "exited"}
  BY <1>4 DEF registered, MainTypes
<1>. QED BY <1>1, <1>2, <1>3, <1>4 DEF Next, Library, CallsClient, CallClient, PublishThread, vars, frontEnd,
       OnDataReceived, OnStackStatusReceived, HandlerTellsStatus,
       AllocateEncoded, EncodeEvent, FreeEvent,
       NotWirepasMessage, AllocateResponse, EncodeResponse, ReleaseRequest,
       PubCheck, PubPublish, PubFree, PubAdvance, MqttConnect, OnMqttConnectionLost,
       BeginsReconnect, ReturnsFrom, Goes, LoseConnection, Connects, PublishesStatus, Subscribes,
       OnMessageRx, DecodeRequest, PublishResponse

\* Counters stay within their bounds.
LEMMA CountSteps ==
  ASSUME TypeOK, [Next]_vars
  PROVE  CountTypes'
<1>. CountTypes
  BY TypeParts
<1>. USE Sizes
<1>1. faults' \in 0..MaxFaults
  <2>1. Works \/ Fails
    BY DEF Next, Library, CallsClient, CallClient, MQTT_publish, Works, PublishThread, vars, frontEnd,
       WpcInitialize, CheckConnection, ProtoDataInit, ProtoConfigInit, RegisterForDataRxEvent,
       RegisterForEventStatus, WpcClose, UnregisterFromStackStatus, ProtoDataClose, OnDataReceived, OnStackStatusReceived, Allocates,
       HandlerTellsStatus,
       AllocateEncoded, EncodeEvent, FreeEvent,
       NotWirepasMessage, AllocateResponse, EncodeResponse, ReleaseRequest,
       PubCheck, PubPublish, PubFree, PubAdvance, MqttConnect, OnMqttConnectionLost,
       BeginsReconnect, LoseConnection, Connects, PublishesStatus, Subscribes,
       OnMessageRx, DecodeRequest, PublishResponse, StartPublishThread, CleanExit, Disconnect
  <2>. QED BY <2>1 DEF Works, Fails, CountTypes
<1>2. packets' \in 0..MaxPackets /\ requests' \in 0..MaxRequests /\ statuses' \in 0..MaxStatus
  <2>1. CASE UNCHANGED counts
    BY <2>1 DEF counts, CountTypes
  <2>2. CASE OnDataReceived \/ OnStackStatusReceived \/ HandlerTellsStatus \/ OnMessageRx
    BY <2>2 DEF OnDataReceived, OnStackStatusReceived, HandlerTellsStatus, OnMessageRx, DecodeRequest, CountTypes
  <2>. QED BY <2>1, <2>2 DEF Next, Library, CallsClient, CallClient, PublishThread, vars, frontEnd,
       WpcInitialize, CheckConnection, ProtoDataInit, ProtoConfigInit, RegisterForDataRxEvent,
       RegisterForEventStatus, WpcClose, UnregisterFromStackStatus, ProtoDataClose,
       AllocateEncoded, EncodeEvent, FreeEvent,
       NotWirepasMessage, AllocateResponse, EncodeResponse, ReleaseRequest,
       PubCheck, PubPublish, PubFree, PubAdvance, MqttConnect, OnMqttConnectionLost,
       BeginsReconnect, LoseConnection, Connects, PublishesStatus, Subscribes,
       PublishResponse, StartPublishThread, CleanExit, Disconnect
<1>3. losses' \in 0..MaxLosses
  <2>1. CASE UNCHANGED losses
    BY <2>1 DEF CountTypes
  <2>2. CASE LoseConnection
    BY <2>2 DEF LoseConnection, CountTypes
  <2>. QED BY <2>1, <2>2 DEF Next, CallsClient, PublishThread, vars, link,
       PubCheck, PubPublish, PubFree, PubAdvance, MqttConnect, OnMqttConnectionLost,
       BeginsReconnect, Connects, PublishesStatus, Subscribes,
       OnMessageRx, PublishResponse, StartPublishThread, CleanExit, Disconnect
<1>. QED BY <1>1, <1>2, <1>3 DEF CountTypes

\* Buffers are those of events, requests and reconnections.
LEMMA HeapSteps ==
  ASSUME TypeOK, [Next]_vars
  PROVE  HeapTypes'
<1>. HeapTypes
  BY TypeParts
<1>2. CASE heap' \subseteq heap
  BY <1>2 DEF HeapTypes
<1>3. ASSUME NEW t \in {Client, Dispatch}, NEW what \in {"event", "encoded", "request", "response"},
             heap' = heap \cup {<<t, what>>}
      PROVE  HeapTypes'
  BY <1>3 DEF HeapTypes, Threads
<1>4. ASSUME NEW t \in {Client, Dispatch}, AllocateEncoded(t)
      PROVE  HeapTypes'
  BY <1>2, <1>3, <1>4 DEF AllocateEncoded
<1>5. ASSUME NEW t \in {MainThread, Client}, heap' = heap \cup {Buffer(t)}
      PROVE  HeapTypes'
  BY <1>5 DEF HeapTypes, Threads, Buffer
<1>6. CASE OnDataReceived \/ OnStackStatusReceived
  BY <1>2, <1>3, <1>6 DEF OnDataReceived, OnStackStatusReceived, Allocates
<1>7. CASE HandlerTellsStatus
  BY <1>2, <1>3, <1>7 DEF HandlerTellsStatus, Allocates
<1>8. CASE MqttConnect \/ OnMqttConnectionLost
  BY <1>2, <1>5, <1>8 DEF MqttConnect, OnMqttConnectionLost, BeginsReconnect
<1>9. CASE OnMessageRx \/ AllocateResponse
  BY <1>2, <1>3, <1>9 DEF OnMessageRx, DecodeRequest, AllocateResponse
<1>. QED BY <1>2, <1>4, <1>6, <1>7, <1>8, <1>9 DEF Next, Library, CallsClient, CallClient, PublishThread, vars, frontEnd,
       WpcInitialize, CheckConnection, ProtoDataInit, ProtoConfigInit, RegisterForDataRxEvent,
       RegisterForEventStatus, WpcClose, UnregisterFromStackStatus, ProtoDataClose,
       AllocateEncoded, EncodeEvent, FreeEvent,
       NotWirepasMessage, AllocateResponse, EncodeResponse, ReleaseRequest,
       PubCheck, PubPublish, PubFree, PubAdvance, LoseConnection, Connects, PublishesStatus, Subscribes,
       PublishResponse, StartPublishThread, CleanExit, Disconnect

\* The connection, the broker and where reconnect is.
LEMMA LinkSteps ==
  ASSUME TypeOK, [Next]_vars
  PROVE  LinkTypes'
<1>. LinkTypes
  BY TypeParts
<1>. QueueTypes /\ MainTypes
  BY TypeParts
<1>1. /\ conn' \in {conn, "none", "up", "lost", "told"}
      /\ retained' \in {retained, "online", "offline"}
  BY DEF Next, CallsClient, CallClient, PublishThread, vars, link,
       PubCheck, PubPublish, PubFree, PubAdvance, MqttConnect, OnMqttConnectionLost,
       BeginsReconnect, LoseConnection, Connects, PublishesStatus, Subscribes,
       OnMessageRx, PublishResponse, StartPublishThread, CleanExit, Disconnect
<1>2. /\ subscribed' = subscribed \/ subscribed' = TRUE \/ subscribed' = FALSE
      /\ will' = will \/ will' = TRUE \/ will' = FALSE
  BY DEF Next, CallsClient, CallClient, PublishThread, vars, link,
       PubCheck, PubPublish, PubFree, PubAdvance, MqttConnect, OnMqttConnectionLost,
       BeginsReconnect, LoseConnection, Connects, PublishesStatus, Subscribes,
       OnMessageRx, PublishResponse, StartPublishThread, CleanExit, Disconnect
<1>3. refused' \in BOOLEAN
  <2>1. \/ refused' = refused \/ refused' = TRUE
        \/ \E m : MQTT_publish(m)
    BY DEF Next, CallsClient, CallClient, PublishThread, vars,
       PubCheck, PubPublish, PubFree, PubAdvance, MqttConnect, OnMqttConnectionLost,
       LoseConnection, Connects, PublishesStatus, Subscribes,
       OnMessageRx, PublishResponse, StartPublishThread, CleanExit, Disconnect
  <2>2. ASSUME NEW m, MQTT_publish(m)
        PROVE  refused' \in BOOLEAN
    BY <2>2 DEF MQTT_publish
  <2>3. refused \in BOOLEAN
    BY DEF LinkTypes
  <2>. QED BY <2>1, <2>2, <2>3
<1>4. \/ UNCHANGED reconnecting
      \/ \E t \in {MainThread, Client}, to \in {"none", "connect", "status", "subscribe"} :
           reconnecting' = [reconnecting EXCEPT ![t] = to]
  <2>1. CASE MqttConnect \/ OnMqttConnectionLost
    BY <2>1 DEF MqttConnect, OnMqttConnectionLost, BeginsReconnect, ReturnsFrom, Moves
  <2>2. ASSUME NEW t \in {MainThread, Client}, Connects(t) \/ PublishesStatus(t) \/ Subscribes(t)
        PROVE  \E to \in {"none", "connect", "status", "subscribe"} :
                 reconnecting' = [reconnecting EXCEPT ![t] = to]
    BY <2>2 DEF Connects, PublishesStatus, Subscribes, ReturnsFrom, Moves
  <2>. QED BY <2>1, <2>2 DEF Next, CallsClient, PublishThread, vars, link,
       PubCheck, PubPublish, PubFree, PubAdvance, LoseConnection,
       OnMessageRx, PublishResponse, StartPublishThread, CleanExit, Disconnect
<1>5. reconnecting' \in [{MainThread, Client} -> {"none", "connect", "status", "subscribe"}]
  BY <1>4 DEF LinkTypes
<1>. QED BY <1>1, <1>2, <1>3, <1>5 DEF LinkTypes

LEMMA TypeNext == TypeOK /\ RingSteady /\ [Next]_vars => TypeOK'
<1>. SUFFICES ASSUME TypeOK, RingSteady, [Next]_vars PROVE TypeOK'
  OBVIOUS
<1>1. QueueTypes'
  BY RingNext DEF RingSteady
<1>. QED BY <1>1, EventSteps, RequestSteps, MainSteps, CountSteps, HeapSteps, LinkSteps, TypePartsNext

-------------------------------------------------------------------------------
(* Memory, and the modules of the library                                  *)

\* Every buffer keeps an owner.
LEMMA HeapNext == TypeOK /\ HeapInv /\ [Next]_vars => HeapInv'
<1>. SUFFICES ASSUME TypeOK, HeapInv, [Next]_vars PROVE HeapInv'
  OBVIOUS
<1>. EventTypes /\ RequestTypes /\ LinkTypes
  BY TypeParts
<1>. USE ThreadsAssumption
<1>1. CASE heap' \subseteq heap /\ UNCHANGED <<event, request, reconnecting>>
  BY <1>1 DEF HeapInv, Owned, Buffer
<1>2. ASSUME NEW t \in {Client, Dispatch}, NEW m, Allocates(t, m), event[t] = NoEvent,
             UNCHANGED <<request, reconnecting>>
      PROVE  HeapInv'
  <2>1. CASE UNCHANGED <<event, heap>>
    BY <1>1, <1>2, <2>1
  <2>2. CASE /\ event' = [event EXCEPT ![t] = [at |-> "allocate", message |-> m]]
             /\ heap' = heap \cup {<<t, "event">>}
    <3>1. event'[t] = [at |-> "allocate", message |-> m] /\ \A u \in {Client, Dispatch} \ {t} : event'[u] = event[u]
      BY <2>2 DEF EventTypes
    <3>2. event'[t].at = "allocate" /\ event[t].at = "none"
      BY <1>2, <3>1 DEF NoEvent
    <3>3. Owned(<<t, "event">>)'
      BY <3>2 DEF Owned
    <3>4. \A b \in heap : Owned(b)'
      BY <1>2, <3>1, <3>2 DEF HeapInv, Owned, Buffer
    <3>. QED BY <2>2, <3>3, <3>4 DEF HeapInv
  <2>. QED BY <1>2, <2>1, <2>2 DEF Allocates
<1>3. ASSUME OnDataReceived \/ OnStackStatusReceived \/ HandlerTellsStatus, UNCHANGED reconnecting
      PROVE  HeapInv'
  BY <1>1, <1>2, <1>3 DEF OnDataReceived, OnStackStatusReceived, HandlerTellsStatus
<1>4. ASSUME NEW t \in {Client, Dispatch}, EncodeEvent(t), UNCHANGED reconnecting
      PROVE  HeapInv'
  <2>1. /\ event[t].at = "encode" /\ event'[t].at \in {"call", "free"}
        /\ \A u \in {Client, Dispatch} \ {t} : event'[u] = event[u]
        /\ heap' = heap \ {<<t, "event">>} /\ UNCHANGED request
    <3>1. event[t] \in EventsUnderWay
      BY <1>4 DEF EncodeEvent, EventTypes, NoEvent
    <3>2. event' = [event EXCEPT ![t].at = "call"] \/ event' = [event EXCEPT ![t].at = "free"]
      BY <1>4 DEF EncodeEvent
    <3>3. event'[t].at \in {"call", "free"} /\ \A u \in {Client, Dispatch} \ {t} : event'[u] = event[u]
      BY <3>1, <3>2 DEF EventTypes, EventsUnderWay
    <3>. QED BY <1>4, <3>3 DEF EncodeEvent
  <2>. SUFFICES ASSUME NEW b \in heap, b # <<t, "event">> PROVE Owned(b)'
    BY <2>1 DEF HeapInv
  <2>. QED BY <1>4, <2>1 DEF HeapInv, Owned, Buffer
<1>5. ASSUME NEW t \in {Client, Dispatch}, FreeEvent(t), UNCHANGED reconnecting
      PROVE  HeapInv'
  <2>1. /\ event[t].at = "free" /\ \A u \in {Client, Dispatch} \ {t} : event'[u] = event[u]
        /\ heap' = heap \ {<<t, "encoded">>} /\ UNCHANGED request
    BY <1>5 DEF FreeEvent, EventTypes
  <2>. SUFFICES ASSUME NEW b \in heap, b # <<t, "encoded">> PROVE Owned(b)'
    BY <2>1 DEF HeapInv
  <2>. QED BY <1>5, <2>1 DEF HeapInv, Owned, Buffer
<1>6. ASSUME NEW t \in {Client, Dispatch}, CallsClient(t)
      PROVE  HeapInv'
  <2>1. /\ event'[t].at = "free" /\ event[t].at = "call"
        /\ \A u \in {Client, Dispatch} \ {t} : event'[u] = event[u]
        /\ UNCHANGED <<heap, request, reconnecting>>
    <3>1. event[t] \in EventsUnderWay
      BY <1>6 DEF CallsClient, CallClient, EventTypes, NoEvent
    <3>2. event' = [event EXCEPT ![t].at = "free"]
      BY <1>6 DEF CallsClient, CallClient
    <3>3. event'[t].at = "free" /\ \A u \in {Client, Dispatch} \ {t} : event'[u] = event[u]
      BY <3>1, <3>2 DEF EventTypes, EventsUnderWay
    <3>. QED BY <1>6, <3>3 DEF CallsClient, CallClient, link
  <2>. QED BY <2>1 DEF HeapInv, Owned, Buffer
<1>7. ASSUME AllocateResponse \/ EncodeResponse, UNCHANGED reconnecting
      PROVE  HeapInv'
  <2>1. /\ UNCHANGED event /\ request.at \in {"decoded", "handle"}
        /\ \/ request'.at \in {"encoded", "failed"} /\ UNCHANGED heap
           \/ request'.at = "handle" /\ heap' = heap \cup {<<Client, "response">>}
    <3>1. request \in RequestsUnderWay
      BY <1>7 DEF AllocateResponse, EncodeResponse, Handling, RequestTypes, NoRequest
    <3>2. \A at : request' = [request EXCEPT !.at = at] => request'.at = at
      BY <3>1 DEF RequestsUnderWay
    <3>. QED BY <1>7, <3>2 DEF AllocateResponse, EncodeResponse, Handling, RequestGoes
  <2>2. \A b \in heap : Owned(b)'
    BY <1>7, <2>1 DEF HeapInv, Owned, Buffer
  <2>3. request'.at = "handle" => Owned(<<Client, "response">>)'
    BY DEF Owned
  <2>. QED BY <2>1, <2>2, <2>3 DEF HeapInv
<1>15. ASSUME NotWirepasMessage \/ ReleaseRequest, UNCHANGED reconnecting
       PROVE  HeapInv'
  <2>1. UNCHANGED event
    BY <1>15 DEF NotWirepasMessage, ReleaseRequest
  <2>2. CASE NotWirepasMessage
    <3>. SUFFICES ASSUME NEW b \in heap, b # <<Client, "request">> PROVE Owned(b)'
      BY <2>2 DEF NotWirepasMessage, HeapInv
    <3>1. request.at = "decoded"
      BY <2>2 DEF NotWirepasMessage, Handling
    <3>. QED BY <1>15, <2>1, <3>1 DEF HeapInv, Owned, Buffer
  <2>3. CASE ReleaseRequest
    <3>. SUFFICES ASSUME NEW b \in heap, b \notin {<<Client, "request">>, <<Client, "response">>}
                  PROVE  Owned(b)'
      BY <2>3 DEF ReleaseRequest, HeapInv
    <3>. QED BY <1>15, <2>1 DEF HeapInv, Owned, Buffer
  <2>. QED BY <1>15, <2>2, <2>3
<1>16. ASSUME NEW t \in {Client, Dispatch}, AllocateEncoded(t), UNCHANGED reconnecting
       PROVE  HeapInv'
  <2>1. /\ event[t].at = "allocate" /\ UNCHANGED request
        /\ \A u \in {Client, Dispatch} \ {t} : event'[u] = event[u]
        /\ \/ event'[t].at = "encode" /\ heap' = heap \cup {<<t, "encoded">>}
           \/ heap' = heap \ {<<t, "event">>}
    <3>1. event[t] \in EventsUnderWay
      BY <1>16 DEF AllocateEncoded, EventTypes, NoEvent
    <3>. QED BY <1>16, <3>1 DEF AllocateEncoded, EventTypes, EventsUnderWay
  <2>2. CASE event'[t].at = "encode" /\ heap' = heap \cup {<<t, "encoded">>}
    <3>1. \A b \in heap : Owned(b)'
      BY <1>16, <2>1, <2>2 DEF HeapInv, Owned, Buffer
    <3>2. Owned(<<t, "encoded">>)'
      BY <2>2 DEF Owned
    <3>. QED BY <2>2, <3>1, <3>2 DEF HeapInv
  <2>3. CASE heap' = heap \ {<<t, "event">>}
    <3>. SUFFICES ASSUME NEW b \in heap, b # <<t, "event">> PROVE Owned(b)'
      BY <2>3 DEF HeapInv
    <3>. QED BY <1>16, <2>1 DEF HeapInv, Owned, Buffer
  <2>. QED BY <2>1, <2>2, <2>3
<1>8. CASE OnMessageRx
  <2>1. CASE UNCHANGED <<request, heap>>
    BY <1>1, <1>8, <2>1 DEF OnMessageRx, DecodeRequest, link
  <2>2. CASE /\ request' = [at |-> "decoded", n |-> requests']
             /\ heap' = heap \cup {<<Client, "request">>}
    <3>1. request'.at = "decoded" /\ request.at = "none" /\ UNCHANGED <<event, reconnecting>>
      BY <1>8, <2>2 DEF OnMessageRx, DecodeRequest, link, NoRequest
    <3>2. Owned(<<Client, "request">>)'
      BY <3>1 DEF Owned
    <3>3. \A b \in heap : Owned(b)'
      BY <3>1 DEF HeapInv, Owned, Buffer
    <3>. QED BY <2>2, <3>2, <3>3 DEF HeapInv
  <2>. QED BY <1>8, <2>1, <2>2 DEF OnMessageRx, DecodeRequest
<1>9. CASE PublishResponse
  <2>1. request.at = "respond" /\ UNCHANGED <<event, heap, reconnecting>>
    BY <1>9 DEF PublishResponse, link
  <2>. QED BY <2>1 DEF HeapInv, Owned, Buffer
<1>10. ASSUME NEW t \in {MainThread, Client}, BeginsReconnect(t)
       PROVE  HeapInv'
  <2>1. UNCHANGED <<event, request>>
    BY <1>10 DEF BeginsReconnect
  <2>2. CASE Moves(t, "none", "connect") /\ heap' = heap \cup {Buffer(t)}
    <3>1. reconnecting[t] = "none" /\ reconnecting'[t] = "connect"
          /\ \A u \in {MainThread, Client} \ {t} : reconnecting'[u] = reconnecting[u]
      BY <2>2 DEF Moves, At, LinkTypes
    <3>2. Owned(Buffer(t))'
      BY <3>1 DEF Owned, Buffer
    <3>3. \A b \in heap : Owned(b)'
      BY <2>1, <3>1 DEF HeapInv, Owned, Buffer
    <3>. QED BY <2>2, <3>2, <3>3 DEF HeapInv
  <2>3. CASE ReturnsFrom(t, "none", FALSE) /\ UNCHANGED heap
    <3>1. UNCHANGED reconnecting
      BY <2>3 DEF ReturnsFrom, Moves, At, LinkTypes
    <3>. QED BY <1>1, <2>1, <2>3, <3>1
  <2>. QED BY <1>10, <2>2, <2>3 DEF BeginsReconnect
<1>11. ASSUME NEW t \in {MainThread, Client}, Connects(t) \/ PublishesStatus(t) \/ Subscribes(t)
       PROVE  HeapInv'
  <2>1. UNCHANGED <<event, request>>
    BY <1>11 DEF Connects, PublishesStatus, Subscribes
  <2>2. /\ \A u \in {MainThread, Client} \ {t} : reconnecting'[u] = reconnecting[u]
        /\ \/ UNCHANGED heap /\ reconnecting'[t] = "status"
           \/ UNCHANGED heap /\ reconnecting[t] = "subscribe"
           \/ heap' = heap \ {Buffer(t)}
    BY <1>11 DEF Connects, PublishesStatus, Subscribes, ReturnsFrom, Moves, At, LinkTypes
  <2>3. CASE heap' = heap \ {Buffer(t)}
    <3>. SUFFICES ASSUME NEW b \in heap, b # Buffer(t) PROVE Owned(b)'
      BY <2>3 DEF HeapInv
    <3>. QED BY <2>1, <2>2 DEF HeapInv, Owned, Buffer
  <2>4. CASE UNCHANGED heap /\ (reconnecting'[t] = "status" \/ reconnecting[t] = "subscribe")
    BY <2>1, <2>2, <2>4 DEF HeapInv, Owned, Buffer
  <2>. QED BY <2>2, <2>3, <2>4
<1>12. CASE PublishThread \/ LoseConnection \/ StartPublishThread \/ CleanExit \/ Disconnect \/ UNCHANGED vars
  BY <1>1, <1>12 DEF PublishThread, PubCheck, PubPublish, PubFree, PubAdvance, LoseConnection,
       StartPublishThread, CleanExit, Disconnect, vars, frontEnd, link
<1>13. ASSUME UNCHANGED reconnecting,
              \/ WpcInitialize \/ CheckConnection \/ ProtoDataInit \/ ProtoConfigInit
              \/ RegisterForDataRxEvent \/ RegisterForEventStatus \/ WpcClose \/ UnregisterFromStackStatus \/ ProtoDataClose
       PROVE  HeapInv'
  BY <1>1, <1>13 DEF WpcInitialize, CheckConnection, ProtoDataInit, ProtoConfigInit,
       RegisterForDataRxEvent, RegisterForEventStatus, WpcClose, UnregisterFromStackStatus, ProtoDataClose
<1>14. CASE Library /\ UNCHANGED <<queue, pub, link, refused>>
  BY <1>3, <1>4, <1>5, <1>7, <1>13, <1>14, <1>15, <1>16 DEF Library, link
<1>. QED BY <1>6, <1>8, <1>9, <1>10, <1>11, <1>12, <1>14 DEF Next, MqttConnect, OnMqttConnectionLost

\* Indications are only handed on between the registration of the modules and
\* the end of the link; WPC_close waits for the one in progress.
LEMMA MainNext ==
  TypeOK /\ MainInv /\ CallbacksFindModules /\ [Next]_vars => MainInv' /\ CallbacksFindModules'
<1>. SUFFICES ASSUME TypeOK, MainInv, CallbacksFindModules, [Next]_vars
              PROVE  MainInv' /\ CallbacksFindModules'
  OBVIOUS
<1>. EventTypes /\ MainTypes
  BY TypeParts
<1>. USE ThreadsAssumption
<1>1. CASE UNCHANGED <<main, wpc, dataCb, statusCb>>
  <2>1. MainInv'
    BY <1>1 DEF MainInv
  <2>2. event'[Dispatch] # NoEvent =>
          \/ event[Dispatch] # NoEvent /\ event'[Dispatch].message = event[Dispatch].message
          \/ wpc /\ (IF event'[Dispatch].message.kind = "status" THEN statusCb ELSE dataCb)
    <3>1. CASE OnDataReceived
      <4>1. \/ UNCHANGED event
            \/ dataCb /\ event'[Dispatch].message.kind = "data"
        BY <3>1 DEF OnDataReceived, Allocates, EventTypes
      <4>. QED BY <3>1, <4>1 DEF OnDataReceived
    <3>2. CASE OnStackStatusReceived
      <4>1. \/ UNCHANGED event
            \/ statusCb /\ event'[Dispatch].message.kind = "status"
        BY <3>2 DEF OnStackStatusReceived, Allocates, EventTypes
      <4>. QED BY <3>2, <4>1 DEF OnStackStatusReceived
    <3>5. CASE HandlerTellsStatus
      <4>1. event'[Dispatch] = event[Dispatch]
        BY <3>5 DEF HandlerTellsStatus, Allocates, EventTypes
      <4>. QED BY <4>1
    <3>3. ASSUME NEW t \in {Client, Dispatch},
                 AllocateEncoded(t) \/ EncodeEvent(t) \/ FreeEvent(t) \/ CallsClient(t)
          PROVE  event'[Dispatch] # NoEvent =>
                   event[Dispatch] # NoEvent /\ event'[Dispatch].message = event[Dispatch].message
      <4>1. /\ event[t] \in EventsUnderWay /\ event[t] # NoEvent
            /\ \A u \in {Client, Dispatch} \ {t} : event'[u] = event[u]
        BY <3>3 DEF AllocateEncoded, EncodeEvent, FreeEvent, CallsClient, CallClient, EventTypes, NoEvent
      <4>2. event'[t] = NoEvent \/ event'[t].message = event[t].message
        <5>1. \/ event' = [event EXCEPT ![t] = NoEvent]
              \/ \E at : event' = [event EXCEPT ![t].at = at]
          BY <3>3 DEF AllocateEncoded, EncodeEvent, FreeEvent, CallsClient, CallClient
        <5>. QED BY <4>1, <5>1 DEF EventTypes, EventsUnderWay
      <4>. QED BY <4>1, <4>2
    <3>4. CASE UNCHANGED event
      BY <3>4
    <3>. QED BY <3>1, <3>2, <3>3, <3>4, <3>5 DEF Next, Library, PublishThread, vars, frontEnd,
       WpcInitialize, CheckConnection, ProtoDataInit, ProtoConfigInit, RegisterForDataRxEvent,
       RegisterForEventStatus, WpcClose, UnregisterFromStackStatus, ProtoDataClose,
       NotWirepasMessage, AllocateResponse, EncodeResponse, ReleaseRequest,
       PubCheck, PubPublish, PubFree, PubAdvance, MqttConnect, OnMqttConnectionLost,
       BeginsReconnect, LoseConnection, Connects, PublishesStatus, Subscribes,
       OnMessageRx, DecodeRequest, PublishResponse, StartPublishThread, CleanExit, Disconnect
  <2>. QED BY <1>1, <2>1, <2>2 DEF CallbacksFindModules
<1>2. CASE WpcInitialize \/ CheckConnection \/ ProtoDataInit \/ ProtoConfigInit
  <2>1. CASE WpcInitialize
    BY <2>1 DEF WpcInitialize, Goes, MainInv, CallbacksFindModules
  <2>2. CASE CheckConnection
    <3>1. main = "opened" /\ main' \in {"checked", "ended"} /\ UNCHANGED <<dataCb, statusCb, event>>
      BY <2>2 DEF CheckConnection, Goes
    <3>2. ~dataCb /\ ~statusCb
      BY <3>1 DEF MainInv
    <3>3. event[Dispatch] = NoEvent
      BY <3>2 DEF CallbacksFindModules
    <3>. QED BY <3>1, <3>2, <3>3 DEF MainInv, CallbacksFindModules
  <2>3. CASE ProtoDataInit
    BY <2>3 DEF ProtoDataInit, Goes, MainInv, CallbacksFindModules
  <2>4. CASE ProtoConfigInit
    <3>1. main = "data" /\ main' = "initialized" /\ UNCHANGED <<wpc, dataCb, event>>
      BY <2>4 DEF ProtoConfigInit, Goes
    <3>2. statusCb' = TRUE
      BY <2>4, <3>1 DEF ProtoConfigInit
    <3>. QED BY <3>1, <3>2 DEF MainInv, CallbacksFindModules
  <2>. QED BY <1>2, <2>1, <2>2, <2>3, <2>4
<1>3. CASE WpcClose \/ UnregisterFromStackStatus \/ ProtoDataClose
  <2>1. CASE WpcClose
    BY <2>1 DEF WpcClose, Goes, MainInv, CallbacksFindModules
  <2>2. CASE UnregisterFromStackStatus \/ ProtoDataClose
    <3>1. main \in {"closed", "half closed"} /\ UNCHANGED <<wpc, event>>
          /\ main' \in {"half closed", "unregistered"}
      BY <2>2 DEF UnregisterFromStackStatus, ProtoDataClose, Goes
    <3>2. ~wpc
      BY <3>1 DEF MainInv
    <3>3. event[Dispatch] = NoEvent
      BY <3>2 DEF CallbacksFindModules
    <3>. QED BY <3>1, <3>2, <3>3 DEF MainInv, CallbacksFindModules
  <2>. QED BY <1>3, <2>1, <2>2
<1>4. CASE /\ UNCHANGED <<wpc, dataCb, statusCb, event>>
           /\ main' \in {"connecting", "connected", "half registered", "running", "closing", "ended", "exited"}
  BY <1>4 DEF MainInv, CallbacksFindModules
<1>5. CASE RegisterForDataRxEvent \/ RegisterForEventStatus \/ StartPublishThread \/ CleanExit \/ Disconnect
  BY <1>4, <1>5 DEF RegisterForDataRxEvent, RegisterForEventStatus, StartPublishThread, CleanExit,
       Disconnect, Goes, registered
<1>6. CASE MqttConnect \/ OnMqttConnectionLost
  BY <1>1, <1>4, <1>6 DEF MqttConnect, OnMqttConnectionLost, BeginsReconnect, ReturnsFrom, Goes, registered
<1>7. ASSUME NEW t \in {MainThread, Client}, Connects(t) \/ PublishesStatus(t) \/ Subscribes(t)
      PROVE  MainInv' /\ CallbacksFindModules'
  BY <1>1, <1>4, <1>7 DEF Connects, PublishesStatus, Subscribes, ReturnsFrom, Goes, registered
<1>. QED BY <1>1, <1>2, <1>3, <1>5, <1>6, <1>7 DEF Next, Library, CallsClient, CallClient, PublishThread, vars,
       frontEnd, registered,
       OnDataReceived, OnStackStatusReceived, HandlerTellsStatus,
       AllocateEncoded, EncodeEvent, FreeEvent,
       NotWirepasMessage, AllocateResponse, EncodeResponse, ReleaseRequest,
       PubCheck, PubPublish, PubFree, PubAdvance, LoseConnection,
       OnMessageRx, DecodeRequest, PublishResponse

-------------------------------------------------------------------------------
(* The connection and the status                                           *)

\* Only one thread at a time connects, and only when there is no connection.
LEMMA ConnNext == TypeOK /\ ConnInv /\ [Next]_vars => ConnInv'
<1>. SUFFICES ASSUME TypeOK, ConnInv, [Next]_vars PROVE ConnInv'
  OBVIOUS
<1>. LinkTypes
  BY TypeParts
<1>. USE ThreadsAssumption
<1>1. CASE UNCHANGED <<conn, reconnecting>> /\ (Starting' => Starting) /\ (Alive' => Alive)
             /\ (main' = main \/ reconnecting[MainThread] = "none" \/ ~Alive \/ ~Alive')
  BY <1>1 DEF ConnInv
<1>2. ASSUME NEW t \in {MainThread, Client}, BeginsReconnect(t), Alive,
             IF t = MainThread THEN main = "connecting" /\ conn' = conn
                               ELSE conn = "lost" /\ conn' = "told"
      PROVE  ConnInv'
  <2>1. CASE Moves(t, "none", "connect") /\ UNCHANGED main
    <3>1. reconnecting[t] = "none" /\ reconnecting'[t] = "connect"
          /\ \A u \in {MainThread, Client} \ {t} : reconnecting'[u] = reconnecting[u]
      BY <2>1 DEF Moves, At, LinkTypes
    <3>. QED BY <1>2, <2>1, <3>1 DEF ConnInv, Starting, Alive
  <2>2. CASE ReturnsFrom(t, "none", FALSE)
    <3>1. UNCHANGED reconnecting /\ reconnecting[t] = "none"
      BY <2>2 DEF ReturnsFrom, Moves, At, LinkTypes
    <3>. QED BY <1>2, <2>2, <3>1 DEF ReturnsFrom, Goes, ConnInv, Starting, Alive
  <2>. QED BY <1>2, <2>1, <2>2 DEF BeginsReconnect
<1>3. CASE MqttConnect
  BY <1>2, <1>3 DEF MqttConnect, Alive
<1>4. CASE OnMqttConnectionLost
  BY <1>2, <1>4 DEF OnMqttConnectionLost
<1>5. ASSUME NEW t \in {MainThread, Client}, Connects(t) \/ PublishesStatus(t) \/ Subscribes(t)
      PROVE  ConnInv'
  <2>1. /\ Alive /\ reconnecting'[t] # "connect" /\ reconnecting[t] # "none"
        /\ \A u \in {MainThread, Client} \ {t} : reconnecting'[u] = reconnecting[u]
        /\ conn' = conn \/ (conn' = "up" /\ reconnecting[t] = "connect")
        /\ \/ UNCHANGED main /\ (t = MainThread => reconnecting'[t] # "none")
           \/ t = MainThread /\ main' \in {"connected", "exited"} /\ reconnecting'[t] = "none"
    BY <1>5 DEF Connects, PublishesStatus, Subscribes, ReturnsFrom, Goes, Moves, At, LinkTypes
  <2>2. CASE t = MainThread
    BY <2>1, <2>2 DEF ConnInv, Starting, Alive
  <2>3. CASE t = Client
    BY <2>1, <2>3 DEF ConnInv, Starting, Alive
  <2>. QED BY <2>2, <2>3
<1>6. CASE LoseConnection
  BY <1>6 DEF LoseConnection, frontEnd, ConnInv, Starting, Alive
<1>7. CASE Disconnect
  BY <1>7 DEF Disconnect, Goes, ConnInv, Alive
<1>8. CASE StartPublishThread \/ CleanExit
  BY <1>8 DEF StartPublishThread, CleanExit, Goes, link, ConnInv, Starting, Alive
<1>9. ASSUME UNCHANGED link,
             \/ WpcInitialize \/ CheckConnection \/ ProtoDataInit \/ ProtoConfigInit
             \/ RegisterForDataRxEvent \/ RegisterForEventStatus \/ WpcClose \/ UnregisterFromStackStatus \/ ProtoDataClose
      PROVE  ConnInv'
  BY <1>9 DEF WpcInitialize, CheckConnection, ProtoDataInit, ProtoConfigInit,
       RegisterForDataRxEvent, RegisterForEventStatus, WpcClose, UnregisterFromStackStatus, ProtoDataClose, Goes, link, ConnInv, Starting, Alive
<1>10. CASE UNCHANGED <<main, conn, reconnecting>>
  BY <1>10 DEF ConnInv, Starting, Alive
<1>11. CASE Library /\ UNCHANGED <<queue, pub, link, refused>>
  BY <1>9, <1>10, <1>11 DEF Library, link, OnDataReceived, OnStackStatusReceived, HandlerTellsStatus,
       NotWirepasMessage, AllocateResponse, EncodeResponse, ReleaseRequest,
       AllocateEncoded, EncodeEvent, FreeEvent
<1>. QED BY <1>3, <1>4, <1>5, <1>6, <1>7, <1>8, <1>10, <1>11 DEF Next, CallsClient, CallClient, PublishThread,
       vars, frontEnd, link, PubCheck, PubPublish, PubFree, PubAdvance, OnMessageRx, DecodeRequest, PublishResponse

\* A status that waits to be published stays, until it is published.
LEMMA WaitsQueued ==
  ASSUME RingSteady, NEW x \in Messages, Inserts(x)
  PROVE  StatusWaits \/ x.kind = "status" => StatusWaits'
<1>. QueueTypes /\ RingInv
  BY DEF RingSteady
<1>1. PICK w \in Slots : w = m_pub_queue_write
  BY DEF QueueTypes
<1>2. /\ Used' = Used + 1 /\ \A i \in Slots : Dist(i)' = Dist(i)
      /\ Dist(w) = Used /\ m_publish_queue'[w] = x
      /\ \A i \in Slots : i # w => m_publish_queue'[i] = m_publish_queue[i]
  BY <1>1, InsertSlots
<1>3. Used \in Nat /\ m_pub_queue_read \in Slots /\ m_pub_queue_read' = m_pub_queue_read
  BY UsedValue DEF Inserts, QueueTypes
<1>4. pub' \in {"free", "advance"} <=> pub \in {"free", "advance"}
  BY DEF Inserts, Wakes
<1>5. \A i \in Slots : Dist(i) \in Int
  BY <1>3, DistValue, Sizes
<1>6. ASSUME NEW i \in Slots, Unpublished(i), m_publish_queue[i].kind = "status"
      PROVE  StatusWaits'
  <2>1. i # w
    BY <1>2, <1>3, <1>6 DEF Unpublished
  <2>2. Unpublished(i)'
    BY <1>2, <1>3, <1>4, <1>5, <1>6 DEF Unpublished
  <2>. QED BY <1>2, <1>6, <2>1, <2>2 DEF StatusWaits, Slots
<1>7. ASSUME x.kind = "status"
      PROVE  StatusWaits'
  <2>1. pub \in {"free", "advance"} => w # m_pub_queue_read
    BY <1>2, <1>3, UsedValue, DistValue DEF RingInv
  <2>2. Unpublished(w)'
    BY <1>2, <1>3, <1>4, <1>5, <2>1 DEF Unpublished
  <2>. QED BY <1>2, <1>7, <2>2 DEF StatusWaits, Slots
<1>. QED BY <1>6, <1>7 DEF StatusWaits

\* The publish thread takes a status from those that wait only to publish it.
LEMMA WaitsPublished ==
  ASSUME RingSteady, PubCheck \/ PubPublish \/ PubFree \/ PubAdvance, StatusWaits
  PROVE  \/ StatusWaits'
         \/ PubPublish /\ m_publish_queue[m_pub_queue_read] # NULL
              /\ m_publish_queue[m_pub_queue_read].kind = "status"
<1>. QueueTypes /\ RingInv /\ SlotsInv
  BY DEF RingSteady
<1>1. PICK i \in Slots : Unpublished(i) /\ m_publish_queue[i].kind = "status"
  BY DEF StatusWaits
<1>2. m_pub_queue_read \in Slots /\ Used \in Nat /\ Dist(i) \in Int
  BY UsedValue, DistValue, Sizes DEF QueueTypes
<1>3. CASE PubAdvance
  <2>1. /\ Used' = Used - 1 /\ pub = "advance" /\ pub' = "check" /\ UNCHANGED m_publish_queue
        /\ \A j \in Slots : j # m_pub_queue_read => Dist(j) = Dist(j)' + 1
    BY <1>3, AdvanceSlots DEF PubAdvance
  <2>2. i # m_pub_queue_read /\ Dist(i) < Used
    BY <1>1, <2>1 DEF Unpublished
  <2>3. Dist(i)' \in Int
    <3>1. m_pub_queue_read' \in Slots
      BY <1>2, <1>3, SuccValue DEF PubAdvance
    <3>. QED BY <3>1, Sizes DEF Dist, Slots
  <2>4. Dist(i)' < Used'
    BY <1>2, <2>1, <2>2, <2>3
  <2>. QED BY <1>1, <2>1, <2>4 DEF Unpublished, StatusWaits, Slots
<1>4. CASE PubCheck \/ PubFree \/ (PubPublish /\ i # m_pub_queue_read)
  <2>1. /\ Used' = Used /\ (\A j : Dist(j)' = Dist(j)) /\ UNCHANGED m_pub_queue_read
        /\ \A j \in Slots : j # m_pub_queue_read => m_publish_queue'[j] = m_publish_queue[j]
    BY <1>4, PublishSlots
  <2>2. /\ pub' \in {"free", "advance"} => i # m_pub_queue_read
        /\ m_publish_queue'[i] = m_publish_queue[i]
    BY <1>1, <1>4, <2>1 DEF PubCheck, PubFree, PubPublish, queue, Unpublished
  <2>3. Unpublished(i)'
    BY <1>1, <2>1, <2>2 DEF Unpublished
  <2>. QED BY <1>1, <2>2, <2>3 DEF StatusWaits, Slots
<1>5. CASE PubPublish /\ i = m_pub_queue_read
  <2>1. m_publish_queue[i] # NULL
    BY <1>1, <1>5 DEF Unpublished, SlotsInv, PubPublish
  <2>. QED BY <1>1, <1>5, <2>1
<1>. QED BY <1>3, <1>4, <1>5

\* A status is queued with MQTT_publish, or refused.
LEMMA StatusNext ==
  TypeOK /\ RingSteady /\ ConnInv /\ StatusInv /\ [Next]_vars => StatusInv'
<1>. SUFFICES ASSUME TypeOK, RingSteady, ConnInv, StatusInv, [Next]_vars PROVE StatusInv'
  OBVIOUS
<1>. LinkTypes /\ EventTypes /\ RequestTypes
  BY TypeParts
<1>. USE ThreadsAssumption
<1>1. ASSUME UNCHANGED <<conn, refused, retained>>, Announced' => Announced,
             StatusWaits => StatusWaits'
      PROVE  StatusInv'
  BY <1>1 DEF StatusInv
<1>2. ASSUME Rests, UNCHANGED <<conn, refused, retained>>, Announced' => Announced
      PROVE  StatusInv'
  <2>1. UNCHANGED m_publish_queue /\ \A i : Unpublished(i)' <=> Unpublished(i)
    BY <1>2, RestSlots DEF Rests, queue
  <2>2. StatusWaits' <=> StatusWaits
    BY <2>1 DEF StatusWaits, Slots
  <2>. QED BY <1>1, <1>2, <2>2
<1>3. ASSUME NEW x \in Messages, MQTT_publish(x), UNCHANGED <<conn, retained>>,
             x.kind = "status" \/ (Announced' => Announced)
      PROVE  StatusInv'
  <2>1. CASE Inserts(x) /\ refused' = (refused /\ (x.kind # "status"))
    <3>1. StatusWaits \/ x.kind = "status" => StatusWaits'
      BY <2>1, WaitsQueued
    <3>2. CASE x.kind = "status"
      BY <3>1, <3>2 DEF StatusInv
    <3>3. CASE x.kind # "status"
      <4>1. ~refused' => ~refused
        BY <2>1, <3>3
      <4>. QED BY <1>3, <3>1, <3>3, <4>1 DEF StatusInv
    <3>. QED BY <3>2, <3>3
  <2>2. CASE UNCHANGED <<queue, pub>> /\ refused' = (refused \/ (x.kind = "status"))
    <3>1. CASE x.kind = "status"
      BY <2>2, <3>1 DEF StatusInv
    <3>2. CASE x.kind # "status"
      <4>1. UNCHANGED m_publish_queue /\ \A i : Unpublished(i)' <=> Unpublished(i)
        BY <2>2, RestSlots DEF Rests, queue
      <4>2. StatusWaits' <=> StatusWaits
        BY <4>1 DEF StatusWaits, Slots
      <4>3. ~refused' => ~refused
        BY <2>2, <3>2
      <4>. QED BY <1>3, <3>2, <4>2, <4>3 DEF StatusInv
    <3>. QED BY <3>1, <3>2
  <2>. QED BY <1>3, <2>1, <2>2, Publishing
<1>4. CASE Library /\ UNCHANGED <<queue, pub, link, refused>>
  BY <1>2, <1>4 DEF Rests, link, Announced
<1>5. ASSUME NEW t \in {Client, Dispatch}, CallsClient(t)
      PROVE  StatusInv'
  <2>1. event[t].at = "call" /\ UNCHANGED <<conn, retained, reconnecting>>
        /\ (MQTT_publish(event[t].message) \/ UNCHANGED <<queue, pub, refused>>)
    BY <1>5 DEF CallsClient, CallClient, link
  <2>2. event[t].message \in Messages
    BY <2>1, MessageTypes
  <2>3. Announced' => Announced
    BY <2>1 DEF Announced
  <2>. QED BY <1>2, <1>3, <2>1, <2>2, <2>3 DEF Rests
<1>6. CASE PublishThread
  <2>1. PubCheck \/ PubPublish \/ PubFree \/ PubAdvance
    BY <1>6 DEF PublishThread
  <2>2. UNCHANGED <<conn, reconnecting, refused>>
    BY <2>1 DEF PubCheck, PubPublish, PubFree, PubAdvance, link
  <2>3. Announced' => Announced
    BY <2>2 DEF Announced
  <2>4. retained' \in {retained, "online"}
    BY <2>1 DEF PubCheck, PubPublish, PubFree, PubAdvance, link
  <2>5. ASSUME StatusWaits, conn = "up" PROVE StatusWaits' \/ retained' = "online"
    BY <2>1, <2>5, WaitsPublished DEF PubPublish
  <2>. QED BY <2>2, <2>3, <2>4, <2>5 DEF StatusInv
<1>7. ASSUME NEW t \in {MainThread, Client}, BeginsReconnect(t), UNCHANGED <<conn, refused, pub>>
      PROVE  StatusInv'
  <2>1. Rests /\ UNCHANGED retained
    BY <1>7 DEF BeginsReconnect, Rests
  <2>2. Announced' => Announced
    BY <1>7 DEF BeginsReconnect, ReturnsFrom, Moves, At, LinkTypes, Announced
  <2>. QED BY <1>2, <1>7, <2>1, <2>2
<1>8. CASE MqttConnect
  BY <1>7, <1>8 DEF MqttConnect
<1>9. CASE OnMqttConnectionLost \/ LoseConnection \/ Disconnect
  BY <1>9 DEF OnMqttConnectionLost, LoseConnection, Disconnect, StatusInv
<1>10. ASSUME NEW t \in {MainThread, Client}, Connects(t)
       PROVE  StatusInv'
  <2>1. CASE reconnecting'[t] = "status"
    BY <2>1 DEF StatusInv, Announced
  <2>2. CASE UNCHANGED conn
    BY <1>10, <2>2 DEF Connects, Moves, ReturnsFrom, At, ConnInv, StatusInv
  <2>. QED BY <1>10, <2>1, <2>2 DEF Connects, Moves, At, LinkTypes
<1>11. ASSUME NEW t \in {MainThread, Client}, PublishesStatus(t)
       PROVE  StatusInv'
  <2>1. CASE MQTT_publish([kind |-> "status", n |-> 0])
    BY <1>3, <1>11, <2>1, MessageTypes DEF PublishesStatus
  <2>2. CASE refused' = TRUE
    BY <2>2 DEF StatusInv
  <2>. QED BY <1>11, <2>1, <2>2 DEF PublishesStatus
<1>12. ASSUME NEW t \in {MainThread, Client}, Subscribes(t)
       PROVE  StatusInv'
  <2>1. Rests /\ UNCHANGED <<conn, refused, retained>>
    BY <1>12 DEF Subscribes, Rests
  <2>2. Announced' => Announced
    BY <1>12 DEF Subscribes, ReturnsFrom, Moves, At, LinkTypes, Announced
  <2>. QED BY <1>2, <2>1, <2>2
<1>13. CASE OnMessageRx
  BY <1>2, <1>13 DEF OnMessageRx, Rests, link, Announced
<1>14. CASE PublishResponse
  <2>1. /\ request.at = "respond" /\ UNCHANGED <<conn, retained, reconnecting>>
        /\ \/ MQTT_publish([kind |-> "response", n |-> request.n])
           \/ UNCHANGED <<queue, pub, refused>>
    BY <1>14 DEF PublishResponse, link
  <2>2. Announced' => Announced
    BY <2>1 DEF Announced
  <2>. QED BY <1>2, <1>3, <2>1, <2>2, MessageTypes DEF Rests
<1>15. CASE StartPublishThread \/ CleanExit \/ UNCHANGED vars
  BY <1>2, <1>15 DEF StartPublishThread, CleanExit, vars, frontEnd, Rests, link, Announced
<1>. QED BY <1>4, <1>5, <1>6, <1>8, <1>9, <1>10, <1>11, <1>12, <1>13, <1>14, <1>15 DEF Next

-------------------------------------------------------------------------------
(* Theorems                                                                *)

LEMMA InvInit == Init => Inv
<1>. SUFFICES ASSUME Init PROVE Inv
  OBVIOUS
<1>. USE Sizes, ThreadsAssumption DEF Init, FrontEndInit
<1>1. 0 \in Slots
  BY DEF Slots
<1>2. TypeOK
  <2>1. QueueTypes
    BY <1>1 DEF QueueTypes
  <2>2. EventTypes /\ RequestTypes
    BY DEF EventTypes, RequestTypes
  <2>3. HeapTypes
    BY DEF HeapTypes
  <2>4. LinkTypes
    BY DEF LinkTypes
  <2>5. MainTypes
    BY DEF MainTypes
  <2>6. CountTypes
    BY DEF CountTypes
  <2>. QED BY <2>1, <2>2, <2>3, <2>4, <2>5, <2>6, TypeParts
<1>3. Used = 0 /\ \A i \in Slots : Dist(i) >= 0
  BY DEF Used, Dist, Slots
<1>4. SlotsInv
  <2>1. \A i \in Slots : Dist(i) \in Int
    BY DEF Dist, Slots
  <2>. QED BY <1>3, <2>1 DEF SlotsInv
<1>. QED BY <1>2, <1>4 DEF Inv, RingInv, HeapInv, ConnInv, StatusInv, MainInv, CallbacksFindModules,
       Starting

LEMMA InvNext == Inv /\ [Next]_vars => Inv'
<1>. SUFFICES ASSUME Inv, [Next]_vars PROVE Inv'
  OBVIOUS
<1>1. RingSteady
  BY TypeParts DEF Inv, RingSteady
<1>2. TypeOK' /\ RingSteady'
  BY <1>1, TypeNext, RingNext DEF Inv
<1>3. HeapInv' /\ ConnInv' /\ StatusInv' /\ MainInv' /\ CallbacksFindModules'
  BY <1>1, HeapNext, ConnNext, StatusNext, MainNext DEF Inv
<1>. QED BY <1>2, <1>3 DEF Inv, RingSteady

\* Everything above holds in every behaviour of the gateway.
THEOREM Invariance == Spec => []Inv
<1>. QED BY InvInit, InvNext, PTL DEF Spec

\* Type correctness: every variable keeps to its values, the indexes of the
\* queue and the bounded counters to their ranges.
THEOREM TypeCorrect == Spec => []TypeOK
<1>1. Inv => TypeOK
  BY DEF Inv
<1>. QED BY <1>1, Invariance, PTL

\* Whatever fails, a slot of the publish queue (MQTT_publish) holds memory only
\* from its publication to the end of its turn, and without an event, request or
\* reconnection in progress there is no other memory.
THEOREM NothingLeaksHolds == Spec => []NothingLeaks
<1>1. Inv => NothingLeaks
  <2>. SUFFICES ASSUME Inv PROVE NothingLeaks
    OBVIOUS
  <2>. QueueTypes /\ RingInv /\ SlotsInv /\ HeapInv
    BY TypeParts DEF Inv
  <2>. USE Sizes
  <2>1. m_pub_queue_read \in Slots /\ Used \in 0 .. PUBLISH_QUEUE_SIZE
    BY UsedValue DEF QueueTypes
  <2>. DEFINE first == IF pub = "advance" THEN 2 ELSE 1
  <2>2. ASSUME NEW i \in Slots, m_publish_queue[i] # NULL
        PROVE  \E n \in first .. Used : i = Slot(n)
    <3>1. Dist(i) < Used /\ (pub = "advance" => Dist(i) # 0) /\ Dist(i) \in Nat
      BY <2>1, <2>2, DistValue DEF SlotsInv
    <3>2. PICK n \in Int : n = Dist(i) + 1
      BY <3>1
    <3>3. n \in first .. Used /\ n \in 1 .. PUBLISH_QUEUE_SIZE
      BY <2>1, <3>1, <3>2
    <3>4. PICK j \in Slots : Slot(n) = j /\ Dist(j) = n - 1
      BY <2>1, <3>3, SlotValue
    <3>5. Dist(j) = Dist(i)
      BY <3>1, <3>2, <3>4
    <3>. QED BY <2>1, <3>3, <3>4, <3>5, DistValue
  <2>3. ASSUME NEW n \in first .. Used
        PROVE  Slot(n) \in Slots /\ m_publish_queue[Slot(n)] # NULL
    <3>1. n \in 1 .. PUBLISH_QUEUE_SIZE /\ n <= Used /\ (pub = "advance" => n # 1)
      BY <2>1
    <3>2. PICK i \in Slots : Slot(n) = i /\ Dist(i) = n - 1
      BY <2>1, <3>1, SlotValue
    <3>3. Dist(i) < Used /\ (pub = "advance" => i # m_pub_queue_read)
      BY <2>1, <3>1, <3>2, DistValue
    <3>. QED BY <3>2, <3>3 DEF SlotsInv
  <2>4. {i \in Slots : m_publish_queue[i] # NULL} = {Slot(n) : n \in first .. Used}
    BY <2>2, <2>3
  <2>5. ASSUME \A t \in {Client, Dispatch} : event[t] = NoEvent, request = NoRequest,
               \A t \in {MainThread, Client} : reconnecting[t] = "none"
        PROVE  heap = {}
    <3>1. \A b \in heap : FALSE
      BY <2>5 DEF HeapInv, Owned, NoEvent, NoRequest
    <3>. QED BY <3>1
  <2>. QED BY <2>4, <2>5 DEF NothingLeaks
<1>. QED BY <1>1, Invariance, PTL

\* However often the connection is lost (on_mqtt_connection_lost), once all has
\* settled the broker shows the gateway online, unless its status was refused.
THEOREM StatusIsTrueHolds == Spec => []StatusIsTrue
<1>1. Inv => StatusIsTrue
  <2>. SUFFICES ASSUME Inv, conn = "up", ~refused, Used = 0,
                       \A t \in {MainThread, Client} : reconnecting[t] = "none"
                PROVE  retained = "online"
    BY DEF StatusIsTrue
  <2>1. Announced
    BY DEF Announced
  <2>2. ~StatusWaits
    <3>1. m_pub_queue_read \in Slots
      BY DEF Inv, TypeOK
    <3>2. \A i \in Slots : Dist(i) \in Nat
      BY <3>1, DistValue, Sizes
    <3>. QED BY <3>2 DEF StatusWaits, Unpublished
  <2>. QED BY <2>1, <2>2 DEF Inv, StatusInv
<1>. QED BY <1>1, Invariance, PTL

\* An indication is handed on (onDataReceived, onStackStatusReceived) only while
\* the link is open and the modules are registered, WPC_Proto_close included.
THEOREM CallbacksFindModulesHolds == Spec => []CallbacksFindModules
<1>1. Inv => CallbacksFindModules
  BY DEF Inv
<1>. QED BY <1>1, Invariance, PTL

\* The publish queue implements the first-in first-out queue of IndicationFifo,
\* its safety: each message taken is given to the broker's client once, in order
\* and unchanged while it is (MQTT_publish and the publish thread).
THEOREM QueueIsFifoSafety == Spec => Fifo!Safety
<1>1. Init => Fifo!Init
  <2>. SUFFICES ASSUME Init PROVE Fifo!Init
    OBVIOUS
  <2>1. RingSteady /\ Used = 0 /\ pub = "none"
    BY InvInit, TypeParts DEF Init, Inv, RingSteady, Used
  <2>2. Len(Contents) = 0 /\ Contents \in Seq(Messages)
    BY <2>1, ContentsSeq DEF ContentsFacts, Past
  <2>3. Contents = << >> /\ Given = NULL
    BY <2>1, <2>2, EmptySeq DEF Given
  <2>. QED BY <2>3, FifoSteps
<1>2. Inv /\ [Next]_vars => [Fifo!Next]_(Fifo!vars)
  <2>. SUFFICES ASSUME Inv, [Next]_vars PROVE Fifo!Next \/ UNCHANGED Fifo!vars
    OBVIOUS
  <2>1. TypeOK /\ RingSteady
    BY TypeParts DEF Inv, RingSteady
  <2>. QED BY <2>1, QueueSteps, InsertArrives, PublishEnds, CheckBegins, ReleaseStutters, RestStutters
         DEF Fifo!Next
<1>. QED BY <1>1, <1>2, Invariance, PTL DEF Spec, Fifo!Safety
=============================================================================

-------------------------------- MODULE Gateway --------------------------------
(***************************************************************************)
(* The gateway of example/linux/gw-example on top of the front end: events   *)
(* and responses go through a queue to a thread that publishes them with     *)
(* MQTT.  The MQTT client is external: its one callback thread brings the   *)
(* requests and the loss of the connection; the broker keeps the last status *)
(* that was published, and publishes the will when the connection is lost.  *)
(*                                                                         *)
(* The publish thread holds the mutex of the queue but while it publishes   *)
(* and frees a payload: what is done with the mutex held is one step.       *)
(***************************************************************************)
EXTENDS FrontEnd

CONSTANTS
  PUBLISH_QUEUE_SIZE,
  MainThread,
  NULL,
  MaxLosses   \* bound: losses of the connection

Messages == {[kind |-> "status", n |-> 0]}
              \cup [kind : {"data", "response"}, n : 1..(MaxPackets + MaxRequests)]
Threads == {MainThread, Client, Dispatch}

ASSUME SizeAssumption == PUBLISH_QUEUE_SIZE \in Nat \ {0}
ASSUME LossesAssumption == MaxLosses \in Nat
ASSUME NULLAssumption == NULL \notin Messages
ASSUME ThreadsAssumption == Client # Dispatch /\ MainThread \notin {Client, Dispatch}

VARIABLES
  m_publish_queue,  \* payload of each slot, with its topic
  m_pub_queue_write, m_pub_queue_read, m_pub_queue_empty,
  pub,              \* publish thread: "none", "check", "asleep", "publish",
                    \* "free", "advance"
  conn,             \* "none", "up", "lost" or, once the client was told, "told"
  subscribed,
  reconnecting,     \* [{MainThread, Client} -> where reconnect is]
  retained,         \* the status the broker shows
  will,             \* is there a will for this connection?
  refused,          \* history: the status of this connection was not queued
  losses

queue == <<m_publish_queue, m_pub_queue_write, m_pub_queue_read, m_pub_queue_empty>>
link == <<conn, subscribed, reconnecting, retained, will, losses>>
vars == <<frontEnd, queue, pub, link, refused>>

Slots == 0..(PUBLISH_QUEUE_SIZE - 1)
Succ(i) == (i + 1) % PUBLISH_QUEUE_SIZE

-------------------------------------------------------------------------------
(* MQTT_publish: a refused message is dropped; so is one for which there is  *)
(* no memory, whose slot is then empty.                                     *)

NeverFull == FALSE
Full == ~m_pub_queue_empty /\ m_pub_queue_write = m_pub_queue_read
Wakes == pub' = IF pub = "asleep" THEN "check" ELSE pub
Stores(message, room) ==
  LET i == m_pub_queue_write
  IN  IF room
      THEN /\ m_publish_queue' = [m_publish_queue EXCEPT ![i] = message]
           /\ m_pub_queue_write' = Succ(i) /\ m_pub_queue_empty' = FALSE
           /\ UNCHANGED m_pub_queue_read /\ Wakes
      ELSE /\ m_publish_queue' = [m_publish_queue EXCEPT ![i] = NULL]
           /\ UNCHANGED <<m_pub_queue_write, m_pub_queue_read, m_pub_queue_empty, pub>>
MQTT_publish(message) ==
  IF Full
  THEN Works /\ UNCHANGED <<queue, pub>> /\ refused' = (refused \/ (message.kind = "status"))
  ELSE \/ Stores(message, TRUE) /\ Works /\ refused' = (refused /\ (message.kind # "status"))
       \/ Stores(message, FALSE) /\ Fails /\ refused' = (refused \/ (message.kind = "status"))

PubCheck ==
  /\ Alive /\ pub = "check"
  /\ pub' = IF m_pub_queue_empty THEN "asleep" ELSE "publish"
  /\ UNCHANGED <<frontEnd, queue, link, refused>>
(* The result of MQTTClient_publishMessage is ignored: without a connection  *)
(* the message is lost.                                                    *)
PubPublish ==
  LET message == m_publish_queue[m_pub_queue_read]
  IN  /\ Alive /\ pub = "publish" /\ pub' = "free"
      /\ retained' = IF message # NULL /\ message.kind = "status" /\ conn = "up"
                     THEN "online" ELSE retained
      /\ UNCHANGED <<frontEnd, queue, conn, subscribed, reconnecting, will, losses, refused>>
PubFree ==
  /\ Alive /\ pub = "free" /\ pub' = "advance"
  /\ m_publish_queue' = [m_publish_queue EXCEPT ![m_pub_queue_read] = NULL]
  /\ UNCHANGED <<frontEnd, m_pub_queue_write, m_pub_queue_read, m_pub_queue_empty, link, refused>>
PubAdvance ==
  /\ Alive /\ pub = "advance" /\ pub' = "check"
  /\ m_pub_queue_read' = Succ(m_pub_queue_read)
  /\ m_pub_queue_empty' = (m_pub_queue_read' = m_pub_queue_write)
  /\ UNCHANGED <<frontEnd, m_publish_queue, m_pub_queue_write, link, refused>>
PublishThread == PubCheck \/ PubPublish \/ PubFree \/ PubAdvance

-------------------------------------------------------------------------------
(* Connection                                                              *)

At(t, from) == reconnecting[t] = from
Moves(t, from, to) == At(t, from) /\ reconnecting' = [reconnecting EXCEPT ![t] = to]
Buffer(t) == <<t, "event_status">>
(* reconnect returns: the main thread gives up on a failure, the callback    *)
(* does not look at it.                                                    *)
ReturnsFrom(t, from, res) ==
  /\ Moves(t, from, "none")
  /\ IF t = MainThread THEN Goes("connecting", IF res THEN "connected" ELSE "exited")
     ELSE UNCHANGED main

BeginsReconnect(t) ==
  /\ \/ /\ Moves(t, "none", "connect") /\ heap' = heap \cup {Buffer(t)}
        /\ \/ will' = TRUE /\ Works
           \/ will' = FALSE /\ Fails
        /\ UNCHANGED main
     \/ ReturnsFrom(t, "none", FALSE) /\ UNCHANGED <<heap, will>> /\ Fails
  /\ UNCHANGED <<registered, event, request, counts, queue, subscribed, retained, losses>>
MqttConnect ==
  /\ main = "connecting" /\ pub # "none" /\ BeginsReconnect(MainThread)
  /\ UNCHANGED <<pub, conn, refused>>
OnMqttConnectionLost ==
  /\ Alive /\ conn = "lost" /\ request = NoRequest /\ BeginsReconnect(Client)
  /\ conn' = "told"
  /\ UNCHANGED <<pub, refused>>

StaysSilent(t) ==
  /\ Alive /\ Moves(t, "status", "subscribe") /\ heap' = heap \ {Buffer(t)} /\ Works
  /\ UNCHANGED <<main, registered, event, request, counts, conn, subscribed, retained, will,
                 losses, queue, pub, refused>>
Connects(t) ==
  /\ Alive
  /\ \/ /\ Moves(t, "connect", "status") /\ conn' = "up"
        /\ UNCHANGED <<main, heap>> /\ Works
     \/ /\ ReturnsFrom(t, "connect", FALSE) /\ heap' = heap \ {Buffer(t)}
        /\ UNCHANGED conn /\ Fails
  /\ UNCHANGED <<registered, event, request, counts, queue, pub, subscribed, retained, will,
                 losses, refused>>
PublishesStatus(t) ==
  /\ Alive /\ Moves(t, "status", "subscribe") /\ heap' = heap \ {Buffer(t)}
  /\ \/ MQTT_publish([kind |-> "status", n |-> 0])
     \/ Fails /\ refused' = TRUE /\ UNCHANGED <<queue, pub>>
  /\ UNCHANGED <<main, registered, event, request, counts, conn, subscribed, retained, will, losses>>
Subscribes(t) ==
  /\ Alive
  /\ \/ ReturnsFrom(t, "subscribe", TRUE) /\ conn = "up" /\ subscribed' = TRUE /\ Works
     \/ ReturnsFrom(t, "subscribe", FALSE) /\ UNCHANGED subscribed /\ Fails
     \/ ReturnsFrom(t, "subscribe", FALSE) /\ conn # "up" /\ UNCHANGED subscribed /\ Works
  /\ UNCHANGED <<registered, event, request, heap, counts, queue, pub, conn, retained, will,
                 losses, refused>>

LoseConnection ==
  /\ Alive /\ conn = "up" /\ losses < MaxLosses /\ losses' = losses + 1
  /\ conn' = "lost" /\ subscribed' = FALSE
  /\ retained' = IF will THEN "offline" ELSE retained
  /\ UNCHANGED <<frontEnd, queue, pub, reconnecting, will, refused>>

-------------------------------------------------------------------------------
(* Requests and responses                                                  *)

OnMessageRx ==
  /\ Alive /\ conn = "up" /\ subscribed /\ At(Client, "none")
  /\ DecodeRequest
  /\ UNCHANGED <<queue, pub, link, refused>>
PublishResponse ==
  /\ Alive /\ request.at = "respond" /\ request' = NoRequest
  /\ \/ MQTT_publish([kind |-> "response", n |-> request.n])
     \/ Fails /\ UNCHANGED <<queue, pub, refused>>
  /\ UNCHANGED <<main, registered, event, heap, counts, link>>

-------------------------------------------------------------------------------
(* main                                                                    *)

StartPublishThread ==
  /\ main = "initialized" /\ pub = "none"
  /\ \/ pub' = "check" /\ Goes("initialized", "connecting") /\ Works
     \/ pub' = "none" /\ Goes("initialized", "ended") /\ Fails
  /\ UNCHANGED <<registered, event, request, heap, counts, queue, link, refused>>
(* A signal: the subscription is ended, which can fail, and then the library. *)
CleanExit ==
  /\ Goes("running", "closing") /\ subscribed' \in {FALSE, subscribed}
  /\ UNCHANGED <<registered, event, request, heap, counts, faults, queue, pub, conn,
                 reconnecting, retained, will, losses, refused>>
(* Disconnecting publishes no will, and nothing waits for the queue.         *)
Disconnect ==
  /\ Goes("unregistered", "ended") /\ conn' = "none"
  /\ UNCHANGED <<registered, event, request, heap, counts, faults, queue, pub, subscribed,
                 reconnecting, retained, will, losses, refused>>

-------------------------------------------------------------------------------
Init ==
  /\ FrontEndInit
  /\ m_publish_queue = [i \in Slots |-> NULL]
  /\ m_pub_queue_write = 0 /\ m_pub_queue_read = 0 /\ m_pub_queue_empty = TRUE
  /\ pub = "none" /\ conn = "none" /\ subscribed = FALSE
  /\ reconnecting = [t \in {MainThread, Client} |-> "none"]
  /\ retained = "none" /\ will = FALSE /\ refused = FALSE /\ losses = 0

Library ==
  \/ WpcInitialize \/ CheckConnection \/ ProtoDataInit \/ ProtoConfigInit
  \/ RegisterForDataRxEvent \/ RegisterForEventStatus
  \/ WpcClose \/ UnregisterFromStackStatus \/ ProtoDataClose
  \/ OnDataReceived \/ OnStackStatusReceived
  \/ NotWirepasMessage \/ AllocateResponse \/ HandlerTellsStatus \/ EncodeResponse \/ ReleaseRequest
  \/ \E t \in {Client, Dispatch} : AllocateEncoded(t) \/ EncodeEvent(t) \/ FreeEvent(t)
CallsClient(t) == CallClient(t, MQTT_publish, <<queue, pub, refused>>) /\ UNCHANGED link

Next ==
  \/ Library /\ UNCHANGED <<queue, pub, link, refused>>
  \/ \E t \in {Client, Dispatch} : CallsClient(t)
  \/ PublishThread
  \/ MqttConnect \/ OnMqttConnectionLost \/ LoseConnection
  \/ \E t \in {MainThread, Client} : Connects(t) \/ PublishesStatus(t) \/ Subscribes(t)
  \/ OnMessageRx \/ PublishResponse
  \/ StartPublishThread \/ CleanExit \/ Disconnect

Spec == Init /\ [][Next]_vars /\ WF_vars(PublishThread)

-------------------------------------------------------------------------------
TypeOK ==
  /\ main \in {"start", "opened", "checked", "data", "initialized", "connecting", "connected",
              "half registered", "running", "closing", "closed", "half closed", "unregistered", "ended",
              "exited"}
  /\ wpc \in BOOLEAN /\ dataCb \in BOOLEAN /\ statusCb \in BOOLEAN
  /\ m_rx_event_cb \in BOOLEAN /\ m_onProtoEventStatus_cb \in BOOLEAN
  /\ event \in [{Client, Dispatch} -> {NoEvent} \cup
       [at : {"allocate", "encode", "call", "free"}, message : Messages]]
  /\ request \in {NoRequest}
       \cup [at : {"decoded", "handle", "encoded", "failed", "respond"}, n : 1..MaxRequests]
  /\ heap \subseteq Threads \X {"event", "encoded", "request", "response", "event_status"}
  /\ packets \in 0..MaxPackets /\ requests \in 0..MaxRequests /\ statuses \in 0..MaxStatus
  /\ m_publish_queue \in [Slots -> Messages \cup {NULL}]
  /\ m_pub_queue_write \in Slots /\ m_pub_queue_read \in Slots /\ m_pub_queue_empty \in BOOLEAN
  /\ pub \in {"none", "check", "asleep", "publish", "free", "advance"}
  /\ conn \in {"none", "up", "lost", "told"} /\ subscribed \in BOOLEAN
  /\ reconnecting \in [{MainThread, Client} -> {"none", "connect", "status", "subscribe"}]
  /\ retained \in {"none", "online", "offline"} /\ will \in BOOLEAN /\ refused \in BOOLEAN
  /\ faults \in 0..MaxFaults /\ losses \in 0..MaxLosses

Used == IF m_pub_queue_empty THEN 0
        ELSE IF m_pub_queue_write > m_pub_queue_read THEN m_pub_queue_write - m_pub_queue_read
        ELSE PUBLISH_QUEUE_SIZE + m_pub_queue_write - m_pub_queue_read
Slot(n) == (m_pub_queue_read + n - 1) % PUBLISH_QUEUE_SIZE
Queued == [n \in 1..Used |-> m_publish_queue[Slot(n)]]

(* The queue of the publish thread is the first-in first-out queue of        *)
(* IndicationFifo: each message that MQTT_publish takes is handed to the     *)
(* broker's client once, in order and unchanged while it is, and unless the  *)
(* process ends no wakeup is lost on the way.                               *)
Fifo == INSTANCE IndicationFifo WITH
  Ind <- Messages,
  Capacity <- PUBLISH_QUEUE_SIZE,
  NoInd <- NULL,
  fifo <- IF pub \in {"free", "advance"} THEN Tail(Queued) ELSE Queued,
  current <- IF pub = "publish" THEN m_publish_queue[m_pub_queue_read] ELSE NULL
QueueIsFifo == Fifo!Safety /\ (Used > 0 ~> Used = 0 \/ ~Alive)

(* Whatever fails, in whatever order: a slot holds memory only from its      *)
(* publication to the end of its turn, so no payload is overwritten, and     *)
(* when no event, request or reconnection is in progress nothing else is.    *)
NothingLeaks ==
  /\ {i \in Slots : m_publish_queue[i] # NULL}
       = {Slot(n) : n \in (IF pub = "advance" THEN 2 ELSE 1)..Used}
  /\ (\A t \in {Client, Dispatch} : event[t] = NoEvent) /\ request = NoRequest
       /\ (\A t \in {MainThread, Client} : reconnecting[t] = "none")
     => heap = {}

(* However often the connection is lost: when everything has settled, the    *)
(* broker shows the gateway online, unless the status of this connection     *)
(* found no room in the queue (or no memory): then it shows the old will.    *)
StatusIsTrue ==
  main = "running" /\ conn = "up" /\ ~refused /\ Used = 0
    /\ (\A t \in {MainThread, Client} : reconnecting[t] = "none")
    => retained = "online"

(* The callbacks of the library run only while the link is open and the      *)
(* module that they belong to is registered, closing included.              *)
CallbacksFindModules ==
  event[Dispatch] # NoEvent =>
    wpc /\ (IF event[Dispatch].message.kind = "status" THEN statusCb ELSE dataCb)
===============================================================================

------------------------------- MODULE FrontEnd -------------------------------
(***************************************************************************)
(* The front end of the library (wpc_proto.c, proto_data.c, and the events  *)
(* of proto_config.c): start and close, the dispatch of requests, the       *)
(* events for received data and stack status, and the memory they take.     *)
(* What a request does to the node is in SinkConfig and ScratchpadUpload.   *)
(*                                                                         *)
(* The application's main thread starts and closes the library, its Client  *)
(* thread brings requests; indications come on the Dispatch thread.  What   *)
(* the application's callbacks do is a parameter: Publish.                  *)
(***************************************************************************)
EXTENDS Naturals, Sequences, FiniteSets

CONSTANTS
  Client, Dispatch,
  MaxPackets, MaxRequests, MaxStatus,  \* bounds: packets received, requests,
                                       \* stack status indications
  MaxFaults                            \* bound: failures of any kind

ASSUME BoundsAssumption == {MaxPackets, MaxRequests, MaxStatus, MaxFaults} \subseteq Nat

VARIABLES
  main,                      \* where the main thread is
  wpc,                       \* is the link to the node open, its threads running?
  dataCb, statusCb,          \* callbacks registered with the library
  m_rx_event_cb, m_onProtoEventStatus_cb,  \* callbacks of the application
  event,                     \* [{Client, Dispatch} -> event in progress]
  request,                   \* of the Client thread
  heap,                      \* buffers allocated
  packets, requests, statuses, faults

registered == <<wpc, dataCb, statusCb, m_rx_event_cb, m_onProtoEventStatus_cb>>
counts == <<packets, requests, statuses>>
frontEnd == <<main, registered, event, request, heap, counts, faults>>

NoEvent == [at |-> "none"]
NoRequest == [at |-> "none"]

Fails == faults < MaxFaults /\ faults' = faults + 1
Works == UNCHANGED faults
Goes(from, to) == main = from /\ main' = to
Alive == main \notin {"ended", "exited"}

FrontEndInit ==
  /\ main = "start" /\ wpc = FALSE
  /\ dataCb = FALSE /\ statusCb = FALSE
  /\ m_rx_event_cb = FALSE /\ m_onProtoEventStatus_cb = FALSE
  /\ event = [t \in {Client, Dispatch} |-> NoEvent] /\ request = NoRequest
  /\ heap = {} /\ packets = 0 /\ requests = 0 /\ statuses = 0 /\ faults = 0

-------------------------------------------------------------------------------
(* Start and close                                                         *)

WpcInitialize ==
  /\ \/ Goes("start", "opened") /\ wpc' = TRUE /\ Works
     \/ Goes("start", "ended") /\ wpc' = wpc /\ Fails
  /\ UNCHANGED <<dataCb, statusCb, m_rx_event_cb, m_onProtoEventStatus_cb, event, request, heap, counts>>
(* The node must tell its version, or the link is closed again.             *)
CheckConnection ==
  /\ \/ Goes("opened", "checked") /\ wpc' = wpc /\ Works
     \/ Goes("opened", "ended") /\ wpc' = FALSE /\ Fails
  /\ UNCHANGED <<dataCb, statusCb, m_rx_event_cb, m_onProtoEventStatus_cb, event, request, heap, counts>>
(* Indications come from the opening on: without a callback they are lost.   *)
ProtoDataInit ==
  /\ Goes("checked", "data") /\ dataCb' = TRUE
  /\ UNCHANGED <<wpc, statusCb, m_rx_event_cb, m_onProtoEventStatus_cb, event, request, heap, counts, faults>>
ProtoConfigInit ==
  /\ Goes("data", "initialized") /\ statusCb' = TRUE
  /\ UNCHANGED <<wpc, dataCb, m_rx_event_cb, m_onProtoEventStatus_cb, event, request, heap, counts, faults>>

(* WPC_close joins the dispatch thread, the modules close after it.          *)
CloseWithoutJoin ==
  /\ Goes("closing", "closed") /\ wpc' = FALSE
  /\ UNCHANGED <<dataCb, statusCb, m_rx_event_cb, m_onProtoEventStatus_cb, event, request, heap, counts, faults>>
WpcClose ==
  /\ Goes("closing", "closed") /\ event[Dispatch] = NoEvent /\ wpc' = FALSE
  /\ UNCHANGED <<dataCb, statusCb, m_rx_event_cb, m_onProtoEventStatus_cb, event, request, heap, counts, faults>>
(* Then the callbacks are taken back; Proto_otap_close and                  *)
(* Proto_config_close, between the two, are empty.                          *)
UnregisterFromStackStatus ==
  /\ Goes("closed", "half closed") /\ statusCb' = FALSE
  /\ UNCHANGED <<wpc, dataCb, m_rx_event_cb, m_onProtoEventStatus_cb, event, request, heap, counts, faults>>
ProtoDataClose ==
  /\ Goes("half closed", "unregistered") /\ dataCb' = FALSE
  /\ UNCHANGED <<wpc, statusCb, m_rx_event_cb, m_onProtoEventStatus_cb, event, request, heap, counts, faults>>

(* One client each: a second registration would be refused.                 *)
RegisterForDataRxEvent ==
  /\ Goes("connected", "half registered") /\ m_rx_event_cb' = TRUE
  /\ UNCHANGED <<wpc, dataCb, statusCb, m_onProtoEventStatus_cb, event, request, heap, counts, faults>>
RegisterForEventStatus ==
  /\ Goes("half registered", "running") /\ m_onProtoEventStatus_cb' = TRUE
  /\ UNCHANGED <<wpc, dataCb, statusCb, m_rx_event_cb, event, request, heap, counts, faults>>

-------------------------------------------------------------------------------
(* Events: the submessage is allocated, then room for its encoding; without  *)
(* that the submessage is released.  It is released once encoded, too, and   *)
(* the encoding after the callback.  A packet too big for the submessage     *)
(* ends as one that finds no memory for it does.                           *)

Allocates(t, message) ==
  \/ Fails /\ UNCHANGED <<event, heap>>
  \/ /\ event' = [event EXCEPT ![t] = [at |-> "allocate", message |-> message]]
     /\ heap' = heap \cup {<<t, "event">>} /\ Works

OnDataReceived ==
  /\ wpc /\ Alive /\ event[Dispatch] = NoEvent /\ packets < MaxPackets
  /\ packets' = packets + 1
  /\ IF dataCb THEN Allocates(Dispatch, [kind |-> "data", n |-> packets'])
     ELSE UNCHANGED <<event, heap, faults>>
  /\ UNCHANGED <<main, registered, request, requests, statuses>>
OnStackStatusReceived ==
  /\ wpc /\ Alive /\ event[Dispatch] = NoEvent /\ statuses < MaxStatus
  /\ statuses' = statuses + 1
  /\ IF statusCb THEN Allocates(Dispatch, [kind |-> "status", n |-> 0])
     ELSE UNCHANGED <<event, heap, faults>>
  /\ UNCHANGED <<main, registered, request, packets, requests>>

AllocatesOrForgets(t) ==
  /\ Alive /\ event[t].at = "allocate"
  /\ \/ /\ event' = [event EXCEPT ![t].at = "encode"]
        /\ heap' = heap \cup {<<t, "encoded">>} /\ Works
     \/ event' = [event EXCEPT ![t] = NoEvent] /\ UNCHANGED heap /\ Fails
  /\ UNCHANGED <<main, registered, request, counts>>
AllocateEncoded(t) ==
  /\ Alive /\ event[t].at = "allocate"
  /\ \/ /\ event' = [event EXCEPT ![t].at = "encode"]
        /\ heap' = heap \cup {<<t, "encoded">>} /\ Works
     \/ /\ event' = [event EXCEPT ![t] = NoEvent]
        /\ heap' = heap \ {<<t, "event">>} /\ Fails
  /\ UNCHANGED <<main, registered, request, counts>>

EncodeEvent(t) ==
  /\ Alive /\ event[t].at = "encode"
  /\ heap' = heap \ {<<t, "event">>}
  /\ \/ event' = [event EXCEPT ![t].at = "call"] /\ Works
     \/ event' = [event EXCEPT ![t].at = "free"] /\ Fails
  /\ UNCHANGED <<main, registered, request, counts>>

HasClient(message) == IF message.kind = "data" THEN m_rx_event_cb ELSE m_onProtoEventStatus_cb
CallClient(t, Publish(_), nothing) ==
  /\ Alive /\ event[t].at = "call"
  /\ IF HasClient(event[t].message) THEN Publish(event[t].message)
     ELSE Works /\ UNCHANGED nothing
  /\ event' = [event EXCEPT ![t].at = "free"]
  /\ UNCHANGED <<main, registered, request, heap, counts>>
FreeEvent(t) ==
  /\ Alive /\ event[t].at = "free"
  /\ heap' = heap \ {<<t, "encoded">>}
  /\ event' = [event EXCEPT ![t] = NoEvent]
  /\ UNCHANGED <<main, registered, request, counts, faults>>

-------------------------------------------------------------------------------
(* WPC_Proto_handle_request                                                *)

(* pb_decode allocates the message, and keeps nothing when it fails.        *)
DecodeRequest ==
  /\ request = NoRequest /\ requests < MaxRequests /\ requests' = requests + 1
  /\ \/ request' = [at |-> "decoded", n |-> requests'] /\ Works
        /\ heap' = heap \cup {<<Client, "request">>}
     \/ Fails /\ UNCHANGED <<request, heap>>
  /\ UNCHANGED <<main, registered, event, packets, statuses>>

Handling(at) == Alive /\ request.at = at
RequestGoes(to) == request' = [request EXCEPT !.at = to]

(* A message without the Wirepas part is released at once.                  *)
NotWirepasMessage ==
  /\ Handling("decoded")
  /\ heap' = heap \ {<<Client, "request">>}
  /\ request' = NoRequest
  /\ UNCHANGED <<main, registered, event, counts, faults>>
(* A request that is not supported, or finds no memory for its response, is  *)
(* not handled; "failed" and "encoded" are the two ways to the end.         *)
AllocateResponse ==
  /\ Handling("decoded")
  /\ \/ RequestGoes("handle") /\ heap' = heap \cup {<<Client, "response">>} /\ Works
     \/ RequestGoes("failed") /\ UNCHANGED heap /\ (Works \/ Fails)
  /\ UNCHANGED <<main, registered, event, counts>>

(* A handler that starts the stack, or changed the OTAP state, makes a status *)
(* event on its own thread.                                                *)
HandlerTellsStatus ==
  /\ Handling("handle") /\ event[Client] = NoEvent /\ statuses < MaxStatus
  /\ statuses' = statuses + 1
  /\ Allocates(Client, [kind |-> "status", n |-> 0])
  /\ UNCHANGED <<main, registered, request, packets, requests>>

(* The handlers always succeed, whatever the response says; then it is       *)
(* encoded into the caller's buffer.                                       *)
EncodeResponse ==
  /\ Handling("handle") /\ event[Client] = NoEvent
  /\ \/ RequestGoes("encoded") /\ Works
     \/ RequestGoes("failed") /\ Fails
  /\ UNCHANGED <<main, registered, event, heap, counts>>
ReleaseRequest ==
  /\ Handling("encoded") \/ Handling("failed")
  /\ heap' = heap \ {<<Client, "request">>, <<Client, "response">>}
  /\ IF request.at = "encoded" THEN RequestGoes("respond") ELSE request' = NoRequest
  /\ UNCHANGED <<main, registered, event, counts, faults>>
===============================================================================

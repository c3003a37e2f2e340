------------------------------- MODULE DsapTx -------------------------------
(***************************************************************************)
(* Sending data (lib/wpc/dsap.c): a long message is cut into fragments     *)
(* sent by one request each under a common 12-bit packet id; when the last *)
(* one is accepted the callback is registered in a table, from which the   *)
(* dispatch thread takes it when the node reports the message sent.        *)
(* Only a request is protected by sending_mutex: the packet id and the     *)
(* table are shared by the senders and the dispatch thread without a lock, *)
(* so each access to them is a step.  Only the dispatch thread frees an    *)
(* entry, so that its test of an entry and the store that frees it are one *)
(* step; the load of the callback comes after it, and is another.          *)
(* Calls are numbered, and a call's number is also the pdu id its caller   *)
(* chose (the pdu ids of the outstanding messages are distinct).           *)
(***************************************************************************)
EXTENDS Integers, Sequences, FiniteSets

CONSTANTS
  Senders,    \* application threads that send
  TableSize,  \* MAX_SENT_PACKET_WITH_INDICATION
  IdSpan,     \* number of packet ids (4096)
  MaxFrags,   \* fragments of the longest message
  MaxCalls    \* bound: calls of dsap_data_tx_request

ASSUME SizesAssumption == TableSize \in Nat \ {0} /\ IdSpan \in Nat \ {0}
ASSUME BoundsAssumption == MaxFrags \in Nat \ {0} /\ MaxCalls \in Nat

VARIABLES
  spc, call, pid, frag, slot, \* each sender: step, call, p_id, i, table index
  packetId,                   \* static packet_id, of which 12 bits are used
  busy, cb, pdu,              \* indication_sent_cb_table
  dpc, dpdu, dslot, dcb,      \* dispatch thread: step, pdu_id, i, cb
  sent,                       \* fragments the node has accepted
  reports,                    \* reports the node still has to make
  calls, size, wants, result, \* what the application asked for and got
  called,                     \* how often each callback got each pdu id
  taken, raced,               \* packet ids in the order they were read; did a
                              \* sender read one that another was about to write?
  inTime, crossed, clashed    \* callbacks registered before the report of their
                              \* message; callbacks stored in an entry just being
                              \* released; did two senders choose the same entry?

senderVars == <<spc, call, pid, frag, slot>>
table == <<busy, cb, pdu>>
dispatch == <<dpc, dpdu, dslot, dcb>>
node == <<sent, reports>>
history == <<calls, size, wants, result>>
idHistory == <<taken, raced>>
cbHistory == <<called, inTime, crossed, clashed>>
vars == <<senderVars, packetId, table, dispatch, node, history, idHistory, cbHistory>>

Calls == 1 .. MaxCalls
Slots == 1 .. TableSize
NoId == IdSpan      \* a message in one piece has no packet id
Fragments == [call : Calls, id : 0 .. NoId, off : 0 .. MaxFrags - 1, last : BOOLEAN]

TypeOK ==
  /\ spc \in [Senders -> {"idle", "read", "write", "send", "scan", "busy", "cb", "pdu"}]
  /\ call \in [Senders -> 0 .. MaxCalls] /\ pid \in [Senders -> 0 .. NoId]
  /\ frag \in [Senders -> 0 .. MaxFrags - 1] /\ slot \in [Senders -> Slots]
  /\ packetId \in 0 .. IdSpan - 1
  /\ busy \in [Slots -> BOOLEAN]
  /\ cb \in [Slots -> 0 .. MaxCalls] /\ pdu \in [Slots -> 0 .. MaxCalls]
  /\ sent \subseteq Fragments /\ reports \subseteq Calls \X (0 .. MaxFrags - 1)
  /\ calls \in 0 .. MaxCalls
  /\ size \in [Calls -> 0 .. MaxFrags] /\ wants \in [Calls -> BOOLEAN]
  /\ result \in [Calls -> {"none", "ok", "failed"}]
  /\ dpc \in {"idle", "look", "load", "call"}
  /\ dpdu \in 0 .. MaxCalls /\ dslot \in Slots /\ dcb \in 0 .. MaxCalls
  /\ called \in [Calls \X Calls -> Nat]
  /\ taken \in Seq([call : Calls, id : 0 .. IdSpan - 1]) /\ raced \in BOOLEAN
  /\ inTime \subseteq Calls /\ crossed \subseteq Calls \X Calls /\ clashed \in BOOLEAN

Init ==
  /\ spc = [s \in Senders |-> "idle"] /\ call = [s \in Senders |-> 0]
  /\ pid = [s \in Senders |-> NoId] /\ frag = [s \in Senders |-> 0]
  /\ slot = [s \in Senders |-> 1]
  /\ packetId = 0
  /\ busy = [i \in Slots |-> FALSE]
  /\ cb = [i \in Slots |-> 0] /\ pdu = [i \in Slots |-> 0]
  /\ sent = {} /\ reports = {}
  /\ calls = 0 /\ size = [c \in Calls |-> 0] /\ wants = [c \in Calls |-> FALSE]
  /\ result = [c \in Calls |-> "none"]
  /\ dpc = "idle" /\ dpdu = 0 /\ dslot = 1 /\ dcb = 0
  /\ called = [e \in Calls \X Calls |-> 0]
  /\ taken = << >> /\ raced = FALSE
  /\ inTime = {} /\ crossed = {} /\ clashed = FALSE

Goto(s, step) == spc' = [spc EXCEPT ![s] = step]
Returns(s, res) == /\ result' = [result EXCEPT ![call[s]] = res]
                   /\ Goto(s, "idle")

----------------------------------------------------------------------------
(* A sender                                                                *)

\* The message is cut into k pieces of at most one MTU.
Begin(s, k, w) ==
  /\ spc[s] = "idle" /\ calls < MaxCalls
  /\ calls' = calls + 1
  /\ size' = [size EXCEPT ![calls'] = k]
  /\ wants' = [wants EXCEPT ![calls'] = w]
  /\ call' = [call EXCEPT ![s] = calls']
  /\ pid' = [pid EXCEPT ![s] = NoId]
  /\ frag' = [frag EXCEPT ![s] = 0]
  /\ Goto(s, IF k = 1 THEN "send" ELSE "read")
  /\ UNCHANGED <<slot, packetId, table, node, result, dispatch, idHistory, cbHistory>>

\* Line 218, the load and the store of packet_id++.
ReadPacketId(s) ==
  /\ spc[s] = "read"
  /\ pid' = [pid EXCEPT ![s] = packetId]
  /\ taken' = Append(taken, [call |-> call[s], id |-> packetId])
  /\ raced' = (raced \/ \E t \in Senders : spc[t] = "write")
  /\ Goto(s, "write")
  /\ UNCHANGED <<call, frag, slot, packetId, table, node, history, dispatch, cbHistory>>

FollowingId(i) == (i + 1) % IdSpan

WritePacketId(s) ==
  /\ spc[s] = "write"
  /\ packetId' = FollowingId(pid[s])
  /\ Goto(s, "send")
  /\ UNCHANGED <<call, pid, frag, slot, table, node, history, dispatch, idHistory, cbHistory>>

AllTracked(c, off) == wants[c]

\* Only the last fragment asks for a report (lines 117-126).
Tracked(c, off) == wants[c] /\ off = size[c] - 1

\* The node takes the fragment and, if asked to, will report it as sent.
Accepts(c, id, off) ==
  /\ sent' = sent \cup {[call |-> c, id |-> id, off |-> off, last |-> off = size[c] - 1]}
  /\ reports' = IF Tracked(c, off) THEN reports \cup {<<c, off>>} ELSE reports

\* The fragment is accepted: the next one is sent, or the callback registered.
FragmentAccepted(s) ==
  /\ spc[s] = "send"
  /\ Accepts(call[s], pid[s], frag[s])
  /\ \/ /\ frag[s] < size[call[s]] - 1
        /\ frag' = [frag EXCEPT ![s] = @ + 1]
        /\ UNCHANGED <<spc, slot, result>>
     \/ /\ frag[s] = size[call[s]] - 1 /\ wants[call[s]]
        /\ slot' = [slot EXCEPT ![s] = 1]
        /\ Goto(s, "scan")
        /\ UNCHANGED <<frag, result>>
     \/ /\ frag[s] = size[call[s]] - 1 /\ ~wants[call[s]]
        /\ Returns(s, "ok")
        /\ UNCHANGED <<frag, slot>>
  /\ UNCHANGED <<call, pid, packetId, table, calls, size, wants, dispatch, idHistory, cbHistory>>

GivesIdBack(s) ==
  /\ spc[s] = "send"
  /\ packetId' = IF pid[s] # NoId THEN pid[s] ELSE packetId
  /\ Returns(s, "failed")
  /\ UNCHANGED <<call, pid, frag, slot, table, node, calls, size, wants, dispatch, idHistory, cbHistory>>

IgnoresRefusal(s) ==
  /\ spc[s] = "send"
  /\ \/ /\ frag[s] < size[call[s]] - 1
        /\ frag' = [frag EXCEPT ![s] = @ + 1]
        /\ UNCHANGED <<spc, result>>
     \/ /\ frag[s] = size[call[s]] - 1
        /\ Returns(s, "failed")
        /\ UNCHANGED frag
  /\ UNCHANGED <<call, pid, slot, packetId, table, node, calls, size, wants, dispatch, idHistory, cbHistory>>

\* Refused by the node, or the request did not reach it: the call fails, and
\* the fragments already accepted stay with the node (lines 254-269).
FragmentRefused(s) ==
  /\ spc[s] = "send"
  /\ Returns(s, "failed")
  /\ UNCHANGED <<call, pid, frag, slot, packetId, table, node, calls, size, wants, dispatch, idHistory, cbHistory>>

\* Accepted, but the confirm did not come back (RequestConfirm).
ConfirmLost(s) ==
  /\ spc[s] = "send"
  /\ Accepts(call[s], pid[s], frag[s])
  /\ Returns(s, "failed")
  /\ UNCHANGED <<call, pid, frag, slot, packetId, table, calls, size, wants, dispatch, idHistory, cbHistory>>

ScanTakesAny(s) ==
  /\ spc[s] = "scan"
  /\ Goto(s, "busy")
  /\ UNCHANGED <<call, pid, frag, slot, packetId, table, node, history, dispatch, idHistory, cbHistory>>

\* set_indication_cb, lines 44-46: a full table is not reported to the caller.
Scan(s) ==
  /\ spc[s] = "scan"
  /\ \/ /\ ~busy[slot[s]]
        /\ Goto(s, "busy")
        /\ clashed' = (clashed \/ \E t \in Senders : spc[t] = "busy" /\ slot[t] = slot[s])
        /\ UNCHANGED <<slot, result>>
     \/ /\ busy[slot[s]] /\ slot[s] < TableSize
        /\ slot' = [slot EXCEPT ![s] = @ + 1]
        /\ UNCHANGED <<spc, result, clashed>>
     \/ /\ busy[slot[s]] /\ slot[s] = TableSize
        /\ Returns(s, "ok")
        /\ UNCHANGED <<slot, clashed>>
  /\ UNCHANGED <<call, pid, frag, packetId, table, node, calls, size, wants, dispatch, idHistory, called, inTime, crossed>>

\* Lines 48-50, three stores.
StoreBusy(s) ==
  /\ spc[s] = "busy"
  /\ busy' = [busy EXCEPT ![slot[s]] = TRUE]
  /\ Goto(s, "cb")
  /\ UNCHANGED <<call, pid, frag, slot, packetId, cb, pdu, node, history, dispatch, idHistory, cbHistory>>

StoreCb(s) ==
  /\ spc[s] = "cb"
  /\ cb' = [cb EXCEPT ![slot[s]] = call[s]]
  /\ crossed' = IF dpc = "load" /\ dslot = slot[s] THEN crossed \cup {<<dpdu, call[s]>>} ELSE crossed
  /\ Goto(s, "pdu")
  /\ UNCHANGED <<call, pid, frag, slot, packetId, busy, pdu, node, history, dispatch, idHistory, called, inTime, clashed>>

AwaitsReport(c) == \E r \in reports : r[1] = c

StorePdu(s) ==
  /\ spc[s] = "pdu"
  /\ pdu' = [pdu EXCEPT ![slot[s]] = call[s]]
  /\ inTime' = IF AwaitsReport(call[s]) THEN inTime \cup {call[s]} ELSE inTime
  /\ Returns(s, "ok")
  /\ UNCHANGED <<call, pid, frag, slot, packetId, busy, cb, node, calls, size, wants, dispatch, idHistory,
                 called, crossed, clashed>>

----------------------------------------------------------------------------
(* The dispatch thread                                                     *)

\* dsap_data_tx_indication_handler, for a report that the node made, the poll
\* thread fetched and the ring delayed.
OnReport(r) ==
  /\ dpc = "idle" /\ r \in reports
  /\ reports' = reports \ {r}
  /\ dpc' = "look" /\ dpdu' = r[1] /\ dslot' = 1 /\ dcb' = 0
  /\ UNCHANGED <<senderVars, packetId, table, sent, history, idHistory, cbHistory>>

AnyBusy(i) == busy[i]

\* get_indication_cb, line 64.
Matches(i) == busy[i] /\ pdu[i] = dpdu

NextSlot == IF dslot < TableSize THEN dpc' = "look" /\ dslot' = dslot + 1
                                 ELSE dpc' = "call" /\ UNCHANGED dslot

\* Lines 62-67: a matching entry is released.
Look ==
  /\ dpc = "look"
  /\ \/ /\ Matches(dslot)
        /\ busy' = [busy EXCEPT ![dslot] = FALSE]
        /\ dpc' = "load" /\ UNCHANGED dslot
     \/ ~Matches(dslot) /\ NextSlot /\ UNCHANGED busy
  /\ UNCHANGED <<senderVars, packetId, cb, pdu, dpdu, dcb, node, history, idHistory, cbHistory>>

\* Line 68, when the entry may already be another message's; the loop goes on
\* and the last match is the one called.
LoadCb ==
  /\ dpc = "load"
  /\ dcb' = cb[dslot]
  /\ NextSlot
  /\ UNCHANGED <<senderVars, packetId, table, dpdu, node, history, idHistory, cbHistory>>

\* Lines 293-305.
CallBack ==
  /\ dpc = "call"
  /\ dpc' = "idle"
  /\ called' = IF dcb = 0 THEN called ELSE [called EXCEPT ![<<dcb, dpdu>>] = @ + 1]
  /\ UNCHANGED <<senderVars, packetId, table, dpdu, dslot, dcb, node, history, idHistory,
                 inTime, crossed, clashed>>

----------------------------------------------------------------------------
SenderStep(s) ==
  \/ ReadPacketId(s) \/ WritePacketId(s)
  \/ FragmentAccepted(s) \/ FragmentRefused(s) \/ ConfirmLost(s)
  \/ Scan(s) \/ StoreBusy(s) \/ StoreCb(s) \/ StorePdu(s)

DispatchStep == (\E r \in reports : OnReport(r)) \/ Look \/ LoadCb \/ CallBack

Next ==
  \/ \E s \in Senders, k \in 1 .. MaxFrags, w \in BOOLEAN : Begin(s, k, w)
  \/ \E s \in Senders : SenderStep(s)
  \/ DispatchStep

Spec == Init /\ [][Next]_vars

----------------------------------------------------------------------------
(* Properties                                                              *)

Accepted(c) == {f \in sent : f.call = c}
Complete(c) == {f.off : f \in Accepted(c)} = 0 .. size[c] - 1

\* Lines 222-269 and 288: a call that returns success has had every one of its
\* fragments accepted, one of them, the final one, flagged as the last.
OkMeansComplete ==
  \A c \in Calls : result[c] = "ok" =>
    Complete(c) /\ {f.off : f \in {g \in Accepted(c) : g.last}} = {size[c] - 1}

Turn(c) == CHOOSE i \in DOMAIN taken : taken[i].call = c

\* Line 218: fragments of two messages share a packet id only when IdSpan
\* messages or more lie between them, even when the first was abandoned and
\* whatever the number of senders, as long as no sender has read packet_id
\* between the read and the write of another (else: PacketIdsApart).
NoMixedPackets ==
  ~raced => \A f, g \in sent : f.id = g.id /\ f.id # NoId /\ f.call # g.call =>
              \/ Turn(g.call) - Turn(f.call) >= IdSpan
              \/ Turn(f.call) - Turn(g.call) >= IdSpan

\* Lines 58-73 and 291-305: a report calls one callback at most, once, and it is
\* the one registered for the message, or one that took over the message's entry
\* after its release and before the load of line 68 (CallbackGetsItsPduId), unless
\* two senders have chosen the same entry (lines 46-48).
CallbackIsOwn ==
  \A c, p \in Calls :
    /\ called[<<c, p>>] <= 1
    /\ called[<<c, p>>] > 0 =>
         /\ \A d \in Calls \ {c} : called[<<d, p>>] = 0
         /\ c = p \/ <<p, c>> \in crossed \/ clashed

\* Lines 117-126: a pdu id is passed to a callback once the whole message is with
\* the node and its final fragment reported, never on the report of an earlier
\* fragment, for whichever callback it is.
CalledAfterSent ==
  \A c, p \in Calls : called[<<c, p>>] > 0 => Complete(p) /\ <<p, size[p] - 1>> \notin reports

\* The report of c's message has been handled, if it was to be reported at all.
ReportHandled(c) == ~AwaitsReport(c) /\ (dpc = "idle" \/ dpdu # c)

\* Lines 44-56: a callback that was in the table before the report of its message
\* was handled has been called with it in the end, whatever was registered and
\* released meanwhile, unless two senders chose the same entry, or another took it
\* over between lines 67 and 68.
RegisteredIsCalled ==
  \A c \in inTime : ReportHandled(c) =>
    called[<<c, c>>] > 0 \/ clashed \/ \E d \in Calls : <<c, d>> \in crossed

\* "All the other API calls can be made on different threads" (platform.c lines
\* 349-352): messages of two threads are told apart.  It is false: nothing
\* protects packet_id.
PacketIdsApart ==
  \A f, g \in sent : f.id = g.id /\ f.id # NoId => f.call = g.call

\* "Pduid set in send_data" (lib/api/wpc.h lines 179-180): a callback is called
\* with the pdu id of its own message.  It is false: its entry may be the one
\* just released for another message, whose report then calls it.
CallbackGetsItsPduId == \A c, p \in Calls : called[<<c, p>>] > 0 => c = p

\* "Callback to call when message is sent" (lib/api/wpc.h lines 195-196): a
\* message sent with a callback has it called.  It is false: the report can be
\* handled before the callback is registered.
SentIsReported ==
  \A c \in Calls : result[c] = "ok" /\ wants[c] /\ ReportHandled(c) => called[<<c, c>>] > 0
============================================================================

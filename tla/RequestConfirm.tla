-------------------------- MODULE RequestConfirm --------------------------
(***************************************************************************)
(* The request/confirm and poll exchanges of lib/wpc/wpc_internal.c over a *)
(* serial line that may lose, garble and delay frames.                     *)
(*                                                                         *)
(* The host has one request at a time on the line (sending_mutex), but the *)
(* node may answer a request after the host has given up on it.  A confirm *)
(* is recognised by its primitive and an 8-bit frame id.  A request that   *)
(* reached the node with a wrong CRC is answered by a dummy confirm, which *)
(* carries no usable id, and is sent again.  A poll whose confirm announces *)
(* indications goes on by reading them, answering each one.                *)
(* A call is one invocation of send_request_locked; its number is a        *)
(* history variable that travels with the frames and that no code reads.   *)
(***************************************************************************)
EXTENDS Integers, Sequences, FiniteSets

CONSTANTS
  IdSpan,       \* number of frame ids (256)
  MaxAttempts,  \* MAX_CONFIRM_ATTEMPT
  MaxRetries,   \* MAX_CRC_REQUEST_ERROR_RETRIES
  MaxPoll,      \* indications asked for by a poll
  MaxCalls,     \* bound: calls
  MaxInds,      \* bound: indications the node has
  MaxFaults     \* bound: frames lost or garbled, failed writes

ASSUME SizesAssumption ==
  /\ IdSpan \in Nat \ {0} /\ MaxAttempts \in Nat \ {0} /\ MaxPoll \in Nat \ {0}
  /\ MaxRetries \in Nat
ASSUME BoundsAssumption == MaxCalls \in Nat /\ MaxInds \in Nat /\ MaxFaults \in Nat

VARIABLES
  phase,     \* host: "idle", "confirm", "indication", "handover", or "spin" for ever
  calls,     \* number of calls so far; the current one is the last
  prim, id,  \* request of the current call
  nextId,    \* static frame_id of send_request_locked
  attempt, retries, left,  \* counters of the loops
  held, pending, \* a frame answered and not yet handed over, remaining_ind > 0
  linkOpen,  \* fd >= 0
  toNode, toHost,          \* frames on the line, oldest first
  nextInd,   \* node: the first indication not yet acknowledged
  queued,    \* indications handed to the platform
  executed,  \* how often the node executed each call
  outcome,   \* what each call returned
  answer,    \* the call whose confirm each successful call took
  clean,     \* was the line silent when the call began?
  garbage,   \* calls that handed over a frame that is no indication
  faults

hand == <<held, pending>>
host == <<phase, calls, prim, id, nextId, attempt, retries, left, hand, linkOpen>>
history == <<outcome, answer, clean, garbage>>
vars == <<host, toNode, toHost, nextInd, queued, executed, history, faults>>

Calls == 1 .. MaxCalls
Prims == {"tx", "poll"}

Requests  == [type : {"request"}, prim : Prims, id : 0 .. IdSpan - 1, call : Calls,
              ok : BOOLEAN]
Responses == [type : {"response"}, ind : 0 .. MaxInds, more : BOOLEAN]
Confirms  == [type : {"confirm"}, prim : Prims, id : 0 .. IdSpan - 1, call : Calls,
              more : BOOLEAN]
Inds      == [type : {"ind"}, ind : 1 .. MaxInds, more : BOOLEAN]
Dummies   == [type : {"dummy"}, call : Calls]
Garbled   == [type |-> "garbled"]
NoFrame   == [type |-> "none"]

TypeOK ==
  /\ phase \in {"idle", "confirm", "indication", "handover", "spin"}
  /\ calls \in 0 .. MaxCalls /\ prim \in Prims
  /\ id \in 0 .. IdSpan - 1 /\ nextId \in 0 .. IdSpan - 1
  /\ attempt \in 0 .. MaxAttempts /\ retries \in 0 .. MaxRetries /\ left \in 0 .. MaxPoll
  /\ held \in Confirms \cup Inds \cup {NoFrame} /\ pending \in BOOLEAN
  /\ linkOpen \in BOOLEAN
  /\ toNode \in Seq(Requests \cup Responses)
  /\ toHost \in Seq(Confirms \cup Inds \cup Dummies \cup {Garbled})
  /\ nextInd \in 1 .. MaxInds + 1 /\ queued \subseteq 1 .. MaxInds
  /\ executed \in [Calls -> Nat]
  /\ outcome \in [Calls -> {"none", "ok", "failed", "crcFromHost", "crc", "sync"}]
  /\ answer \in [Calls -> 0 .. MaxCalls]
  /\ clean \in [Calls -> BOOLEAN] /\ garbage \subseteq Calls
  /\ faults \in 0 .. MaxFaults

Init ==
  /\ phase = "idle" /\ calls = 0 /\ prim = "tx" /\ id = 0 /\ nextId = 0
  /\ attempt = 0 /\ retries = 0 /\ left = 0 /\ linkOpen = TRUE
  /\ held = NoFrame /\ pending = FALSE
  /\ toNode = << >> /\ toHost = << >>
  /\ nextInd = 1 /\ queued = {}
  /\ executed = [c \in Calls |-> 0]
  /\ outcome = [c \in Calls |-> "none"]
  /\ answer = [c \in Calls |-> 0]
  /\ clean = [c \in Calls |-> FALSE] /\ garbage = {}
  /\ faults = 0

----------------------------------------------------------------------------
(* Host                                                                    *)

Request == [type |-> "request", prim |-> prim, id |-> id, call |-> calls, ok |-> TRUE]

\* Calls of which a frame is still on the line.
InFlight == {toNode[i].call : i \in {j \in DOMAIN toNode : toNode[j].type = "request"}}
            \cup {toHost[i].call : i \in {j \in DOMAIN toHost :
                                            toHost[j].type \in {"confirm", "dummy"}}}

\* Serial_write: a closed link is opened again first; either may fail, and a
\* failed write closes the link (serial.c lines 195-222).  A short write leaves
\* it open and, of a request, a piece that the node refuses or does not notice.
Writes(frame) == /\ toNode' = Append(toNode, frame)
                 /\ linkOpen' = TRUE
                 /\ UNCHANGED faults

Truncated(frame) == [frame EXCEPT !.ok = FALSE]

WriteFails(frame) ==
  /\ faults < MaxFaults /\ faults' = faults + 1
  /\ \/ linkOpen' = FALSE /\ UNCHANGED toNode
     \/ linkOpen' = TRUE /\ UNCHANGED toNode
     \/ frame.type = "request" /\ linkOpen' = TRUE /\ toNode' = Append(toNode, Truncated(frame))

Returns(result) == /\ outcome' = [outcome EXCEPT ![calls] = result]
                   /\ phase' = "idle"

FollowingId(i) == (i + 1) % IdSpan

\* Lines 146-154.  The node's backlog stays below the number of frame ids: a
\* node that lets 60 s pass ends the process, and a call lasts 500 ms or more.
Call(p) ==
  /\ phase = "idle" /\ calls < MaxCalls
  /\ \A c \in InFlight : calls + 1 - c < IdSpan
  /\ calls' = calls + 1
  /\ prim' = p /\ id' = nextId
  /\ nextId' = FollowingId(nextId)
  /\ attempt' = 0 /\ retries' = 0 /\ left' = IF p = "poll" THEN MaxPoll ELSE 0
  /\ clean' = [clean EXCEPT ![calls'] = (toNode = << >> /\ toHost = << >>)]
  /\ LET request == [type |-> "request", prim |-> p, id |-> id', call |-> calls', ok |-> TRUE]
     IN  \/ /\ Writes(request)
            /\ phase' = "confirm"
            /\ UNCHANGED outcome
         \/ /\ WriteFails(request)
            /\ outcome' = [outcome EXCEPT ![calls'] = "failed"]
            /\ UNCHANGED phase
  /\ UNCHANGED <<hand, toHost, nextInd, queued, executed, answer, garbage>>

Waiting(type) == phase = "confirm" /\ toHost # << >> /\ Head(toHost).type = type
Taken == toHost' = Tail(toHost)

ResendAlsoOnGarbled ==
  /\ Waiting("dummy") \/ Waiting("garbled")
  /\ Taken
  /\ \/ /\ retries < MaxRetries
        /\ retries' = retries + 1
        /\ \/ Writes(Request) /\ UNCHANGED <<phase, outcome>>
           \/ WriteFails(Request) /\ Returns("failed")
     \/ /\ retries = MaxRetries
        /\ Returns("crcFromHost")
        /\ UNCHANGED <<retries, linkOpen, toNode, faults>>
  /\ UNCHANGED <<calls, prim, id, nextId, attempt, left, hand, nextInd, queued, executed, answer,
                 clean, garbage>>

\* Lines 162-178: a dummy confirm makes the request be sent again, at most
\* MaxRetries times; the id of the refused request is not looked at.
TakeDummy ==
  /\ Waiting("dummy")
  /\ Taken
  /\ \/ /\ retries < MaxRetries
        /\ retries' = retries + 1
        /\ \/ Writes(Request) /\ UNCHANGED <<phase, outcome>>
           \/ WriteFails(Request) /\ Returns("failed")
     \/ /\ retries = MaxRetries
        /\ Returns("crcFromHost")
        /\ UNCHANGED <<retries, linkOpen, toNode, faults>>
  /\ UNCHANGED <<calls, prim, id, nextId, attempt, left, hand, nextInd, queued, executed, answer,
                 clean, garbage>>

\* Lines 179-184: the confirm is garbled, the request may have been executed.
TakeGarbled ==
  /\ Waiting("garbled")
  /\ Taken
  /\ Returns("crc")
  /\ UNCHANGED <<calls, prim, id, nextId, attempt, retries, left, hand, linkOpen, toNode, nextInd,
                 queued, executed, answer, clean, garbage, faults>>

NeverTimesOut ==
  /\ phase = "confirm" /\ toHost = << >>
  /\ UNCHANGED vars

ResendsOnTimeout ==
  /\ phase = "confirm" /\ toHost = << >> /\ retries < MaxRetries
  /\ retries' = retries + 1
  /\ Writes(Request)
  /\ UNCHANGED <<phase, outcome, calls, prim, id, nextId, attempt, left, hand, toHost, nextInd,
                 queued, executed, answer, clean, garbage>>

\* Lines 185-192: nothing within the timeout, the node being late or the
\* frame lost.
TimesOut ==
  /\ phase = "confirm" /\ toHost = << >>
  /\ Returns("failed")
  /\ UNCHANGED <<calls, prim, id, nextId, attempt, retries, left, hand, linkOpen, toNode, toHost,
                 nextInd, queued, executed, answer, clean, garbage, faults>>

MatchesPrimitive(f) == f.type = "confirm" /\ f.prim = prim
Matches(f) == f.type = "confirm" /\ f.prim = prim /\ f.id = id

\* Lines 201-219 and 223-227: another frame is dropped, up to a number.
TakeOther ==
  /\ Waiting("confirm") \/ Waiting("ind")
  /\ ~Matches(Head(toHost))
  /\ Taken
  /\ attempt' = attempt + 1
  /\ \/ attempt' < MaxAttempts /\ UNCHANGED <<phase, outcome>>
     \/ attempt' = MaxAttempts /\ Returns("sync")
  /\ UNCHANGED <<calls, prim, id, nextId, retries, left, hand, linkOpen, toNode, nextInd, queued,
                 executed, answer, clean, garbage, faults>>

\* Lines 220-231, and 349-355 for a poll.
TakeConfirm ==
  /\ Waiting("confirm")
  /\ Matches(Head(toHost))
  /\ Taken
  /\ answer' = [answer EXCEPT ![calls] = Head(toHost).call]
  /\ \/ prim = "poll" /\ Head(toHost).more /\ phase' = "indication" /\ UNCHANGED outcome
     \/ ~(prim = "poll" /\ Head(toHost).more) /\ Returns("ok")
  /\ UNCHANGED <<calls, prim, id, nextId, attempt, retries, left, hand, linkOpen, toNode, nextInd,
                 queued, executed, clean, garbage, faults>>

\* cb_locked: the platform puts the frame into its ring.
HandsOver(f) ==
  \/ f.type = "ind" /\ queued' = queued \cup {f.ind} /\ UNCHANGED garbage
  \/ f.type = "confirm" /\ garbage' = garbage \cup {calls} /\ UNCHANGED queued

\* handle_indication, lines 286-303: whatever the frame is, it is answered, and
\* the answer's own failure is ignored.  Of a frame that is no indication any
\* byte is taken for the status.
AnswerIndication(remaining) ==
  /\ phase = "indication" /\ linkOpen /\ toHost # << >>
  /\ Head(toHost).type \in {"ind", "confirm"}
  /\ Head(toHost).type = "ind" => remaining = Head(toHost).more
  /\ Taken
  /\ held' = Head(toHost) /\ pending' = remaining
  /\ left' = left - 1
  /\ LET response == [type |-> "response",
                      ind |-> IF Head(toHost).type = "ind" THEN Head(toHost).ind ELSE 0,
                      more |-> remaining /\ left' # 0]
     IN  Writes(response) \/ WriteFails(response)
  /\ phase' = "handover"
  /\ UNCHANGED <<calls, prim, id, nextId, attempt, retries, nextInd, queued, executed, history>>

LeavesLoopFirst ==
  /\ phase = "handover"
  /\ held' = NoFrame
  /\ \/ pending /\ left > 0 /\ phase' = "indication" /\ HandsOver(held) /\ UNCHANGED outcome
     \/ ~(pending /\ left > 0) /\ Returns("ok") /\ UNCHANGED <<queued, garbage>>
  /\ UNCHANGED <<calls, prim, id, nextId, attempt, retries, left, pending, linkOpen, toNode, toHost,
                 nextInd, executed, answer, clean, faults>>

\* Lines 305-308, in the loop of lines 356-367: the frame is handed over when
\* its answer may already have reached the node.
HandOver ==
  /\ phase = "handover"
  /\ HandsOver(held)
  /\ held' = NoFrame
  /\ \/ pending /\ left > 0 /\ phase' = "indication" /\ UNCHANGED outcome
     \/ ~(pending /\ left > 0) /\ Returns("ok")
  /\ UNCHANGED <<calls, prim, id, nextId, attempt, retries, left, pending, linkOpen, toNode, toHost,
                 nextInd, executed, answer, clean, faults>>

\* Lines 289-293 and 360-364.
IndicationFails ==
  /\ phase = "indication" /\ linkOpen
  /\ toHost # << >> => Head(toHost).type \in {"dummy", "garbled"}
  /\ toHost' = IF toHost = << >> THEN toHost ELSE Tail(toHost)
  /\ Returns("failed")
  /\ UNCHANGED <<calls, prim, id, nextId, attempt, retries, left, hand, linkOpen, toNode, nextInd,
                 queued, executed, answer, clean, garbage, faults>>

\* Slip_get_buffer on a closed link: every read fails at once and the loop has
\* no exit for it (slip.c lines 254-270), with sending_mutex held.
Spins ==
  /\ phase = "indication" /\ ~linkOpen
  /\ phase' = "spin"
  /\ UNCHANGED <<calls, prim, id, nextId, attempt, retries, left, hand, linkOpen, toNode, toHost,
                 nextInd, queued, executed, history, faults>>

----------------------------------------------------------------------------
(* Node and line (external)                                                *)

IndFrame(n) == [type |-> "ind", ind |-> n, more |-> n < MaxInds]

\* The node executes requests in order and answers each one; the answer to a
\* poll is followed by the first indication.
NodeExecutes ==
  /\ toNode # << >> /\ Head(toNode).type = "request" /\ Head(toNode).ok
  /\ LET r == Head(toNode)
         more == r.prim = "poll" /\ nextInd <= MaxInds
         confirm == [type |-> "confirm", prim |-> r.prim, id |-> r.id, call |-> r.call,
                     more |-> more]
     IN  /\ executed' = [executed EXCEPT ![r.call] = @ + 1]
         /\ toHost' = toHost \o <<confirm>> \o (IF more THEN <<IndFrame(nextInd)>> ELSE << >>)
  /\ toNode' = Tail(toNode)
  /\ UNCHANGED <<host, nextInd, queued, history, faults>>

NodeRefuses ==
  /\ toNode # << >> /\ Head(toNode).type = "request" /\ ~Head(toNode).ok
  /\ toHost' = Append(toHost, [type |-> "dummy", call |-> Head(toNode).call])
  /\ toNode' = Tail(toNode)
  /\ UNCHANGED <<host, nextInd, queued, executed, history, faults>>

\* An acknowledged indication is forgotten, and the next one sent if asked for.
NodeTakesResponse ==
  /\ toNode # << >> /\ Head(toNode).type = "response"
  /\ toNode' = Tail(toNode)
  /\ IF Head(toNode).ind = nextInd
       THEN /\ nextInd' = nextInd + 1
            /\ toHost' = IF Head(toNode).more /\ nextInd' <= MaxInds
                         THEN Append(toHost, IndFrame(nextInd')) ELSE toHost
       ELSE UNCHANGED <<nextInd, toHost>>
  /\ UNCHANGED <<host, queued, executed, history, faults>>

LineFault ==
  /\ faults < MaxFaults /\ faults' = faults + 1
  /\ UNCHANGED <<host, nextInd, queued, executed, history>>

\* The newest frame in either direction is lost or garbled; a garbled response
\* is ignored by the node, as if lost.
Last(s) == s[Len(s)]
AllButLast(s) == SubSeq(s, 1, Len(s) - 1)

RequestLost == /\ toNode # << >> /\ toNode' = AllButLast(toNode)
               /\ UNCHANGED toHost /\ LineFault
RequestGarbled == /\ toNode # << >> /\ Last(toNode).type = "request"
                  /\ toNode' = [toNode EXCEPT ![Len(toNode)].ok = FALSE]
                  /\ UNCHANGED toHost /\ LineFault
AnswerLost == /\ toHost # << >> /\ toHost' = AllButLast(toHost)
              /\ UNCHANGED toNode /\ LineFault
AnswerGarbled == /\ toHost # << >>
                 /\ toHost' = [toHost EXCEPT ![Len(toHost)] = Garbled]
                 /\ UNCHANGED toNode /\ LineFault

----------------------------------------------------------------------------
HostStep == \/ TakeDummy \/ TakeGarbled \/ TimesOut \/ TakeOther \/ TakeConfirm
            \/ (\E remaining \in BOOLEAN : AnswerIndication(remaining)) \/ HandOver
            \/ IndicationFails \/ Spins

Node == NodeExecutes \/ NodeRefuses \/ NodeTakesResponse

Next == \/ \E p \in Prims : Call(p)
        \/ HostStep
        \/ Node
        \/ RequestLost \/ RequestGarbled \/ AnswerLost \/ AnswerGarbled

\* The calling thread runs on; the node need not ever answer.
Spec == Init /\ [][Next]_vars /\ WF_vars(HostStep)

----------------------------------------------------------------------------
(* Properties                                                              *)

\* Lines 199-231: a call that succeeds took the confirm of its own request,
\* even when late confirms of earlier ones come first and frame ids wrap.
AnswerIsOwn == \A c \in Calls : answer[c] \in {0, c}

\* Lines 162-192: a request begun on a silent line is executed at most once,
\* and not at all when the host reports that the node refused it.
CleanCallsAreExact ==
  \A c \in Calls : clean[c] =>
    executed[c] <= 1 /\ (outcome[c] = "crcFromHost" => executed[c] = 0)

\* "CRC error is in the request, so not handled on the other side. Safe to
\* resend it" (lines 164-165): no request is executed twice.  It is false: the
\* dummy confirm of an older request repeats the current one.
OnlyUnhandledIsResent == \A c \in Calls : executed[c] <= 1

\* Lines 288-306: a poll begun on a silent line hands only indications over.
CleanPollsGetIndications == \A c \in garbage : ~clean[c]

\* Lines 300-306: the answer leaves before the indication is handed over.  What
\* the node has forgotten the platform has, but for the one a poll, which holds
\* sending_mutex and ends with it, has in its hands.
InHand == IF phase = "handover" /\ held.type = "ind" THEN {held.ind} ELSE {}
AcknowledgedIsQueued == 1 .. nextInd - 1 \subseteq queued \cup InHand

\* Every call returns whatever the node does, short of the endless loop of
\* Slip_get_buffer after a response that could not be written.
CallReturns == phase # "idle" ~> phase \in {"idle", "spin"}
============================================================================

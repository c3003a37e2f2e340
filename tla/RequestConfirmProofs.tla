------------------------ MODULE RequestConfirmProofs ------------------------
(***************************************************************************)
(* Proofs about RequestConfirm for every number of frame ids, attempts,    *)
(* retries and indications, and any number of calls and faults.            *)
(***************************************************************************)
EXTENDS RequestConfirm, SequenceTheorems, TLAPS

----------------------------------------------------------------------------
(* The inductive invariant                                                 *)

Frames(s) == {s[i] : i \in DOMAIN s}

\* The loops have room for another turn, and a call has no result before its end.
LoopInv ==
  /\ phase # "idle" => calls \in Calls /\ outcome[calls] = "none"
  /\ phase = "confirm" => attempt < MaxAttempts /\ (prim = "poll" => left > 0)
  /\ phase = "indication" => left > 0
  /\ phase = "handover" => held # NoFrame

\* The frame id of the call made d calls before the current one.
IdBefore(d) == IF d <= id THEN id - d ELSE id - d + IdSpan

\* A request or confirm on the line is of a call so recent that its frame id
\* has not been used again.
Recent(f) == /\ f.call <= calls /\ calls - f.call < IdSpan
             /\ f.id = IdBefore(calls - f.call)
             /\ f.call = calls => f.prim = prim

IdInv ==
  /\ nextId = IF calls = 0 THEN 0 ELSE FollowingId(id)
  /\ \A f \in Frames(toNode) : f.type = "request" => Recent(f)
  /\ \A f \in Frames(toHost) : f.type = "confirm" => Recent(f)

\* What a call begun on a silent line can have on it while it waits for its
\* confirm: its request, or a dummy, garbled or good answer to it.
CleanConfirm ==
  \/ toNode = << >> /\ toHost = << >>
  \/ /\ Len(toNode) = 1 /\ toHost = << >>
     /\ toNode[1].type = "request" /\ toNode[1].call = calls
  \/ /\ toNode = << >> /\ Len(toHost) = 1
     /\ toHost[1].type = "dummy" /\ executed[calls] = 0
  \/ toNode = << >> /\ Len(toHost) = 1 /\ toHost[1].type = "garbled"
  \/ /\ toNode = << >> /\ Len(toHost) \in 1 .. 2
     /\ toHost[1].type = "confirm" /\ toHost[1].call = calls
     /\ Len(toHost) = 2 => toHost[2].type \in {"ind", "garbled"}

\* While it reads the indications there are only those, and their answers.
CleanIndication ==
  /\ \A f \in Frames(toNode) : f.type = "response"
  /\ \A f \in Frames(toHost) : f.type \in {"ind", "garbled"}

CleanInv ==
  /\ phase = "confirm" /\ clean[calls] => CleanConfirm
  /\ phase \in {"indication", "handover"} /\ clean[calls] => CleanIndication
  /\ phase = "handover" /\ clean[calls] => held.type = "ind"
  /\ \A c \in garbage : c <= calls /\ ~clean[c]

IsRequest(f, c) == f.type = "request" /\ f.call = c
Asked(c) == \E f \in Frames(toNode) : IsRequest(f, c)

AskedOnce(c) == \A i, j \in DOMAIN toNode :
                  IsRequest(toNode[i], c) /\ IsRequest(toNode[j], c) => i = j

\* A call to come has left no trace.
FutureInv == \A c \in Calls : c > calls => executed[c] = 0 /\ outcome[c] = "none"

\* A clean call has one request on the line at most, and none once executed.
ExecutedInv ==
  \A c \in Calls : clean[c] =>
    /\ executed[c] <= 1 /\ AskedOnce(c)
    /\ Asked(c) => executed[c] = 0
    /\ outcome[c] = "crcFromHost" => executed[c] = 0 /\ ~Asked(c)

\* An answered indication is in the hands of the call, or of the platform.
AnsweredInv ==
  /\ AcknowledgedIsQueued
  /\ \A f \in Frames(toNode) :
       f.type = "response" /\ f.ind # 0 => f.ind \in queued \cup InHand

Inv == /\ TypeOK /\ LoopInv /\ IdInv /\ FutureInv /\ CleanInv /\ ExecutedInv /\ AnsweredInv
       /\ AnswerIsOwn

----------------------------------------------------------------------------
(* The line                                                                *)

NodeFrames == Requests \cup Responses
HostFrames == Confirms \cup Inds \cup Dummies \cup {Garbled}

LEMMA Sizes ==
  /\ IdSpan \in Nat /\ IdSpan >= 1 /\ MaxAttempts \in Nat /\ MaxAttempts >= 1
  /\ MaxPoll \in Nat /\ MaxPoll >= 1 /\ MaxRetries \in Nat
  /\ MaxCalls \in Nat /\ MaxInds \in Nat /\ MaxFaults \in Nat
  BY SizesAssumption, BoundsAssumption

\* A frame's type tells its fields.
LEMMA FrameFields ==
  /\ \A f \in NodeFrames :
       /\ f.type \in {"request", "response"}
       /\ f.type = "request" =>
            /\ f \in Requests /\ f.prim \in Prims /\ f.id \in 0 .. IdSpan - 1
            /\ f.call \in Calls /\ f.ok \in BOOLEAN
       /\ f.type = "response" => f.ind \in 0 .. MaxInds /\ f.more \in BOOLEAN
  /\ \A f \in HostFrames :
       /\ f.type \in {"confirm", "ind", "dummy", "garbled"}
       /\ f.type = "confirm" =>
            /\ f.prim \in Prims /\ f.id \in 0 .. IdSpan - 1
            /\ f.call \in Calls /\ f.more \in BOOLEAN
       /\ f.type = "ind" => f.ind \in 1 .. MaxInds /\ f.more \in BOOLEAN
  BY DEF NodeFrames, HostFrames, Requests, Responses, Confirms, Inds, Dummies, Garbled

\* The oldest frame is taken.
LEMMA TailFrames ==
  ASSUME NEW S, NEW s \in Seq(S), s # << >>
  PROVE  /\ Tail(s) \in Seq(S) /\ Len(Tail(s)) = Len(s) - 1 /\ Len(s) \in Nat /\ Len(s) >= 1
         /\ 1 \in DOMAIN s /\ Head(s) = s[1] /\ Head(s) \in S /\ Head(s) \in Frames(s)
         /\ \A i \in DOMAIN Tail(s) : i \in Nat /\ i + 1 \in DOMAIN s /\ Tail(s)[i] = s[i + 1]
         /\ Frames(Tail(s)) \subseteq Frames(s)
<1>1. /\ Tail(s) \in Seq(S) /\ Len(Tail(s)) = Len(s) - 1 /\ Head(s) \in S
      /\ \A i \in 1 .. Len(Tail(s)) : Tail(s)[i] = s[i + 1]
  BY HeadTailProperties
<1>2. Len(s) \in Nat /\ Len(s) >= 1 /\ DOMAIN s = 1 .. Len(s)
  BY EmptySeq, LenProperties
<1>3. DOMAIN Tail(s) = 1 .. Len(s) - 1
  BY <1>1, LenProperties
<1>4. Head(s) = s[1]
  OBVIOUS
<1>5. \A i \in DOMAIN Tail(s) : i \in Nat /\ i + 1 \in DOMAIN s /\ Tail(s)[i] = s[i + 1]
  BY <1>1, <1>2, <1>3
<1>. QED BY <1>1, <1>2, <1>4, <1>5 DEF Frames

\* A frame is added.
LEMMA AppendFrames ==
  ASSUME NEW S, NEW s \in Seq(S), NEW e \in S
  PROVE  /\ Append(s, e) \in Seq(S) /\ Len(Append(s, e)) = Len(s) + 1 /\ Len(s) \in Nat
         /\ DOMAIN Append(s, e) = DOMAIN s \cup {Len(s) + 1} /\ Len(s) + 1 \notin DOMAIN s
         /\ \A i \in DOMAIN s : Append(s, e)[i] = s[i]
         /\ Append(s, e)[Len(s) + 1] = e
         /\ Frames(Append(s, e)) = Frames(s) \cup {e}
<1>1. /\ Append(s, e) \in Seq(S) /\ Len(Append(s, e)) = Len(s) + 1
      /\ \A i \in 1 .. Len(s) : Append(s, e)[i] = s[i]
      /\ Append(s, e)[Len(s) + 1] = e
  BY AppendProperties
<1>2. Len(s) \in Nat /\ DOMAIN s = 1 .. Len(s) /\ DOMAIN Append(s, e) = 1 .. Len(s) + 1
  BY <1>1, LenProperties
<1>3. DOMAIN Append(s, e) = DOMAIN s \cup {Len(s) + 1} /\ Len(s) + 1 \notin DOMAIN s
  BY <1>2
<1>. QED BY <1>1, <1>2, <1>3 DEF Frames

\* The newest frame is lost.
LEMMA LostFrames ==
  ASSUME NEW S, NEW s \in Seq(S), s # << >>
  PROVE  /\ AllButLast(s) \in Seq(S) /\ Len(AllButLast(s)) = Len(s) - 1
         /\ \A i \in DOMAIN AllButLast(s) : i \in DOMAIN s /\ AllButLast(s)[i] = s[i]
         /\ Frames(AllButLast(s)) \subseteq Frames(s)
<1>1. Len(s) \in Nat /\ Len(s) >= 1 /\ DOMAIN s = 1 .. Len(s) /\ s \in [1 .. Len(s) -> S]
  BY EmptySeq, LenProperties
<1>2. AllButLast(s) = [i \in 1 .. Len(s) - 1 |-> s[i]]
  BY <1>1 DEF AllButLast
<1>3. AllButLast(s) \in [1 .. Len(s) - 1 -> S]
  BY <1>1, <1>2
<1>4. AllButLast(s) \in Seq(S) /\ Len(AllButLast(s)) = Len(s) - 1
  <2>1. Len(s) - 1 \in Nat
    BY <1>1
  <2>2. AllButLast(s) \in Seq(S)
    BY <2>1, <1>3, SeqDef
  <2>3. Len(AllButLast(s)) \in Nat /\ DOMAIN AllButLast(s) = 1 .. Len(AllButLast(s))
    BY <2>2, LenProperties
  <2>4. DOMAIN AllButLast(s) = 1 .. Len(s) - 1
    BY <1>2
  <2>. QED BY <2>1, <2>2, <2>3, <2>4
<1>5. \A i \in DOMAIN AllButLast(s) : i \in DOMAIN s /\ AllButLast(s)[i] = s[i]
  BY <1>1, <1>2
<1>. QED BY <1>4, <1>5 DEF Frames

\* The newest frame is replaced.
LEMMA GarbledFrames ==
  ASSUME NEW S, NEW s \in Seq(S), s # << >>, NEW e \in S
  PROVE  /\ [s EXCEPT ![Len(s)] = e] \in Seq(S)
         /\ Len([s EXCEPT ![Len(s)] = e]) = Len(s) /\ Len(s) \in DOMAIN s
         /\ DOMAIN [s EXCEPT ![Len(s)] = e] = DOMAIN s
         /\ \A i \in DOMAIN s : [s EXCEPT ![Len(s)] = e][i] = IF i = Len(s) THEN e ELSE s[i]
         /\ Frames([s EXCEPT ![Len(s)] = e]) \subseteq Frames(s) \cup {e}
<1>1. Len(s) \in Nat /\ Len(s) >= 1 /\ DOMAIN s = 1 .. Len(s)
  BY EmptySeq, LenProperties
<1>2. /\ [s EXCEPT ![Len(s)] = e] \in Seq(S)
      /\ Len([s EXCEPT ![Len(s)] = e]) = Len(s)
      /\ \A i \in 1 .. Len(s) : [s EXCEPT ![Len(s)] = e][i] = IF i = Len(s) THEN e ELSE s[i]
  BY <1>1, ExceptSeq
<1>. QED BY <1>1, <1>2 DEF Frames

LEMMA NoFrames == Frames(<< >>) = {}
  BY DEF Frames

LEMMA SeqFrames ==
  ASSUME NEW S, NEW s \in Seq(S)
  PROVE  Frames(s) \subseteq S
  BY ElementOfSeq, LenProperties DEF Frames

\* What the host may write: the current request, whole or cut short, or an
\* answer to a frame that, if an indication, is in its hands.
HostWrites(e) ==
  \/ /\ e \in Requests /\ e.call = calls' /\ e.id = id' /\ e.prim = prim'
     /\ phase' \in {"confirm", "idle"}
  \/ e \in Responses /\ e.type = "response" /\ (e.ind # 0 => e.ind \in queued' \cup InHand')

SameRequest(e, f) == /\ e \in Requests /\ f.type = "request" /\ e.call = f.call
                     /\ e.id = f.id /\ e.prim = f.prim

\* A write that fails leaves at most a piece of the request.
LEMMA FailedWrite ==
  ASSUME NEW r \in Requests, WriteFails(r)
  PROVE  /\ linkOpen' \in BOOLEAN /\ faults' = faults + 1 /\ faults < MaxFaults
         /\ \/ UNCHANGED toNode
            \/ \E e \in Requests : /\ toNode' = Append(toNode, e) /\ e.call = r.call
                                   /\ e.id = r.id /\ e.prim = r.prim
<1>. DEFINE e == Truncated(r)
<1>1. e \in Requests /\ e.call = r.call /\ e.id = r.id /\ e.prim = r.prim
  BY DEF Truncated, Requests
<1>2. UNCHANGED toNode \/ toNode' = Append(toNode, e)
  BY DEF WriteFails
<1>3. linkOpen' \in BOOLEAN /\ faults' = faults + 1 /\ faults < MaxFaults
  BY DEF WriteFails
<1>. HIDE DEF e
<1>. QED BY <1>1, <1>2, <1>3

LEMMA StartedCall ==
  ASSUME TypeOK, NEW p \in Prims, Call(p)
  PROVE  /\ calls' = calls + 1 /\ calls' \in Calls /\ id' = nextId /\ prim' = p
         /\ nextId' = FollowingId(nextId) /\ phase = "idle"
         /\ attempt' = 0 /\ retries' = 0 /\ left' = (IF p = "poll" THEN MaxPoll ELSE 0)
         /\ UNCHANGED <<toHost, nextInd, queued, executed, answer, garbage>>
         /\ UNCHANGED <<held, pending>>
         /\ \A c \in InFlight : calls + 1 - c < IdSpan
         /\ clean' = [clean EXCEPT ![calls'] = (toNode = << >> /\ toHost = << >>)]
         /\ linkOpen' \in BOOLEAN
         /\ \/ /\ \E e \in Requests : toNode' = Append(toNode, e) /\ HostWrites(e)
               /\ phase' = "confirm" /\ UNCHANGED outcome /\ UNCHANGED faults
            \/ /\ \/ UNCHANGED toNode
                  \/ \E e \in Requests : toNode' = Append(toNode, e) /\ HostWrites(e)
               /\ phase' = "idle" /\ outcome' = [outcome EXCEPT ![calls'] = "failed"]
               /\ faults' = faults + 1 /\ faults < MaxFaults
<1>1. calls' = calls + 1 /\ calls' \in Calls /\ id' = nextId /\ id' \in 0 .. IdSpan - 1
  BY Sizes DEF Call, TypeOK, Calls
<1>2. UNCHANGED <<held, pending>>
  BY DEF Call, hand
<1>. DEFINE e == [type |-> "request", prim |-> p, id |-> id', call |-> calls', ok |-> TRUE]
<1>3. e \in Requests /\ e.call = calls' /\ e.id = id' /\ e.prim = prim'
  <2>1. prim' = p
    BY DEF Call
  <2>. QED BY <1>1, <2>1 DEF Requests
<1>4. CASE Writes(e) /\ phase' = "confirm" /\ UNCHANGED outcome
  <2>1. toNode' = Append(toNode, e) /\ linkOpen' \in BOOLEAN /\ UNCHANGED faults
    BY <1>4 DEF Writes
  <2>2. HostWrites(e)
    BY <1>3, <1>4 DEF HostWrites
  <2>3. \E r \in Requests : toNode' = Append(toNode, r) /\ HostWrites(r)
    BY <1>3, <2>1, <2>2
  <2>. HIDE DEF e
  <2>. QED BY <1>1, <1>2, <1>4, <2>1, <2>3 DEF Call
<1>5. CASE WriteFails(e) /\ outcome' = [outcome EXCEPT ![calls'] = "failed"] /\ UNCHANGED phase
  <2>. HIDE DEF e
  <2>1. phase = "idle" /\ phase' = "idle"
    BY <1>5 DEF Call
  <2>2. \/ UNCHANGED toNode
        \/ \E r \in Requests : toNode' = Append(toNode, r) /\ HostWrites(r)
    BY <1>3, <1>5, <2>1, FailedWrite DEF HostWrites
  <2>3. linkOpen' \in BOOLEAN /\ faults' = faults + 1 /\ faults < MaxFaults
    BY <1>3, <1>5, FailedWrite
  <2>. QED BY <1>1, <1>2, <1>5, <2>1, <2>2, <2>3 DEF Call
<1>. QED BY <1>4, <1>5 DEF Call

\* The three outcomes of a dummy confirm.
LEMMA DummyTaken ==
  ASSUME TypeOK, LoopInv, TakeDummy
  PROVE  /\ phase = "confirm" /\ toHost # << >> /\ Head(toHost).type = "dummy" /\ Taken
         /\ UNCHANGED <<calls, prim, id, nextId, attempt, left, nextInd, queued, executed,
                        answer, clean, garbage>>
         /\ UNCHANGED <<held, pending>> /\ linkOpen' \in BOOLEAN
         /\ \/ /\ retries < MaxRetries /\ retries' = retries + 1 /\ UNCHANGED <<phase, outcome>>
               /\ \E e \in Requests : toNode' = Append(toNode, e) /\ HostWrites(e)
               /\ UNCHANGED faults
            \/ /\ retries < MaxRetries /\ retries' = retries + 1 /\ Returns("failed")
               /\ \/ UNCHANGED toNode
                  \/ \E e \in Requests : toNode' = Append(toNode, e) /\ HostWrites(e)
               /\ faults' = faults + 1 /\ faults < MaxFaults
            \/ Returns("crcFromHost") /\ UNCHANGED <<retries, toNode, faults>>
<1>1. /\ phase = "confirm" /\ toHost # << >> /\ Head(toHost).type = "dummy" /\ Taken
      /\ UNCHANGED <<calls, prim, id, nextId, attempt, left, nextInd, queued, executed,
                     answer, clean, garbage>>
      /\ UNCHANGED <<held, pending>>
  BY DEF TakeDummy, Waiting, hand
<1>2. Request \in Requests /\ Request.call = calls /\ Request.id = id /\ Request.prim = prim
  BY <1>1 DEF Request, Requests, TypeOK, LoopInv
<1>3. CASE retries < MaxRetries /\ retries' = retries + 1 /\ Writes(Request) /\ UNCHANGED <<phase, outcome>>
  <2>1. toNode' = Append(toNode, Request) /\ linkOpen' \in BOOLEAN /\ UNCHANGED faults
    BY <1>3 DEF Writes
  <2>2. HostWrites(Request)
    BY <1>1, <1>2, <1>3 DEF HostWrites
  <2>. QED BY <1>1, <1>2, <1>3, <2>1, <2>2
<1>4. CASE retries < MaxRetries /\ retries' = retries + 1 /\ WriteFails(Request) /\ Returns("failed")
  <2>1. phase' = "idle"
    BY <1>4 DEF Returns
  <2>2. \/ UNCHANGED toNode
        \/ \E r \in Requests : toNode' = Append(toNode, r) /\ HostWrites(r)
    BY <1>1, <1>2, <1>4, <2>1, FailedWrite DEF HostWrites
  <2>3. linkOpen' \in BOOLEAN /\ faults' = faults + 1 /\ faults < MaxFaults
    BY <1>2, <1>4, FailedWrite
  <2>. QED BY <1>1, <1>4, <2>2, <2>3
<1>5. CASE Returns("crcFromHost") /\ UNCHANGED <<retries, linkOpen, toNode, faults>>
  <2>1. linkOpen' \in BOOLEAN
    BY <1>5 DEF TypeOK
  <2>. QED BY <1>1, <1>5, <2>1
<1>. QED BY <1>3, <1>4, <1>5 DEF TakeDummy

\* A frame read by a poll is answered.
LEMMA IndicationAnswered ==
  ASSUME TypeOK, LoopInv, NEW remaining \in BOOLEAN, AnswerIndication(remaining)
  PROVE  /\ phase = "indication" /\ toHost # << >> /\ Head(toHost).type \in {"ind", "confirm"}
         /\ Taken /\ left' = left - 1 /\ phase' = "handover"
         /\ held' = Head(toHost) /\ held' \in Confirms \cup Inds /\ pending' \in BOOLEAN
         /\ UNCHANGED <<calls, prim, id, nextId, attempt, retries, nextInd, queued, executed>>
         /\ UNCHANGED <<outcome, answer, clean, garbage>>
         /\ linkOpen' \in BOOLEAN
         /\ \/ UNCHANGED toNode
            \/ \E e \in Responses : toNode' = Append(toNode, e) /\ HostWrites(e)
         /\ UNCHANGED faults \/ (faults' = faults + 1 /\ faults < MaxFaults)
<1>1. /\ phase = "indication" /\ toHost # << >> /\ Head(toHost).type \in {"ind", "confirm"}
      /\ Taken /\ left' = left - 1 /\ phase' = "handover" /\ held' = Head(toHost)
      /\ pending' = remaining
      /\ UNCHANGED <<calls, prim, id, nextId, attempt, retries, nextInd, queued, executed>>
      /\ UNCHANGED <<outcome, answer, clean, garbage>>
  BY DEF AnswerIndication, history
<1>2. Head(toHost) \in HostFrames
  BY <1>1, TailFrames DEF TypeOK, HostFrames
<1>3. held' \in Confirms \cup Inds
  BY <1>1, <1>2 DEF HostFrames, Dummies, Garbled
<1>. DEFINE e == [type |-> "response",
                  ind |-> IF Head(toHost).type = "ind" THEN Head(toHost).ind ELSE 0,
                  more |-> remaining /\ left' # 0]
<1>4. e \in Responses
  <2>1. e.ind \in 0 .. MaxInds
    BY <1>2, FrameFields, Sizes
  <2>2. (remaining /\ left' # 0) \in BOOLEAN
    OBVIOUS
  <2>. QED BY <2>1, <2>2 DEF Responses
<1>5. HostWrites(e)
  <2>1. e.ind # 0 => e.ind \in InHand'
    BY <1>1 DEF InHand
  <2>. QED BY <1>4, <2>1 DEF HostWrites
<1>6. Writes(e) \/ WriteFails(e)
  BY DEF AnswerIndication
<1>7. CASE Writes(e)
  <2>1. toNode' = Append(toNode, e) /\ linkOpen' \in BOOLEAN /\ UNCHANGED faults
    BY <1>7 DEF Writes
  <2>2. \E r \in Responses : toNode' = Append(toNode, r) /\ HostWrites(r)
    BY <2>1, <1>4, <1>5
  <2>. HIDE DEF e
  <2>. QED BY <1>1, <1>3, <2>1, <2>2
<1>8. CASE WriteFails(e)
  <2>1. e.type # "request"
    OBVIOUS
  <2>. HIDE DEF e
  <2>. QED BY <1>1, <1>3, <1>8, <2>1 DEF WriteFails
<1>. QED BY <1>6, <1>7, <1>8

\* The answered frame is handed over.
LEMMA HandedOver ==
  ASSUME TypeOK, LoopInv, HandOver
  PROVE  /\ phase = "handover" /\ held' = NoFrame /\ calls \in Calls
         /\ UNCHANGED <<calls, prim, id, nextId, attempt, retries, left, pending, linkOpen,
                        toNode, toHost, nextInd, executed, answer, clean, faults>>
         /\ queued' = queued \cup InHand /\ InHand \subseteq 1 .. MaxInds
         /\ \/ UNCHANGED garbage
            \/ garbage' = garbage \cup {calls} /\ held.type = "confirm"
         /\ \/ left > 0 /\ phase' = "indication" /\ UNCHANGED outcome
            \/ Returns("ok")
<1>1. /\ phase = "handover" /\ held' = NoFrame /\ HandsOver(held)
      /\ UNCHANGED <<calls, prim, id, nextId, attempt, retries, left, pending, linkOpen,
                     toNode, toHost, nextInd, executed, answer, clean, faults>>
      /\ \/ left > 0 /\ phase' = "indication" /\ UNCHANGED outcome
         \/ Returns("ok")
  BY DEF HandOver
<1>2. calls \in Calls /\ held \in Confirms \cup Inds
  BY <1>1 DEF LoopInv, TypeOK
<1>3. CASE held \in Inds
  <2>1. held.type = "ind" /\ held.ind \in 1 .. MaxInds
    BY <1>3 DEF Inds
  <2>2. InHand = {held.ind}
    BY <1>1, <2>1 DEF InHand
  <2>3. queued' = queued \cup {held.ind} /\ UNCHANGED garbage
    BY <1>1, <2>1 DEF HandsOver
  <2>. QED BY <1>1, <1>2, <2>1, <2>2, <2>3
<1>4. CASE held \in Confirms
  <2>1. held.type = "confirm"
    BY <1>4 DEF Confirms
  <2>2. InHand = {}
    BY <2>1 DEF InHand
  <2>3. UNCHANGED queued /\ garbage' = garbage \cup {calls}
    BY <1>1, <2>1 DEF HandsOver
  <2>. QED BY <1>1, <1>2, <2>1, <2>2, <2>3
<1>. QED BY <1>2, <1>3, <1>4

\* What the node adds to its line.
NodeAnswers(e) ==
  \/ e.type = "ind"
  \/ e.type = "dummy" /\ Head(toNode).type = "request"
  \/ /\ e.type = "confirm" /\ Head(toNode).type = "request"
     /\ e.call = Head(toNode).call /\ e.id = Head(toNode).id /\ e.prim = Head(toNode).prim

LEMMA Executed ==
  ASSUME TypeOK, NodeExecutes
  PROVE  /\ toNode # << >> /\ Head(toNode).type = "request" /\ Head(toNode) \in Requests
         /\ Head(toNode).call \in Calls
         /\ executed' = [executed EXCEPT ![Head(toNode).call] = @ + 1]
         /\ toNode' = Tail(toNode)
         /\ UNCHANGED host /\ UNCHANGED history /\ UNCHANGED <<nextInd, queued, faults>>
         /\ \E e \in Confirms :
              /\ e.type = "confirm" /\ NodeAnswers(e)
              /\ \/ toHost' = Append(toHost, e)
                 \/ \E f \in Inds : f.type = "ind" /\ toHost' = Append(Append(toHost, e), f)
<1>. DEFINE r == Head(toNode)
            more == r.prim = "poll" /\ nextInd <= MaxInds
            e == [type |-> "confirm", prim |-> r.prim, id |-> r.id, call |-> r.call, more |-> more]
<1>1. /\ toNode # << >> /\ r.type = "request"
      /\ executed' = [executed EXCEPT ![r.call] = @ + 1]
      /\ toNode' = Tail(toNode)
      /\ UNCHANGED host /\ UNCHANGED history /\ UNCHANGED <<nextInd, queued, faults>>
      /\ toHost' = toHost \o <<e>> \o (IF more THEN <<IndFrame(nextInd)>> ELSE << >>)
  BY DEF NodeExecutes
<1>2. r \in Requests /\ r.call \in Calls /\ r.prim \in Prims /\ r.id \in 0 .. IdSpan - 1
  <2>1. r \in NodeFrames
    BY <1>1, TailFrames DEF TypeOK, NodeFrames
  <2>. QED BY <1>1, <2>1, FrameFields
<1>3. e \in Confirms /\ e.type = "confirm" /\ NodeAnswers(e)
  <2>1. more \in BOOLEAN
    OBVIOUS
  <2>2. e \in Confirms
    BY <1>2, <2>1 DEF Confirms
  <2>. QED BY <2>2, <1>1 DEF NodeAnswers
<1>4. toHost \in Seq(HostFrames) /\ e \in HostFrames
  BY <1>3 DEF TypeOK, HostFrames
<1>5. more => IndFrame(nextInd) \in Inds /\ IndFrame(nextInd).type = "ind"
  <2>1. more => nextInd \in 1 .. MaxInds
    BY Sizes DEF TypeOK
  <2>2. (nextInd < MaxInds) \in BOOLEAN
    OBVIOUS
  <2>. QED BY <2>1, <2>2 DEF Inds, IndFrame
<1>. HIDE DEF e, more
<1>6. toHost \o <<e>> = Append(toHost, e) /\ Append(toHost, e) \in Seq(HostFrames)
  BY <1>4, AppendIsConcat, AppendProperties
<1>7. CASE more
  <2>1. IndFrame(nextInd) \in HostFrames
    BY <1>5, <1>7 DEF HostFrames
  <2>2. toHost' = Append(Append(toHost, e), IndFrame(nextInd))
    BY <1>1, <1>6, <1>7, <2>1, AppendIsConcat
  <2>. QED BY <1>1, <1>2, <1>3, <1>5, <1>7, <2>2
<1>8. CASE ~more
  <2>1. toHost' = Append(toHost, e)
    BY <1>1, <1>6, <1>8, ConcatEmptySeq
  <2>. QED BY <1>1, <1>2, <1>3, <2>1
<1>. QED BY <1>7, <1>8

LEMMA Refused ==
  ASSUME TypeOK, NodeRefuses
  PROVE  /\ toNode # << >> /\ Head(toNode).type = "request" /\ toNode' = Tail(toNode)
         /\ Head(toNode).call \in Calls
         /\ UNCHANGED host /\ UNCHANGED history /\ UNCHANGED <<nextInd, queued, executed, faults>>
         /\ \E e \in Dummies : /\ e.type = "dummy" /\ toHost' = Append(toHost, e)
<1>1. Head(toNode).type = "request" /\ toNode # << >>
  BY DEF NodeRefuses
<1>2. Head(toNode) \in NodeFrames
  BY <1>1, TailFrames DEF TypeOK, NodeFrames
<1>3. Head(toNode).call \in Calls
  BY <1>1, <1>2, FrameFields
<1>. DEFINE e == [type |-> "dummy", call |-> Head(toNode).call]
<1>4. e \in Dummies /\ e.type = "dummy"
  BY <1>3 DEF Dummies
<1>5. toHost' = Append(toHost, e)
  BY DEF NodeRefuses
<1>. HIDE DEF e
<1>. QED BY <1>1, <1>3, <1>4, <1>5 DEF NodeRefuses

LEMMA Acknowledged ==
  ASSUME TypeOK, NodeTakesResponse
  PROVE  /\ toNode # << >> /\ Head(toNode).type = "response" /\ toNode' = Tail(toNode)
         /\ UNCHANGED host /\ UNCHANGED history /\ UNCHANGED <<queued, executed, faults>>
         /\ \/ UNCHANGED <<nextInd, toHost>>
            \/ /\ Head(toNode).ind = nextInd /\ nextInd' = nextInd + 1 /\ nextInd <= MaxInds
               /\ \/ UNCHANGED toHost
                  \/ \E f \in Inds : f.type = "ind" /\ toHost' = Append(toHost, f)
<1>1. /\ toNode # << >> /\ Head(toNode).type = "response" /\ toNode' = Tail(toNode)
      /\ UNCHANGED host /\ UNCHANGED history /\ UNCHANGED <<queued, executed, faults>>
  BY DEF NodeTakesResponse
<1>2. CASE Head(toNode).ind # nextInd
  BY <1>1, <1>2 DEF NodeTakesResponse
<1>3. CASE Head(toNode).ind = nextInd
  <2>1. Head(toNode) \in NodeFrames
    BY <1>1, TailFrames DEF TypeOK, NodeFrames
  <2>2. nextInd \in 1 .. MaxInds
    BY <1>1, <1>3, <2>1, FrameFields, Sizes DEF TypeOK
  <2>3. nextInd' = nextInd + 1
    BY <1>3 DEF NodeTakesResponse
  <2>4. CASE ~(Head(toNode).more /\ nextInd' <= MaxInds)
    BY <1>1, <1>3, <2>2, <2>3, <2>4 DEF NodeTakesResponse
  <2>5. CASE Head(toNode).more /\ nextInd' <= MaxInds
    <3>1. nextInd' \in 1 .. MaxInds /\ (nextInd' < MaxInds) \in BOOLEAN
      BY <2>2, <2>3, <2>5, Sizes
    <3>2. IndFrame(nextInd') \in Inds /\ IndFrame(nextInd').type = "ind"
      BY <3>1 DEF Inds, IndFrame
    <3>3. toHost' = Append(toHost, IndFrame(nextInd'))
      BY <1>3, <2>5 DEF NodeTakesResponse
    <3>. QED BY <1>1, <1>3, <2>2, <2>3, <3>2, <3>3
  <2>. QED BY <2>4, <2>5
<1>. QED BY <1>2, <1>3

\* A garbled request keeps what the model says of its origin.
LEMMA Garbling ==
  ASSUME TypeOK, RequestGarbled
  PROVE  /\ toNode # << >> /\ UNCHANGED toHost
         /\ \E e \in Requests : /\ SameRequest(e, toNode[Len(toNode)])
                                /\ toNode' = [toNode EXCEPT ![Len(toNode)] = e]
<1>1. toNode # << >> /\ toNode[Len(toNode)].type = "request" /\ UNCHANGED toHost
      /\ toNode' = [toNode EXCEPT ![Len(toNode)].ok = FALSE]
  BY DEF RequestGarbled, Last
<1>. DEFINE f == toNode[Len(toNode)]
            e == [f EXCEPT !.ok = FALSE]
<1>2. f \in Requests
  <2>1. Len(toNode) \in DOMAIN toNode
    BY <1>1, EmptySeq, LenProperties DEF TypeOK
  <2>2. f \in NodeFrames
    BY <2>1, ElementOfSeq, LenProperties DEF TypeOK, NodeFrames
  <2>. QED BY <1>1, <2>2, FrameFields
<1>3. e \in Requests /\ e.call = f.call /\ e.id = f.id /\ e.prim = f.prim
  BY <1>2 DEF Requests
<1>4. toNode' = [toNode EXCEPT ![Len(toNode)] = e]
  BY <1>1
<1>5. SameRequest(e, f)
  BY <1>1, <1>3 DEF SameRequest
<1>. HIDE DEF e
<1>. QED BY <1>1, <1>3, <1>4, <1>5

\* The steps one by one.
LEMMA Steps ==
  ASSUME [Next]_vars
  PROVE  \/ \E p \in Prims : Call(p)
         \/ TakeDummy \/ TakeGarbled \/ TimesOut \/ TakeOther \/ TakeConfirm
         \/ \E remaining \in BOOLEAN : AnswerIndication(remaining)
         \/ HandOver \/ IndicationFails \/ Spins
         \/ NodeExecutes \/ NodeRefuses \/ NodeTakesResponse
         \/ RequestLost \/ RequestGarbled \/ AnswerLost \/ AnswerGarbled
         \/ UNCHANGED vars
  BY DEF Next, HostStep, Node

\* What a step does to the frames on their way to the node.
LEMMA NodeLine ==
  ASSUME TypeOK, LoopInv, [Next]_vars
  PROVE  \/ UNCHANGED toNode
         \/ toNode # << >> /\ toNode' = Tail(toNode)
         \/ toNode # << >> /\ toNode' = AllButLast(toNode)
         \/ \E e \in NodeFrames : toNode' = Append(toNode, e) /\ HostWrites(e)
         \/ /\ toNode # << >>
            /\ \E e \in Requests : /\ SameRequest(e, toNode[Len(toNode)])
                                   /\ toNode' = [toNode EXCEPT ![Len(toNode)] = e]
<1>1. ASSUME NEW p \in Prims, Call(p)
      PROVE  UNCHANGED toNode \/ \E e \in NodeFrames : toNode' = Append(toNode, e) /\ HostWrites(e)
  BY <1>1, StartedCall DEF NodeFrames
<1>2. CASE TakeDummy
  BY <1>2, DummyTaken DEF NodeFrames
<1>3. ASSUME NEW remaining \in BOOLEAN, AnswerIndication(remaining)
      PROVE  UNCHANGED toNode \/ \E e \in NodeFrames : toNode' = Append(toNode, e) /\ HostWrites(e)
  BY <1>3, IndicationAnswered DEF NodeFrames
<1>4. CASE NodeExecutes \/ NodeRefuses \/ NodeTakesResponse
  BY <1>4 DEF NodeExecutes, NodeRefuses, NodeTakesResponse
<1>5. CASE RequestGarbled
  BY <1>5, Garbling
<1>6. CASE \/ TakeGarbled \/ TimesOut \/ TakeOther \/ TakeConfirm \/ IndicationFails \/ Spins
           \/ HandOver \/ RequestLost \/ AnswerLost \/ AnswerGarbled \/ UNCHANGED vars
  BY <1>6 DEF TakeGarbled, TimesOut, TakeOther, TakeConfirm, IndicationFails, Spins, HandOver,
              RequestLost, AnswerLost, AnswerGarbled, vars
<1>. QED BY <1>1, <1>2, <1>3, <1>4, <1>5, <1>6, Steps

\* What a step does to the frames on their way to the host.
LEMMA HostLine ==
  ASSUME TypeOK, LoopInv, [Next]_vars
  PROVE  \/ UNCHANGED toHost
         \/ toHost # << >> /\ toHost' = Tail(toHost)
         \/ toHost # << >> /\ toHost' = AllButLast(toHost)
         \/ /\ toNode # << >>
            /\ \E e \in HostFrames :
                 /\ NodeAnswers(e)
                 /\ \/ toHost' = Append(toHost, e)
                    \/ \E f \in Inds : f.type = "ind" /\ toHost' = Append(Append(toHost, e), f)
         \/ toHost # << >> /\ toHost' = [toHost EXCEPT ![Len(toHost)] = Garbled]
<1>1. ASSUME NEW p \in Prims, Call(p)
      PROVE  UNCHANGED toHost
  BY <1>1, StartedCall
<1>2. CASE TakeDummy \/ TakeGarbled \/ TakeOther \/ TakeConfirm \/ IndicationFails
  BY <1>2 DEF TakeDummy, TakeGarbled, TakeOther, TakeConfirm, IndicationFails, Taken, Waiting
<1>3. ASSUME NEW remaining \in BOOLEAN, AnswerIndication(remaining)
      PROVE  toHost # << >> /\ toHost' = Tail(toHost)
  BY <1>3, IndicationAnswered DEF Taken
<1>4. CASE NodeExecutes
  BY <1>4, Executed DEF HostFrames
<1>5. CASE NodeRefuses
  BY <1>5, Refused DEF HostFrames, NodeAnswers
<1>6. CASE NodeTakesResponse
  BY <1>6, Acknowledged DEF HostFrames, NodeAnswers
<1>7. CASE \/ TimesOut \/ Spins \/ HandOver \/ RequestLost \/ RequestGarbled \/ AnswerLost
           \/ AnswerGarbled \/ UNCHANGED vars
  BY <1>7 DEF TimesOut, Spins, HandOver, RequestLost, RequestGarbled, AnswerLost, AnswerGarbled, vars
<1>. QED BY <1>1, <1>2, <1>3, <1>4, <1>5, <1>6, <1>7, Steps

\* Where each frame on the line after a step comes from.
LEMMA LineTypes ==
  ASSUME TypeOK, LoopInv, [Next]_vars
  PROVE  /\ toNode' \in Seq(NodeFrames)
         /\ \A e \in Frames(toNode') : \/ e \in Frames(toNode) \/ HostWrites(e)
                                       \/ \E f \in Frames(toNode) : SameRequest(e, f)
         /\ toHost' \in Seq(HostFrames)
         /\ \A e \in Frames(toHost') :
              \/ e \in Frames(toHost) \/ e.type \in {"ind", "garbled"}
              \/ toNode # << >> /\ NodeAnswers(e)
<1>1. toNode \in Seq(NodeFrames) /\ toHost \in Seq(HostFrames)
  BY DEF TypeOK, NodeFrames, HostFrames
<1>2. /\ toNode' \in Seq(NodeFrames)
      /\ \A e \in Frames(toNode') : \/ e \in Frames(toNode) \/ HostWrites(e)
                                    \/ \E f \in Frames(toNode) : SameRequest(e, f)
  <2>1. CASE UNCHANGED toNode
    BY <1>1, <2>1
  <2>2. CASE toNode # << >> /\ (toNode' = Tail(toNode) \/ toNode' = AllButLast(toNode))
    BY <1>1, <2>2, TailFrames, LostFrames, ZenonT(40)
  <2>3. ASSUME NEW e \in NodeFrames, toNode' = Append(toNode, e), HostWrites(e)
        PROVE  /\ toNode' \in Seq(NodeFrames)
               /\ \A g \in Frames(toNode') : g \in Frames(toNode) \/ HostWrites(g)
    BY <1>1, <2>3, AppendFrames
  <2>4. ASSUME toNode # << >>, NEW e \in Requests, SameRequest(e, toNode[Len(toNode)]),
               toNode' = [toNode EXCEPT ![Len(toNode)] = e]
        PROVE  /\ toNode' \in Seq(NodeFrames)
               /\ \A g \in Frames(toNode') :
                    g \in Frames(toNode) \/ \E f \in Frames(toNode) : SameRequest(g, f)
    <3>1. e \in NodeFrames
      BY DEF NodeFrames
    <3>2. /\ toNode' \in Seq(NodeFrames) /\ Len(toNode) \in DOMAIN toNode
          /\ Frames(toNode') \subseteq Frames(toNode) \cup {e}
      BY <1>1, <2>4, <3>1, GarbledFrames
    <3>3. toNode[Len(toNode)] \in Frames(toNode)
      BY <3>2 DEF Frames
    <3>. QED BY <2>4, <3>2, <3>3
  <2>. QED BY <2>1, <2>2, <2>3, <2>4, NodeLine
<1>3. /\ toHost' \in Seq(HostFrames)
      /\ \A e \in Frames(toHost') : \/ e \in Frames(toHost) \/ e.type \in {"ind", "garbled"}
                                    \/ toNode # << >> /\ NodeAnswers(e)
  <2>1. CASE UNCHANGED toHost
    BY <1>1, <2>1
  <2>2. CASE toHost # << >> /\ (toHost' = Tail(toHost) \/ toHost' = AllButLast(toHost))
    BY <1>1, <2>2, TailFrames, LostFrames, ZenonT(40)
  <2>3. ASSUME toNode # << >>, NEW e \in HostFrames, NodeAnswers(e), toHost' = Append(toHost, e)
        PROVE  /\ toHost' \in Seq(HostFrames)
               /\ \A g \in Frames(toHost') : g \in Frames(toHost) \/ NodeAnswers(g)
    BY <1>1, <2>3, AppendFrames
  <2>4. ASSUME toNode # << >>, NEW e \in HostFrames, NodeAnswers(e),
               NEW f \in Inds, f.type = "ind", toHost' = Append(Append(toHost, e), f)
        PROVE  /\ toHost' \in Seq(HostFrames)
               /\ \A g \in Frames(toHost') : g \in Frames(toHost) \/ NodeAnswers(g) \/ g.type = "ind"
    <3>. DEFINE q == Append(toHost, e)
    <3>1. q \in Seq(HostFrames) /\ Frames(q) = Frames(toHost) \cup {e} /\ f \in HostFrames
      BY <1>1, AppendFrames DEF HostFrames
    <3>2. toHost' = Append(q, f)
      BY <2>4
    <3>. HIDE DEF q
    <3>3. toHost' \in Seq(HostFrames) /\ Frames(toHost') = Frames(q) \cup {f}
      BY <3>1, <3>2, AppendFrames
    <3>. QED BY <2>4, <3>1, <3>3
  <2>5. CASE toHost # << >> /\ toHost' = [toHost EXCEPT ![Len(toHost)] = Garbled]
    <3>1. Garbled \in HostFrames /\ Garbled.type = "garbled"
      BY DEF HostFrames, Garbled
    <3>2. toHost' \in Seq(HostFrames) /\ Frames(toHost') \subseteq Frames(toHost) \cup {Garbled}
      BY <1>1, <2>5, <3>1, GarbledFrames
    <3>. QED BY <3>1, <3>2
  <2>. QED BY <2>1, <2>2, <2>3, <2>4, <2>5, HostLine
<1>. QED BY <1>2, <1>3

\* The variables other than the two lines.
CountersOK ==
  /\ phase \in {"idle", "confirm", "indication", "handover", "spin"}
  /\ calls \in 0 .. MaxCalls /\ prim \in Prims
  /\ id \in 0 .. IdSpan - 1 /\ nextId \in 0 .. IdSpan - 1
  /\ attempt \in 0 .. MaxAttempts /\ retries \in 0 .. MaxRetries /\ left \in 0 .. MaxPoll
  /\ nextInd \in 1 .. MaxInds + 1 /\ queued \subseteq 1 .. MaxInds
  /\ executed \in [Calls -> Nat]
  /\ outcome \in [Calls -> {"none", "ok", "failed", "crcFromHost", "crc", "sync"}]
  /\ answer \in [Calls -> 0 .. MaxCalls] /\ garbage \subseteq Calls
  /\ faults \in 0 .. MaxFaults

SwitchesOK == linkOpen \in BOOLEAN /\ clean \in [Calls -> BOOLEAN]

HandOK == held \in Confirms \cup Inds \cup {NoFrame} /\ pending \in BOOLEAN

LEMMA TypeParts ==
  /\ TypeOK <=> /\ CountersOK /\ SwitchesOK /\ HandOK
                /\ toNode \in Seq(NodeFrames) /\ toHost \in Seq(HostFrames)
  /\ TypeOK' <=> /\ CountersOK' /\ SwitchesOK' /\ HandOK'
                 /\ toNode' \in Seq(NodeFrames) /\ toHost' \in Seq(HostFrames)
  BY DEF TypeOK, CountersOK, SwitchesOK, HandOK, NodeFrames, HostFrames

\* The id that follows is an id.
LEMMA FollowingIsId ==
  ASSUME NEW i \in 0 .. IdSpan - 1
  PROVE  /\ FollowingId(i) \in 0 .. IdSpan - 1
         /\ FollowingId(i) = IF i + 1 = IdSpan THEN 0 ELSE i + 1
<1>. i \in Nat /\ IdSpan \in Nat /\ IdSpan >= 1 /\ i + 1 <= IdSpan
  BY Sizes
<1>1. CASE i + 1 = IdSpan
  BY <1>1 DEF FollowingId
<1>2. CASE i + 1 < IdSpan
  BY <1>2 DEF FollowingId
<1>. QED BY <1>1, <1>2

\* The steps that are no call, no write and no node's.
LEMMA QuietSteps ==
  ASSUME TypeOK, LoopInv, TakeGarbled \/ TimesOut \/ IndicationFails \/ Spins \/ TakeOther \/ TakeConfirm
  PROVE  /\ phase \in {"confirm", "indication"} /\ calls \in Calls /\ UNCHANGED linkOpen
         /\ UNCHANGED <<held, pending>>
         /\ UNCHANGED <<calls, prim, id, nextId, retries, left, toNode, nextInd,
                        queued, executed, clean, garbage, faults>>
         /\ \/ phase = "confirm" /\ UNCHANGED <<phase, outcome>>
            \/ phase' = "spin" /\ UNCHANGED outcome
            \/ /\ phase' = "indication" /\ phase = "confirm" /\ UNCHANGED outcome
               /\ TakeConfirm /\ prim = "poll"
            \/ \E r \in {"failed", "crc", "sync", "ok"} : Returns(r)
         /\ \/ UNCHANGED attempt
            \/ /\ phase = "confirm" /\ attempt' = attempt + 1
               /\ UNCHANGED <<phase, outcome>> => attempt' < MaxAttempts
         /\ \/ UNCHANGED answer
            \/ /\ TakeConfirm /\ phase = "confirm"
               /\ toHost # << >> /\ Head(toHost).type = "confirm" /\ Matches(Head(toHost))
               /\ answer' = [answer EXCEPT ![calls] = Head(toHost).call]
<1>1. CASE TakeGarbled
  BY <1>1 DEF TakeGarbled, Waiting, LoopInv, hand
<1>2. CASE TimesOut
  BY <1>2 DEF TimesOut, LoopInv, hand
<1>3. CASE IndicationFails
  BY <1>3 DEF IndicationFails, LoopInv, hand
<1>4. CASE Spins
  BY <1>4 DEF Spins, LoopInv, history, hand
<1>5. CASE TakeOther
  <2>1. /\ phase = "confirm" /\ attempt' = attempt + 1 /\ UNCHANGED answer
        /\ \/ attempt' < MaxAttempts /\ UNCHANGED <<phase, outcome>>
           \/ Returns("sync")
        /\ UNCHANGED <<calls, prim, id, nextId, retries, left, linkOpen, toNode, nextInd,
                       queued, executed, clean, garbage, faults>>
        /\ UNCHANGED <<held, pending>>
    BY <1>5 DEF TakeOther, Waiting, hand
  <2>2. Returns("sync") => phase' # phase
    BY <2>1 DEF Returns
  <2>3. calls \in Calls
    BY <2>1 DEF LoopInv
  <2>. QED BY <2>1, <2>2, <2>3
<1>6. CASE TakeConfirm
  BY <1>6 DEF TakeConfirm, Waiting, LoopInv, hand
<1>. QED BY <1>1, <1>2, <1>3, <1>4, <1>5, <1>6

\* A step of the node or of the line changes neither the host nor its history.
LEMMA OtherSteps ==
  ASSUME \/ NodeExecutes \/ NodeRefuses \/ NodeTakesResponse \/ RequestLost \/ RequestGarbled
         \/ AnswerLost \/ AnswerGarbled \/ UNCHANGED vars
  PROVE  /\ UNCHANGED <<phase, calls, prim, id, nextId, attempt, left, queued, outcome, answer>>
         /\ UNCHANGED <<held, pending>> /\ UNCHANGED clean /\ UNCHANGED garbage
  BY DEF NodeExecutes, NodeRefuses, NodeTakesResponse, RequestLost, RequestGarbled, AnswerLost,
         AnswerGarbled, LineFault, vars, host, hand, history

LEMMA SwitchesNext ==
  ASSUME TypeOK, LoopInv, [Next]_vars
  PROVE  SwitchesOK'
<1>. SwitchesOK
  BY TypeParts
<1>1. ASSUME NEW p \in Prims, Call(p)
      PROVE  SwitchesOK'
  <2>1. clean' = [clean EXCEPT ![calls'] = (toNode = << >> /\ toHost = << >>)]
        /\ linkOpen' \in BOOLEAN
    BY <1>1, StartedCall
  <2>2. (toNode = << >> /\ toHost = << >>) \in BOOLEAN
    OBVIOUS
  <2>. QED BY <2>1, <2>2 DEF SwitchesOK
<1>2. CASE TakeDummy
  <2>1. UNCHANGED clean /\ linkOpen' \in BOOLEAN
    BY <1>2, DummyTaken
  <2>. QED BY <2>1 DEF SwitchesOK
<1>3. ASSUME NEW remaining \in BOOLEAN, AnswerIndication(remaining)
      PROVE  SwitchesOK'
  <2>1. UNCHANGED clean /\ linkOpen' \in BOOLEAN
    BY <1>3, IndicationAnswered
  <2>. QED BY <2>1 DEF SwitchesOK
<1>4. CASE TakeGarbled \/ TimesOut \/ IndicationFails \/ Spins \/ TakeOther \/ TakeConfirm \/ HandOver
  <2>1. UNCHANGED clean /\ UNCHANGED linkOpen
    BY <1>4, QuietSteps, HandedOver
  <2>. QED BY <2>1 DEF SwitchesOK
<1>5. CASE \/ NodeExecutes \/ NodeRefuses \/ NodeTakesResponse
           \/ RequestLost \/ RequestGarbled \/ AnswerLost \/ AnswerGarbled \/ UNCHANGED vars
  <2>1. UNCHANGED clean /\ UNCHANGED linkOpen
    BY <1>5 DEF NodeExecutes, NodeRefuses, NodeTakesResponse, RequestLost, RequestGarbled, AnswerLost,
                AnswerGarbled, LineFault, vars, host, history
  <2>. QED BY <2>1 DEF SwitchesOK
<1>. QED BY <1>1, <1>2, <1>3, <1>4, <1>5, Steps

LEMMA HandNext ==
  ASSUME TypeOK, LoopInv, [Next]_vars
  PROVE  HandOK'
<1>. HandOK
  BY TypeParts
<1>1. ASSUME NEW p \in Prims, Call(p)
      PROVE  UNCHANGED <<held, pending>>
  BY <1>1, StartedCall
<1>2. CASE TakeDummy
  BY <1>2, DummyTaken DEF HandOK
<1>3. CASE TakeGarbled \/ TimesOut \/ IndicationFails \/ Spins \/ TakeOther \/ TakeConfirm
  BY <1>3, QuietSteps DEF HandOK
<1>4. ASSUME NEW remaining \in BOOLEAN, AnswerIndication(remaining)
      PROVE  HandOK'
  BY <1>4, IndicationAnswered DEF HandOK
<1>5. CASE HandOver
  BY <1>5, HandedOver DEF HandOK
<1>6. CASE \/ NodeExecutes \/ NodeRefuses \/ NodeTakesResponse \/ RequestLost \/ RequestGarbled
           \/ AnswerLost \/ AnswerGarbled \/ UNCHANGED vars
  BY <1>6, OtherSteps DEF HandOK
<1>. QED BY <1>1, <1>2, <1>3, <1>4, <1>5, <1>6, Steps DEF HandOK

LEMMA CountersNext ==
  ASSUME TypeOK, LoopInv, [Next]_vars
  PROVE  CountersOK'
<1>. CountersOK
  BY TypeParts
<1>1. ASSUME NEW p \in Prims, Call(p)
      PROVE  CountersOK'
  <2>. USE <1>1
  <2>0. calls' \in Calls /\ prim' = p
    BY StartedCall
  <2>1. calls' \in Calls /\ calls' \in 0 .. MaxCalls /\ prim' \in Prims
    BY <2>0, Sizes DEF Calls
  <2>2. id' \in 0 .. IdSpan - 1 /\ nextId' \in 0 .. IdSpan - 1
    BY StartedCall, FollowingIsId DEF CountersOK
  <2>3. attempt' \in 0 .. MaxAttempts /\ retries' \in 0 .. MaxRetries /\ left' \in 0 .. MaxPoll
    <3>1. attempt' = 0 /\ retries' = 0 /\ (left' = MaxPoll \/ left' = 0)
      BY StartedCall
    <3>. QED BY <3>1, Sizes
  <2>5. /\ phase' \in {"idle", "confirm"} /\ faults' \in 0 .. MaxFaults
        /\ outcome' \in [Calls -> {"none", "ok", "failed", "crcFromHost", "crc", "sync"}]
    <3>1. \/ phase' = "confirm" /\ UNCHANGED outcome /\ UNCHANGED faults
          \/ /\ phase' = "idle" /\ outcome' = [outcome EXCEPT ![calls'] = "failed"]
             /\ faults' = faults + 1 /\ faults < MaxFaults
      BY StartedCall
    <3>. QED BY <3>1, <2>1, Sizes DEF CountersOK
  <2>6. UNCHANGED <<nextInd, queued, executed, answer, garbage>>
    BY StartedCall
  <2>. QED BY <2>1, <2>2, <2>3, <2>5, <2>6 DEF CountersOK
<1>2. CASE TakeDummy
  <2>0. /\ phase = "confirm"
        /\ UNCHANGED <<calls, prim, id, nextId, attempt, left, nextInd, queued, executed,
                       answer, garbage>>
        /\ \/ retries < MaxRetries /\ retries' = retries + 1
           \/ UNCHANGED retries
        /\ \/ UNCHANGED <<phase, outcome>>
           \/ \E r \in {"failed", "crcFromHost"} : Returns(r)
        /\ \/ faults' = faults + 1 /\ faults < MaxFaults
           \/ UNCHANGED faults
    BY <1>2, DummyTaken
  <2>1. calls \in Calls /\ retries' \in 0 .. MaxRetries /\ faults' \in 0 .. MaxFaults
    BY <2>0, Sizes DEF LoopInv, CountersOK
  <2>2. /\ phase' \in {"idle", "confirm", "indication", "handover", "spin"}
        /\ outcome' \in [Calls -> {"none", "ok", "failed", "crcFromHost", "crc", "sync"}]
    BY <2>0, <2>1 DEF CountersOK, Returns
  <2>. QED BY <2>0, <2>1, <2>2 DEF CountersOK
<1>3. CASE TakeGarbled \/ TimesOut \/ IndicationFails \/ Spins \/ TakeOther \/ TakeConfirm
  <2>1. attempt' \in 0 .. MaxAttempts
    BY <1>3, QuietSteps, Sizes DEF CountersOK, LoopInv
  <2>2. answer' \in [Calls -> 0 .. MaxCalls]
    <3>1. CASE UNCHANGED answer
      BY <3>1 DEF CountersOK
    <3>2. CASE /\ toHost # << >> /\ Head(toHost).type = "confirm"
               /\ answer' = [answer EXCEPT ![calls] = Head(toHost).call]
      <4>1. Head(toHost) \in HostFrames
        BY <3>2, TailFrames, TypeParts
      <4>2. Head(toHost).call \in 0 .. MaxCalls
        BY <3>2, <4>1, FrameFields, Sizes DEF Calls
      <4>. QED BY <3>2, <4>2 DEF CountersOK
    <3>. QED BY <1>3, QuietSteps, <3>1, <3>2
  <2>3. /\ phase' \in {"idle", "confirm", "indication", "handover", "spin"}
        /\ outcome' \in [Calls -> {"none", "ok", "failed", "crcFromHost", "crc", "sync"}]
    BY <1>3, QuietSteps DEF CountersOK, Returns
  <2>4. UNCHANGED <<calls, prim, id, nextId, retries, left, nextInd, queued, executed, garbage, faults>>
    BY <1>3, QuietSteps
  <2>. QED BY <2>1, <2>2, <2>3, <2>4 DEF CountersOK
<1>6. ASSUME NEW remaining \in BOOLEAN, AnswerIndication(remaining)
      PROVE  CountersOK'
  <2>1. /\ phase = "indication" /\ phase' = "handover" /\ left' = left - 1
        /\ UNCHANGED <<calls, prim, id, nextId, attempt, retries, nextInd, queued, executed>>
        /\ UNCHANGED <<outcome, answer, garbage>>
        /\ UNCHANGED faults \/ (faults' = faults + 1 /\ faults < MaxFaults)
    BY <1>6, IndicationAnswered
  <2>2. left' \in 0 .. MaxPoll /\ faults' \in 0 .. MaxFaults
    BY <2>1, Sizes DEF LoopInv, CountersOK
  <2>. QED BY <2>1, <2>2 DEF CountersOK
<1>12. CASE HandOver
  <2>1. /\ calls \in Calls
        /\ UNCHANGED <<calls, prim, id, nextId, attempt, retries, left, nextInd, executed, answer,
                       faults>>
        /\ queued' = queued \cup InHand /\ InHand \subseteq 1 .. MaxInds
        /\ UNCHANGED garbage \/ garbage' = garbage \cup {calls}
        /\ (phase' = "indication" /\ UNCHANGED outcome) \/ Returns("ok")
    BY <1>12, HandedOver
  <2>2. /\ phase' \in {"idle", "confirm", "indication", "handover", "spin"}
        /\ outcome' \in [Calls -> {"none", "ok", "failed", "crcFromHost", "crc", "sync"}]
    BY <2>1 DEF CountersOK, Returns
  <2>. QED BY <2>1, <2>2 DEF CountersOK
<1>7. CASE NodeExecutes
  <2>1. /\ executed' = [executed EXCEPT ![Head(toNode).call] = @ + 1] /\ Head(toNode).call \in Calls
        /\ UNCHANGED host /\ UNCHANGED history /\ UNCHANGED <<nextInd, queued, faults>>
    BY <1>7, Executed
  <2>2. executed' \in [Calls -> Nat]
    BY <2>1 DEF CountersOK
  <2>. QED BY <2>1, <2>2 DEF CountersOK, host, history
<1>8. CASE NodeRefuses
  <2>1. UNCHANGED host /\ UNCHANGED history /\ UNCHANGED <<nextInd, queued, executed, faults>>
    BY <1>8, Refused
  <2>. QED BY <2>1 DEF CountersOK, host, history
<1>9. CASE NodeTakesResponse
  <2>1. /\ UNCHANGED host /\ UNCHANGED history /\ UNCHANGED <<queued, executed, faults>>
        /\ UNCHANGED nextInd \/ (nextInd' = nextInd + 1 /\ nextInd <= MaxInds)
    BY <1>9, Acknowledged
  <2>2. nextInd' \in 1 .. MaxInds + 1
    BY <2>1, Sizes DEF CountersOK
  <2>. QED BY <2>1, <2>2 DEF CountersOK, host, history
<1>10. CASE RequestLost \/ RequestGarbled \/ AnswerLost \/ AnswerGarbled
  <2>1. UNCHANGED <<host, nextInd, queued, executed, history>> /\ faults < MaxFaults /\ faults' = faults + 1
    BY <1>10 DEF RequestLost, RequestGarbled, AnswerLost, AnswerGarbled, LineFault
  <2>2. faults' \in 0 .. MaxFaults
    BY <2>1, Sizes DEF CountersOK
  <2>. QED BY <2>1, <2>2 DEF CountersOK, host, history
<1>11. CASE UNCHANGED vars
  BY <1>11 DEF CountersOK, vars, host, history
<1>. QED BY <1>1, <1>2, <1>3, <1>6, <1>7, <1>8, <1>9, <1>10, <1>11, <1>12, Steps

LEMMA TypeNext ==
  ASSUME TypeOK, LoopInv, [Next]_vars
  PROVE  TypeOK'
  BY SwitchesNext, CountersNext, HandNext, LineTypes, TypeParts

----------------------------------------------------------------------------
(* The loops                                                               *)

LEMMA LoopNext ==
  ASSUME TypeOK, LoopInv, FutureInv, [Next]_vars
  PROVE  LoopInv'
<1>. CountersOK
  BY TypeParts
<1>1. ASSUME NEW p \in Prims, Call(p)
      PROVE  LoopInv'
  <2>. USE <1>1
  <2>1. CASE phase' = "idle"
    BY <2>1 DEF LoopInv
  <2>2. CASE phase' = "confirm" /\ UNCHANGED outcome
    <3>1. /\ calls' \in Calls /\ calls' = calls + 1 /\ attempt' = 0 /\ prim' = p
          /\ left' = (IF p = "poll" THEN MaxPoll ELSE 0)
      BY StartedCall
    <3>2. outcome[calls'] = "none"
      BY <3>1, Sizes DEF FutureInv, CountersOK
    <3>. QED BY <2>2, <3>1, <3>2, Sizes DEF LoopInv
  <2>. QED BY <2>1, <2>2, StartedCall
<1>2. CASE TakeDummy
  <2>1. /\ phase = "confirm" /\ UNCHANGED <<calls, prim, attempt, left>>
        /\ UNCHANGED <<phase, outcome>> \/ phase' = "idle"
    BY <1>2, DummyTaken DEF Returns
  <2>. QED BY <2>1 DEF LoopInv
<1>3. CASE TakeGarbled \/ TimesOut \/ IndicationFails \/ Spins \/ TakeOther \/ TakeConfirm
  <2>1. /\ phase # "idle" /\ UNCHANGED <<calls, prim, left>>
        /\ \/ phase = "confirm" /\ UNCHANGED <<phase, outcome>>
           \/ phase' = "spin" /\ UNCHANGED outcome
           \/ phase' = "indication" /\ phase = "confirm" /\ UNCHANGED outcome /\ prim = "poll"
           \/ phase' = "idle"
        /\ \/ UNCHANGED attempt
           \/ UNCHANGED <<phase, outcome>> => attempt' < MaxAttempts
    BY <1>3, QuietSteps DEF Returns
  <2>. QED BY <2>1 DEF LoopInv
<1>4. ASSUME NEW remaining \in BOOLEAN, AnswerIndication(remaining)
      PROVE  LoopInv'
  <2>1. /\ phase = "indication" /\ phase' = "handover" /\ UNCHANGED <<calls, outcome>>
        /\ held' = Head(toHost) /\ Head(toHost).type \in {"ind", "confirm"}
    BY <1>4, IndicationAnswered
  <2>2. held' # NoFrame
    BY <2>1 DEF NoFrame
  <2>. QED BY <2>1, <2>2 DEF LoopInv
<1>6. CASE HandOver
  <2>1. /\ phase = "handover" /\ UNCHANGED <<calls, left>>
        /\ \/ left > 0 /\ phase' = "indication" /\ UNCHANGED outcome
           \/ phase' = "idle"
    BY <1>6, HandedOver DEF Returns
  <2>. QED BY <2>1 DEF LoopInv
<1>5. CASE \/ NodeExecutes \/ NodeRefuses \/ NodeTakesResponse \/ RequestLost \/ RequestGarbled
           \/ AnswerLost \/ AnswerGarbled \/ UNCHANGED vars
  BY <1>5, OtherSteps DEF LoopInv
<1>. QED BY <1>1, <1>2, <1>3, <1>4, <1>5, <1>6, Steps

----------------------------------------------------------------------------
(* Frame ids                                                               *)

\* What a step other than a call leaves alone.
LEMMA CallOrNot ==
  ASSUME TypeOK, LoopInv, [Next]_vars
  PROVE  (\E p \in Prims : Call(p)) \/ UNCHANGED <<calls, prim, id, nextId>>
<1>1. CASE TakeDummy
  BY <1>1, DummyTaken
<1>2. CASE TakeGarbled \/ TimesOut \/ IndicationFails \/ Spins \/ TakeOther \/ TakeConfirm
  BY <1>2, QuietSteps
<1>3. ASSUME NEW remaining \in BOOLEAN, AnswerIndication(remaining)
      PROVE  UNCHANGED <<calls, prim, id, nextId>>
  BY <1>3, IndicationAnswered
<1>5. CASE HandOver
  BY <1>5, HandedOver
<1>4. CASE \/ NodeExecutes \/ NodeRefuses \/ NodeTakesResponse \/ RequestLost \/ RequestGarbled
           \/ AnswerLost \/ AnswerGarbled \/ UNCHANGED vars
  BY <1>4, OtherSteps
<1>. QED BY <1>1, <1>2, <1>3, <1>4, <1>5, Steps

\* A call makes the frames on the line one call older, and their ids with them.
LEMMA RecentOlder ==
  ASSUME TypeOK, IdInv, NEW p \in Prims, Call(p),
         NEW f, f.call \in Calls, Recent(f), f.call \in InFlight
  PROVE  Recent(f)'
<1>1. /\ calls \in Nat /\ id \in Nat /\ id <= IdSpan - 1 /\ f.call \in Nat /\ f.call >= 1 /\ IdSpan \in Nat
  BY Sizes DEF TypeOK, Calls
<1>2. calls' = calls + 1 /\ id' = nextId /\ calls + 1 - f.call < IdSpan
  BY StartedCall
<1>3. calls # 0 /\ f.call <= calls
  BY <1>1 DEF Recent
<1>4. id' = IF id + 1 = IdSpan THEN 0 ELSE id + 1
  BY <1>1, <1>2, <1>3, FollowingIsId DEF IdInv, TypeOK
<1>. DEFINE d == calls - f.call
<1>5. d \in Nat /\ d + 1 < IdSpan /\ f.id = IF d <= id THEN id - d ELSE id - d + IdSpan
  BY <1>1, <1>2, <1>3 DEF Recent, IdBefore
<1>6. calls' - f.call = d + 1 /\ f.call <= calls' /\ f.call # calls'
  BY <1>1, <1>2, <1>3
<1>7. f.id = IF d + 1 <= id' THEN id' - (d + 1) ELSE id' - (d + 1) + IdSpan
  <2>. HIDE DEF d
  <2>1. CASE id + 1 = IdSpan
    <3>1. id' = 0 /\ d <= id /\ f.id = id - d
      BY <1>1, <1>4, <1>5, <2>1
    <3>. QED BY <1>1, <1>5, <2>1, <3>1
  <2>2. CASE id + 1 # IdSpan
    <3>1. id' = id + 1
      BY <1>4, <2>2
    <3>. QED BY <1>1, <1>5, <3>1
  <2>. QED BY <2>1, <2>2
<1>8. f.id = IdBefore(calls - f.call)'
  BY <1>6, <1>7 DEF IdBefore
<1>. HIDE DEF d
<1>. QED BY <1>1, <1>2, <1>5, <1>6, <1>8 DEF Recent

\* The current request is recent.
LEMMA RecentNew ==
  ASSUME TypeOK', NEW f, f.call = calls', f.id = id', f.prim = prim'
  PROVE  Recent(f)'
<1>1. /\ calls' \in Nat /\ id' \in Nat /\ IdSpan \in Nat /\ IdSpan >= 1
      /\ f.call \in Nat /\ f.call = calls'
  BY Sizes DEF TypeOK
<1>2. ASSUME NEW n \in Nat, NEW m \in Nat, NEW i \in Nat, n = m
      PROVE  /\ m <= n /\ n - m < IdSpan
             /\ i = IF n - m <= i THEN i - (n - m) ELSE i - (n - m) + IdSpan
  BY <1>1, <1>2
<1>3. /\ f.call <= calls' /\ calls' - f.call < IdSpan
      /\ f.id = IF calls' - f.call <= id' THEN id' - (calls' - f.call)
                ELSE id' - (calls' - f.call) + IdSpan
  BY <1>1, <1>2, Zenon
<1>4. f.id = IdBefore(calls - f.call)'
  BY <1>3 DEF IdBefore
<1>. QED BY <1>3, <1>4 DEF Recent

\* A frame that copies what identifies a request is as recent.
LEMMA RecentCopy ==
  ASSUME NEW f, NEW e, Recent(f), e.call = f.call, e.id = f.id, e.prim = f.prim
  PROVE  Recent(e)
  BY DEF Recent

LEMMA InFlightFrames ==
  /\ \A f \in Frames(toNode) : f.type = "request" => f.call \in InFlight
  /\ \A f \in Frames(toHost) : f.type = "confirm" => f.call \in InFlight
  BY DEF Frames, InFlight

LEMMA FramesTyped ==
  ASSUME TypeOK
  PROVE  /\ \A f \in Frames(toNode) : f \in NodeFrames /\ (f.type = "request" => f.call \in Calls)
         /\ \A f \in Frames(toHost) : f \in HostFrames /\ (f.type = "confirm" => f.call \in Calls)
<1>1. Frames(toNode) \subseteq NodeFrames /\ Frames(toHost) \subseteq HostFrames
  BY TypeParts, SeqFrames
<1>. QED BY <1>1, FrameFields

\* The frames on the line stay as recent as they were, or become older.
LEMMA RecentStays ==
  ASSUME TypeOK, LoopInv, IdInv, [Next]_vars
  PROVE  /\ \A f \in Frames(toNode) : f.type = "request" => Recent(f)'
         /\ \A f \in Frames(toHost) : f.type = "confirm" => Recent(f)'
<1>1. ASSUME NEW p \in Prims, Call(p)
      PROVE  /\ \A f \in Frames(toNode) : f.type = "request" => Recent(f)'
             /\ \A f \in Frames(toHost) : f.type = "confirm" => Recent(f)'
  <2>1. ASSUME NEW f \in Frames(toNode), f.type = "request"
        PROVE  Recent(f)'
    BY <1>1, <2>1, RecentOlder, InFlightFrames, FramesTyped DEF IdInv
  <2>2. ASSUME NEW f \in Frames(toHost), f.type = "confirm"
        PROVE  Recent(f)'
    BY <1>1, <2>2, RecentOlder, InFlightFrames, FramesTyped DEF IdInv
  <2>. QED BY <2>1, <2>2
<1>2. CASE UNCHANGED <<calls, prim, id, nextId>>
  BY <1>2 DEF IdInv, Recent, IdBefore
<1>. QED BY <1>1, <1>2, CallOrNot

LEMMA IdNext ==
  ASSUME TypeOK, LoopInv, IdInv, [Next]_vars
  PROVE  IdInv'
<1>1. nextId' = IF calls' = 0 THEN 0 ELSE FollowingId(id')
  <2>1. ASSUME NEW p \in Prims, Call(p)
        PROVE  nextId' = FollowingId(id') /\ calls' # 0
    <3>1. calls' \in Calls /\ id' = nextId /\ nextId' = FollowingId(nextId)
      BY <2>1, StartedCall
    <3>. QED BY <3>1, Sizes DEF Calls
  <2>2. CASE UNCHANGED <<calls, prim, id, nextId>>
    BY <2>2 DEF IdInv, FollowingId
  <2>. QED BY <2>1, <2>2, CallOrNot
<1>. TypeOK'
  BY TypeNext
<1>2. ASSUME NEW e \in Frames(toNode'), e.type = "request"
      PROVE  Recent(e)'
  <2>1. CASE e \in Frames(toNode)
    BY <1>2, <2>1, RecentStays
  <2>2. CASE HostWrites(e)
    <3>1. e.type # "response"
      BY <1>2
    <3>. QED BY <2>2, <3>1, RecentNew DEF HostWrites
  <2>3. ASSUME NEW f \in Frames(toNode), SameRequest(e, f)
        PROVE  Recent(e)'
    <3>1. Recent(f)'
      BY <2>3, RecentStays DEF SameRequest
    <3>. QED BY <2>3, <3>1 DEF SameRequest, Recent
  <2>. QED BY <2>1, <2>2, <2>3, LineTypes
<1>3. ASSUME NEW e \in Frames(toHost'), e.type = "confirm"
      PROVE  Recent(e)'
  <2>1. CASE e \in Frames(toHost)
    BY <1>3, <2>1, RecentStays
  <2>2. CASE toNode # << >> /\ NodeAnswers(e)
    <3>1. Head(toNode) \in Frames(toNode)
      BY <2>2, TailFrames, TypeParts
    <3>2. /\ Head(toNode).type = "request"
          /\ e.call = Head(toNode).call /\ e.id = Head(toNode).id /\ e.prim = Head(toNode).prim
      BY <1>3, <2>2 DEF NodeAnswers
    <3>3. PICK f \in Frames(toNode) :
             f.type = "request" /\ e.call = f.call /\ e.id = f.id /\ e.prim = f.prim
      BY <3>1, <3>2
    <3>4. Recent(f)'
      BY <3>3, RecentStays
    <3>. QED BY <3>3, <3>4 DEF Recent
  <2>3. ~(e.type \in {"ind", "garbled"})
    BY <1>3
  <2>. QED BY <2>1, <2>2, <2>3, LineTypes
<1>4. (Frames(toNode))' = Frames(toNode') /\ (Frames(toHost))' = Frames(toHost')
  BY DEF Frames
<1>. QED BY <1>1, <1>2, <1>3, <1>4 DEF IdInv

\* A confirm that matches the current request is an answer to it.
LEMMA MatchIsOwn ==
  ASSUME TypeOK, IdInv, NEW f \in Frames(toHost), Matches(f)
  PROVE  f.call = calls
<1>1. /\ calls \in Nat /\ id \in Nat /\ id <= IdSpan - 1 /\ f.call \in Nat /\ IdSpan \in Nat
  BY FramesTyped, Sizes DEF TypeOK, Calls, Matches
<1>2. Recent(f) /\ f.id = id
  BY DEF IdInv, Matches
<1>. DEFINE d == calls - f.call
<1>3. d \in Nat /\ d < IdSpan /\ id = IF d <= id THEN id - d ELSE id - d + IdSpan
  BY <1>1, <1>2 DEF Recent, IdBefore
<1>4. d = 0
  <2>. HIDE DEF d
  <2>. QED BY <1>1, <1>3
<1>. QED BY <1>1, <1>4

LEMMA AnswerNext ==
  ASSUME TypeOK, LoopInv, IdInv, AnswerIsOwn, [Next]_vars
  PROVE  AnswerIsOwn'
<1>. CountersOK
  BY TypeParts
<1>1. UNCHANGED answer \/ answer' = [answer EXCEPT ![calls] = calls]
  <2>1. ASSUME NEW p \in Prims, Call(p)
        PROVE  UNCHANGED answer
    BY <2>1, StartedCall
  <2>2. CASE TakeDummy
    BY <2>2, DummyTaken
  <2>3. CASE TakeGarbled \/ TimesOut \/ IndicationFails \/ Spins \/ TakeOther \/ TakeConfirm
    <3>1. CASE /\ toHost # << >> /\ Matches(Head(toHost))
               /\ answer' = [answer EXCEPT ![calls] = Head(toHost).call]
      <4>1. Head(toHost) \in Frames(toHost)
        BY <3>1, TailFrames, TypeParts
      <4>2. Head(toHost).call = calls
        BY <3>1, <4>1, MatchIsOwn
      <4>. QED BY <3>1, <4>2
    <3>. QED BY <2>3, <3>1, QuietSteps
  <2>4. ASSUME NEW remaining \in BOOLEAN, AnswerIndication(remaining)
        PROVE  UNCHANGED answer
    BY <2>4, IndicationAnswered
  <2>6. CASE HandOver
    BY <2>6, HandedOver
  <2>5. CASE \/ NodeExecutes \/ NodeRefuses \/ NodeTakesResponse \/ RequestLost \/ RequestGarbled
             \/ AnswerLost \/ AnswerGarbled \/ UNCHANGED vars
    BY <2>5, OtherSteps
  <2>. QED BY <2>1, <2>2, <2>3, <2>4, <2>5, <2>6, Steps
<1>. QED BY <1>1 DEF AnswerIsOwn, CountersOK

----------------------------------------------------------------------------
(* Indications and their answers                                           *)

LEMMA AnsweredNext ==
  ASSUME TypeOK, LoopInv, AnsweredInv, [Next]_vars
  PROVE  AnsweredInv'
<1>. CountersOK
  BY TypeParts
<1>1. queued \cup InHand \subseteq queued' \cup InHand'
  <2>1. ASSUME NEW p \in Prims, Call(p)
        PROVE  UNCHANGED queued /\ InHand = {}
    BY <2>1, StartedCall DEF InHand
  <2>2. CASE TakeDummy
    BY <2>2, DummyTaken DEF InHand
  <2>3. CASE TakeGarbled \/ TimesOut \/ IndicationFails \/ Spins \/ TakeOther \/ TakeConfirm
    BY <2>3, QuietSteps DEF InHand
  <2>4. ASSUME NEW remaining \in BOOLEAN, AnswerIndication(remaining)
        PROVE  UNCHANGED queued /\ InHand = {}
    BY <2>4, IndicationAnswered DEF InHand
  <2>5. CASE HandOver
    BY <2>5, HandedOver
  <2>6. CASE \/ NodeExecutes \/ NodeRefuses \/ NodeTakesResponse \/ RequestLost \/ RequestGarbled
             \/ AnswerLost \/ AnswerGarbled \/ UNCHANGED vars
    BY <2>6, OtherSteps DEF InHand
  <2>. QED BY <2>1, <2>2, <2>3, <2>4, <2>5, <2>6, Steps
<1>2. UNCHANGED nextInd \/ (nextInd' = nextInd + 1 /\ nextInd \in queued \cup InHand)
  <2>1. ASSUME NEW p \in Prims, Call(p)
        PROVE  UNCHANGED nextInd
    BY <2>1, StartedCall
  <2>2. CASE TakeDummy
    BY <2>2, DummyTaken
  <2>3. CASE TakeGarbled \/ TimesOut \/ IndicationFails \/ Spins \/ TakeOther \/ TakeConfirm
    BY <2>3, QuietSteps
  <2>4. ASSUME NEW remaining \in BOOLEAN, AnswerIndication(remaining)
        PROVE  UNCHANGED nextInd
    BY <2>4, IndicationAnswered
  <2>5. CASE NodeTakesResponse
    <3>1. toNode # << >> /\ Head(toNode).type = "response" /\ Head(toNode) \in Frames(toNode)
      BY <2>5, Acknowledged, TailFrames, TypeParts
    <3>2. Head(toNode).ind # 0 => Head(toNode).ind \in queued \cup InHand
      BY <3>1 DEF AnsweredInv
    <3>3. nextInd # 0
      BY Sizes DEF CountersOK
    <3>. QED BY <2>5, <3>2, <3>3, Acknowledged
  <2>7. CASE HandOver
    BY <2>7, HandedOver
  <2>6. CASE \/ NodeExecutes \/ NodeRefuses \/ RequestLost \/ RequestGarbled
             \/ AnswerLost \/ AnswerGarbled \/ UNCHANGED vars
    BY <2>6 DEF NodeExecutes, NodeRefuses, RequestLost, RequestGarbled, AnswerLost, AnswerGarbled,
                LineFault, vars
  <2>. QED BY <2>1, <2>2, <2>3, <2>4, <2>5, <2>6, <2>7, Steps
<1>3. AcknowledgedIsQueued'
  <2>1. nextInd \in Nat /\ nextInd >= 1
    BY Sizes DEF CountersOK
  <2>. QED BY <1>1, <1>2, <2>1 DEF AnsweredInv, AcknowledgedIsQueued
<1>4. ASSUME NEW f \in Frames(toNode'), f.type = "response", f.ind # 0
      PROVE  f.ind \in queued' \cup InHand'
  <2>1. CASE f \in Frames(toNode)
    BY <1>1, <1>4, <2>1 DEF AnsweredInv
  <2>2. CASE f \in Requests
    BY <1>4, <2>2 DEF Requests
  <2>3. CASE f.ind # 0 => f.ind \in queued' \cup InHand'
    BY <1>4, <2>3
  <2>. QED BY <2>1, <2>2, <2>3, LineTypes DEF HostWrites, SameRequest
<1>5. (Frames(toNode))' = Frames(toNode')
  BY DEF Frames
<1>. QED BY <1>3, <1>4, <1>5 DEF AnsweredInv

LEMMA FutureNext ==
  ASSUME TypeOK, LoopInv, IdInv, FutureInv, [Next]_vars
  PROVE  FutureInv'
<1>. CountersOK
  BY TypeParts
<1>1. ASSUME NEW p \in Prims, Call(p)
      PROVE  FutureInv'
  <2>1. /\ calls' = calls + 1 /\ UNCHANGED executed
        /\ UNCHANGED outcome \/ outcome' = [outcome EXCEPT ![calls'] = "failed"]
    BY <1>1, StartedCall
  <2>. QED BY <2>1, Sizes DEF FutureInv, CountersOK, Calls
<1>2. CASE \/ TakeDummy \/ TakeGarbled \/ TimesOut \/ IndicationFails \/ Spins \/ TakeOther
           \/ TakeConfirm \/ HandOver
  <2>1. /\ UNCHANGED calls /\ UNCHANGED executed
        /\ UNCHANGED outcome \/ \E r : outcome' = [outcome EXCEPT ![calls] = r]
    BY <1>2, DummyTaken, QuietSteps, HandedOver DEF Returns
  <2>. QED BY <2>1, Sizes DEF FutureInv, CountersOK, Calls
<1>3. ASSUME NEW remaining \in BOOLEAN, AnswerIndication(remaining)
      PROVE  FutureInv'
  <2>1. /\ UNCHANGED calls /\ UNCHANGED executed
        /\ UNCHANGED outcome
    BY <1>3, IndicationAnswered
  <2>. QED BY <2>1, Sizes DEF FutureInv, CountersOK, Calls
<1>4. CASE NodeExecutes
  <2>1. /\ Head(toNode) \in Frames(toNode) /\ Head(toNode).type = "request"
        /\ Head(toNode).call \in Calls
        /\ executed' = [executed EXCEPT ![Head(toNode).call] = @ + 1]
        /\ UNCHANGED calls /\ UNCHANGED outcome
    BY <1>4, Executed, TailFrames, TypeParts DEF host, history
  <2>2. Head(toNode).call <= calls
    BY <2>1 DEF IdInv, Recent
  <2>. QED BY <2>1, <2>2, Sizes DEF FutureInv, CountersOK, Calls
<1>5. CASE \/ NodeRefuses \/ NodeTakesResponse \/ RequestLost \/ RequestGarbled
           \/ AnswerLost \/ AnswerGarbled \/ UNCHANGED vars
  <2>1. UNCHANGED calls /\ UNCHANGED executed /\ UNCHANGED outcome
    BY <1>5 DEF NodeRefuses, NodeTakesResponse, RequestLost, RequestGarbled, AnswerLost,
                AnswerGarbled, LineFault, vars, host, history
  <2>. QED BY <2>1 DEF FutureInv
<1>. QED BY <1>1, <1>2, <1>3, <1>4, <1>5, Steps

----------------------------------------------------------------------------
(* A call begun on a silent line                                           *)

\* The line as it is when something comes back to a clean call.
LEMMA CleanAnswer ==
  ASSUME TypeOK, IdInv, CleanConfirm, toHost # << >>
  PROVE  /\ toNode = << >> /\ Len(toHost) \in 1 .. 2 /\ Head(toHost) = toHost[1]
         /\ toHost[1].type \in {"dummy", "garbled", "confirm"}
         /\ toHost[1].type = "dummy" => Len(toHost) = 1 /\ executed[calls] = 0
         /\ toHost[1].type = "garbled" => Len(toHost) = 1
         /\ toHost[1].type = "confirm" => Matches(toHost[1]) /\ toHost[1].call = calls
         /\ Len(toHost) = 2 => toHost[1].type = "confirm" /\ toHost[2].type \in {"ind", "garbled"}
<1>1. Head(toHost) = toHost[1] /\ toHost[1] \in Frames(toHost)
  BY TailFrames, TypeParts
<1>2. ASSUME toHost[1].type = "confirm", toHost[1].call = calls
      PROVE  Matches(toHost[1])
  <2>1. Recent(toHost[1])
    BY <1>1, <1>2 DEF IdInv
  <2>2. calls \in Nat /\ id \in Nat
    BY Sizes DEF TypeOK
  <2>3. calls - toHost[1].call = 0
    BY <1>2, <2>2
  <2>4. toHost[1].id = id /\ toHost[1].prim = prim
    BY <1>2, <2>1, <2>2, <2>3 DEF Recent, IdBefore
  <2>. QED BY <1>2, <2>4 DEF Matches
<1>. QED BY <1>1, <1>2 DEF CleanConfirm

\* The line as it is when the request of a clean call is still on it.
LEMMA CleanRequest ==
  ASSUME TypeOK, CleanConfirm, toNode # << >>
  PROVE  /\ toHost = << >> /\ Len(toNode) = 1 /\ Head(toNode) = toNode[1]
         /\ toNode[1].type = "request" /\ toNode[1].call = calls /\ Asked(calls)
<1>1. Head(toNode) = toNode[1] /\ toNode[1] \in Frames(toNode)
  BY TailFrames, TypeParts
<1>. QED BY <1>1 DEF CleanConfirm, Asked, IsRequest

\* A frame sent on a silent line is the only one.
LEMMA OneFrame ==
  ASSUME NEW S, NEW e \in S
  PROVE  /\ Append(<< >>, e) \in Seq(S) /\ Len(Append(<< >>, e)) = 1 /\ Append(<< >>, e)[1] = e
         /\ DOMAIN Append(<< >>, e) = {1}
         /\ \A f \in S : /\ Len(Append(Append(<< >>, e), f)) = 2
                         /\ Append(Append(<< >>, e), f)[1] = e
                         /\ Append(Append(<< >>, e), f)[2] = f
<1>. DEFINE q == Append(<< >>, e)
<1>1. << >> \in Seq(S) /\ Len(<< >>) = 0 /\ DOMAIN << >> = {}
  OBVIOUS
<1>2. q \in Seq(S) /\ Len(q) = 0 + 1 /\ q[0 + 1] = e /\ DOMAIN q = {} \cup {0 + 1}
  <2>1. q \in Seq(S) /\ Len(q) = Len(<< >>) + 1 /\ q[Len(<< >>) + 1] = e
        /\ DOMAIN q = DOMAIN << >> \cup {Len(<< >>) + 1}
    BY <1>1, AppendFrames
  <2>. HIDE DEF q
  <2>. QED BY <1>1, <2>1
<1>. HIDE DEF q
<1>3. q \in Seq(S) /\ Len(q) = 1 /\ q[1] = e /\ DOMAIN q = {1}
  BY <1>2
<1>4. ASSUME NEW f \in S
      PROVE  Len(Append(q, f)) = 2 /\ Append(q, f)[1] = e /\ Append(q, f)[2] = f
  <2>1. /\ Len(Append(q, f)) = Len(q) + 1 /\ Append(q, f)[Len(q) + 1] = f
        /\ \A i \in DOMAIN q : Append(q, f)[i] = q[i]
    BY <1>3, AppendFrames
  <2>. QED BY <1>3, <2>1
<1>. QED BY <1>3, <1>4 DEF q

LEMMA Emptied ==
  ASSUME NEW S, NEW s \in Seq(S), Len(s) = 1
  PROVE  Tail(s) = << >> /\ AllButLast(s) = << >>
<1>1. s # << >>
  BY EmptySeq
<1>2. Tail(s) \in Seq(S) /\ Len(Tail(s)) = 0 /\ AllButLast(s) \in Seq(S) /\ Len(AllButLast(s)) = 0
  BY <1>1, TailFrames, LostFrames
<1>. QED BY <1>2, EmptySeq

\* A clean call that goes on waiting.
LEMMA CleanConfirmKept ==
  ASSUME TypeOK, LoopInv, IdInv, ExecutedInv, [Next]_vars,
         phase = "confirm", phase' = "confirm", clean[calls], CleanConfirm
  PROVE  CleanConfirm'
<1>. toNode \in Seq(NodeFrames) /\ toHost \in Seq(HostFrames)
  BY TypeParts
<1>0. ASSUME NEW p \in Prims, Call(p)
      PROVE  FALSE
  BY <1>0, StartedCall
<1>1. CASE TakeDummy
  <2>1. toHost # << >> /\ Head(toHost).type = "dummy" /\ toHost' = Tail(toHost) /\ calls' = calls
    BY <1>1, DummyTaken DEF Taken
  <2>2. toNode = << >> /\ Len(toHost) = 1
    BY <2>1, CleanAnswer
  <2>3. toHost' = << >>
    BY <2>1, <2>2, Emptied
  <2>4. PICK e \in Requests : toNode' = Append(toNode, e) /\ HostWrites(e)
    BY <1>1, DummyTaken DEF Returns
  <2>5. e.type = "request" /\ e.call = calls'
    BY <2>4 DEF HostWrites, Requests
  <2>6. Len(toNode') = 1 /\ toNode'[1] = e
    BY <2>2, <2>4, OneFrame
  <2>. QED BY <2>3, <2>5, <2>6 DEF CleanConfirm
<1>2. CASE TakeGarbled \/ TimesOut \/ IndicationFails \/ Spins \/ TakeConfirm
  BY <1>2 DEF TakeGarbled, TimesOut, IndicationFails, Spins, TakeConfirm, Returns
<1>3. CASE TakeOther
  <2>1. toHost # << >> /\ Head(toHost).type \in {"confirm", "ind"} /\ ~Matches(Head(toHost))
    BY <1>3 DEF TakeOther, Waiting
  <2>. QED BY <2>1, CleanAnswer
<1>4. ASSUME HandOver \/ \E remaining \in BOOLEAN : AnswerIndication(remaining)
      PROVE  FALSE
  BY <1>4, HandedOver, IndicationAnswered
<1>5. CASE NodeExecutes
  <2>1. /\ toNode # << >> /\ toNode' = Tail(toNode) /\ calls' = calls
    BY <1>5, Executed DEF host
  <2>2. toHost = << >> /\ Len(toNode) = 1 /\ Head(toNode).call = calls
    BY <2>1, CleanRequest
  <2>3. toNode' = << >>
    BY <2>1, <2>2, Emptied
  <2>4. PICK e \in Confirms :
           /\ e.type = "confirm" /\ NodeAnswers(e)
           /\ \/ toHost' = Append(toHost, e)
              \/ \E f \in Inds : f.type = "ind" /\ toHost' = Append(Append(toHost, e), f)
    BY <1>5, Executed
  <2>5. e.call = calls' /\ e \in HostFrames
    BY <2>1, <2>2, <2>4 DEF NodeAnswers, HostFrames
  <2>6. CASE toHost' = Append(toHost, e)
    <3>1. Len(toHost') = 1 /\ toHost'[1] = e
      BY <2>2, <2>5, <2>6, OneFrame
    <3>. QED BY <2>3, <2>4, <2>5, <3>1 DEF CleanConfirm
  <2>7. ASSUME NEW f \in Inds, f.type = "ind", toHost' = Append(Append(toHost, e), f)
        PROVE  CleanConfirm'
    <3>1. f \in HostFrames
      BY DEF HostFrames
    <3>2. Len(toHost') = 2 /\ toHost'[1] = e /\ toHost'[2] = f
      BY <2>2, <2>5, <2>7, <3>1, OneFrame
    <3>. QED BY <2>3, <2>4, <2>5, <2>7, <3>2 DEF CleanConfirm
  <2>. QED BY <2>4, <2>6, <2>7
<1>6. CASE NodeRefuses
  <2>1. /\ toNode # << >> /\ toNode' = Tail(toNode) /\ calls' = calls /\ UNCHANGED executed
    BY <1>6, Refused DEF host
  <2>2. toHost = << >> /\ Len(toNode) = 1 /\ Asked(calls)
    BY <2>1, CleanRequest
  <2>3. toNode' = << >>
    BY <2>1, <2>2, Emptied
  <2>4. PICK e \in Dummies : e.type = "dummy" /\ toHost' = Append(toHost, e)
    BY <1>6, Refused
  <2>5. Len(toHost') = 1 /\ toHost'[1] = e
    BY <2>2, <2>4, OneFrame
  <2>6. executed'[calls'] = 0
    BY <2>1, <2>2 DEF ExecutedInv, LoopInv
  <2>. QED BY <2>3, <2>4, <2>5, <2>6 DEF CleanConfirm
<1>7. CASE NodeTakesResponse
  BY <1>7, Acknowledged, CleanRequest
<1>8. CASE RequestLost
  <2>1. toNode # << >> /\ toNode' = AllButLast(toNode) /\ toHost' = toHost
    BY <1>8 DEF RequestLost
  <2>2. toNode' = << >> /\ toHost' = << >>
    BY <2>1, CleanRequest, Emptied
  <2>. QED BY <2>2 DEF CleanConfirm
<1>9. CASE RequestGarbled
  <2>1. toNode # << >> /\ toHost' = toHost /\ calls' = calls
    BY <1>9, Garbling, OtherSteps
  <2>2. PICK e \in Requests : /\ SameRequest(e, toNode[Len(toNode)])
                              /\ toNode' = [toNode EXCEPT ![Len(toNode)] = e]
    BY <1>9, Garbling
  <2>3. toHost = << >> /\ Len(toNode) = 1 /\ toNode[1].call = calls
    BY <2>1, CleanRequest
  <2>4. e \in NodeFrames
    BY DEF NodeFrames
  <2>5. Len(toNode') = 1 /\ toNode'[1] = e
    BY <2>1, <2>2, <2>3, <2>4, GarbledFrames
  <2>6. e.type = "request" /\ e.call = calls'
    BY <2>1, <2>2, <2>3 DEF SameRequest, Requests
  <2>. QED BY <2>1, <2>3, <2>5, <2>6 DEF CleanConfirm
<1>10. CASE AnswerLost
  <2>1. toHost # << >> /\ toHost' = AllButLast(toHost) /\ toNode' = toNode /\ calls' = calls
    BY <1>10, OtherSteps DEF AnswerLost
  <2>2. toNode' = << >>
    BY <2>1, CleanAnswer
  <2>3. CASE Len(toHost) = 1
    BY <2>1, <2>2, <2>3, Emptied DEF CleanConfirm
  <2>4. CASE Len(toHost) = 2
    <3>0. Len(toHost') = Len(toHost) - 1 /\ toHost' \in Seq(HostFrames)
      BY <2>1, LostFrames
    <3>1. Len(toHost') = 1 /\ toHost' \in Seq(HostFrames)
      BY <3>0, <2>4
    <3>2. 1 \in DOMAIN toHost'
      BY <3>1, LenProperties
    <3>3. toHost'[1] = toHost[1]
      BY <2>1, <3>2, LostFrames
    <3>. QED BY <2>1, <2>2, <2>4, <3>1, <3>3, CleanAnswer DEF CleanConfirm
  <2>. QED BY <2>1, <2>3, <2>4, CleanAnswer
<1>11. CASE AnswerGarbled
  <2>1. /\ toHost # << >> /\ toHost' = [toHost EXCEPT ![Len(toHost)] = Garbled]
        /\ toNode' = toNode /\ calls' = calls
    BY <1>11, OtherSteps DEF AnswerGarbled
  <2>2. Garbled \in HostFrames /\ Garbled.type = "garbled"
    BY DEF HostFrames, Garbled
  <2>3. /\ Len(toHost') = Len(toHost) /\ Len(toHost) \in DOMAIN toHost
        /\ \A i \in DOMAIN toHost : toHost'[i] = IF i = Len(toHost) THEN Garbled ELSE toHost[i]
    BY <2>1, <2>2, GarbledFrames
  <2>4. toNode' = << >> /\ Len(toHost) \in 1 .. 2 /\ 1 \in DOMAIN toHost
    BY <2>1, CleanAnswer, TailFrames
  <2>5. CASE Len(toHost) = 1
    BY <2>2, <2>3, <2>4, <2>5 DEF CleanConfirm
  <2>6. CASE Len(toHost) = 2
    <3>1. toHost'[1] = toHost[1] /\ toHost'[2].type = "garbled"
      BY <2>2, <2>3, <2>4, <2>6
    <3>2. toHost[1].type = "confirm" /\ toHost[1].call = calls
      BY <2>1, <2>6, CleanAnswer
    <3>. QED BY <2>1, <2>3, <2>4, <2>6, <3>1, <3>2 DEF CleanConfirm
  <2>. QED BY <2>4, <2>5, <2>6
<1>12. CASE UNCHANGED vars
  BY <1>12 DEF vars, host, CleanConfirm
<1>. QED BY <1>0, <1>1, <1>2, <1>3, <1>4, <1>5, <1>6, <1>7, <1>8, <1>9, <1>10, <1>11, <1>12, Steps

\* A clean poll that goes on reading indications.
LEMMA CleanIndicationKept ==
  ASSUME TypeOK, LoopInv, [Next]_vars,
         phase \in {"indication", "handover"}, phase' \in {"indication", "handover"},
         CleanIndication
  PROVE  CleanIndication'
<1>1. ASSUME NEW e \in Frames(toNode')
      PROVE  e.type = "response"
  <2>1. CASE HostWrites(e)
    BY <2>1 DEF HostWrites
  <2>2. e \in Frames(toNode) => e.type = "response"
    BY DEF CleanIndication
  <2>3. ASSUME NEW f \in Frames(toNode), SameRequest(e, f)
        PROVE  FALSE
    BY <2>3 DEF SameRequest, CleanIndication
  <2>. QED BY <2>1, <2>2, <2>3, LineTypes
<1>2. ASSUME NEW e \in Frames(toHost')
      PROVE  e.type \in {"ind", "garbled"}
  <2>1. CASE toNode # << >> /\ NodeAnswers(e)
    <3>1. Head(toNode) \in Frames(toNode)
      BY <2>1, TailFrames, TypeParts
    <3>2. Head(toNode).type = "response"
      BY <3>1 DEF CleanIndication
    <3>. QED BY <2>1, <3>2 DEF NodeAnswers
  <2>2. e \in Frames(toHost) => e.type \in {"ind", "garbled"}
    BY DEF CleanIndication
  <2>. QED BY <2>1, <2>2, LineTypes
<1>3. (Frames(toNode))' = Frames(toNode') /\ (Frames(toHost))' = Frames(toHost')
  BY DEF Frames
<1>. QED BY <1>1, <1>2, <1>3 DEF CleanIndication

\* A clean poll that begins to read them.
LEMMA CleanIndicationBegins ==
  ASSUME TypeOK, LoopInv, IdInv, TakeConfirm, CleanConfirm
  PROVE  CleanIndication'
<1>1. toHost # << >> /\ toHost' = Tail(toHost) /\ toNode' = toNode /\ Head(toHost).type = "confirm"
  BY DEF TakeConfirm, Waiting, Taken
<1>2. /\ toNode = << >> /\ Len(toHost) \in 1 .. 2
      /\ Len(toHost) = 2 => toHost[2].type \in {"ind", "garbled"}
  BY <1>1, CleanAnswer
<1>3. ASSUME NEW i \in DOMAIN toHost'
      PROVE  toHost'[i].type \in {"ind", "garbled"}
  <2>1. i \in Nat /\ i + 1 \in DOMAIN toHost /\ toHost'[i] = toHost[i + 1]
    BY <1>1, <1>3, TailFrames, TypeParts
  <2>2. i \in 1 .. Len(toHost') /\ Len(toHost') = Len(toHost) - 1
    BY <1>1, <1>3, TailFrames, LenProperties, TypeParts
  <2>3. i = 1 /\ Len(toHost) = 2
    BY <1>2, <2>1, <2>2
  <2>. QED BY <1>2, <2>1, <2>3
<1>4. DOMAIN toNode' = {}
  BY <1>1, <1>2
<1>. QED BY <1>3, <1>4 DEF CleanIndication, Frames

LEMMA CleanNext ==
  ASSUME TypeOK, LoopInv, IdInv, CleanInv, ExecutedInv, [Next]_vars
  PROVE  CleanInv'
<1>. CountersOK /\ SwitchesOK /\ CountersOK'
  BY TypeParts, CountersNext
<1>0. ASSUME NEW p \in Prims, Call(p)
      PROVE  CleanInv'
  <2>. USE <1>0
  <2>1. /\ calls' = calls + 1 /\ calls' \in Calls /\ UNCHANGED garbage /\ toHost' = toHost
        /\ clean' = [clean EXCEPT ![calls'] = (toNode = << >> /\ toHost = << >>)]
    BY StartedCall
  <2>2. ASSUME phase' = "confirm", clean'[calls']
        PROVE  CleanConfirm'
    <3>1. toNode = << >> /\ toHost' = << >>
      BY <2>1, <2>2 DEF SwitchesOK
    <3>2. PICK e \in Requests : toNode' = Append(toNode, e) /\ HostWrites(e)
      BY <2>2, StartedCall
    <3>3. Len(toNode') = 1 /\ toNode'[1] = e
      BY <3>1, <3>2, OneFrame
    <3>4. e.type = "request" /\ e.call = calls'
      BY <3>2 DEF HostWrites, Requests
    <3>. QED BY <3>1, <3>3, <3>4 DEF CleanConfirm
  <2>3. phase' \notin {"indication", "handover"}
    BY StartedCall
  <2>4. ASSUME NEW c \in garbage'
        PROVE  c <= calls' /\ ~clean'[c]
    <3>1. c \in Calls /\ c <= calls /\ ~clean[c]
      BY <2>1, <2>4 DEF CleanInv, CountersOK
    <3>2. c # calls' /\ c <= calls'
      BY <2>1, <3>1, Sizes DEF CountersOK, Calls
    <3>. QED BY <2>1, <3>1, <3>2 DEF SwitchesOK
  <2>. QED BY <2>2, <2>3, <2>4 DEF CleanInv
<1>1. CASE ~\E p \in Prims : Call(p)
  <2>1. UNCHANGED calls
    BY <1>1, CallOrNot
  <2>2. /\ UNCHANGED clean
        /\ \/ phase' = phase /\ UNCHANGED held
           \/ phase' \in {"idle", "spin"}
           \/ phase' = "indication" /\ phase = "confirm" /\ TakeConfirm
           \/ phase = "indication" /\ phase' = "handover" /\ toHost # << >> /\ held' = Head(toHost)
           \/ phase = "handover" /\ phase' = "indication"
        /\ \/ UNCHANGED garbage
           \/ garbage' = garbage \cup {calls} /\ phase = "handover" /\ held.type = "confirm"
    <3>1. CASE TakeDummy
      BY <3>1, DummyTaken DEF Returns
    <3>2. CASE TakeGarbled \/ TimesOut \/ IndicationFails \/ Spins \/ TakeOther \/ TakeConfirm
      BY <3>2, QuietSteps DEF Returns
    <3>3. ASSUME NEW remaining \in BOOLEAN, AnswerIndication(remaining)
          PROVE  /\ UNCHANGED clean /\ UNCHANGED garbage /\ phase = "indication"
                 /\ phase' = "handover" /\ toHost # << >> /\ held' = Head(toHost)
      BY <3>3, IndicationAnswered
    <3>4. CASE HandOver
      BY <3>4, HandedOver DEF Returns
    <3>5. CASE \/ NodeExecutes \/ NodeRefuses \/ NodeTakesResponse \/ RequestLost \/ RequestGarbled
               \/ AnswerLost \/ AnswerGarbled \/ UNCHANGED vars
      BY <3>5, OtherSteps
    <3>. QED BY <1>1, <3>1, <3>2, <3>3, <3>4, <3>5, Steps
  <2>3. ASSUME phase' = "confirm", clean'[calls']
        PROVE  CleanConfirm'
    BY <2>1, <2>2, <2>3, CleanConfirmKept DEF CleanInv
  <2>4. ASSUME phase' \in {"indication", "handover"}, clean'[calls']
        PROVE  CleanIndication'
    <3>1. CASE phase \in {"indication", "handover"}
      BY <2>1, <2>2, <2>4, <3>1, CleanIndicationKept DEF CleanInv
    <3>2. CASE phase = "confirm" /\ TakeConfirm
      BY <2>1, <2>2, <2>4, <3>2, CleanIndicationBegins DEF CleanInv
    <3>. QED BY <2>2, <2>4, <3>1, <3>2
  <2>5. ASSUME phase' = "handover", clean'[calls']
        PROVE  held'.type = "ind"
    <3>1. CASE phase = "handover" /\ UNCHANGED held
      BY <2>1, <2>2, <2>5, <3>1 DEF CleanInv
    <3>2. CASE phase = "indication" /\ toHost # << >> /\ held' = Head(toHost)
      <4>1. Head(toHost) \in Frames(toHost)
        BY <3>2, TailFrames, TypeParts
      <4>2. held'.type \in {"ind", "garbled"}
        BY <2>1, <2>2, <2>5, <3>2, <4>1 DEF CleanInv, CleanIndication
      <4>3. held' \in Confirms \cup Inds \cup {NoFrame}
        BY HandNext DEF HandOK
      <4>. QED BY <4>2, <4>3 DEF Confirms, Inds, NoFrame
    <3>. QED BY <2>2, <2>5, <3>1, <3>2
  <2>6. ASSUME NEW c \in garbage'
        PROVE  c <= calls' /\ ~clean'[c]
    <3>1. CASE c \in garbage
      BY <2>1, <2>2, <3>1 DEF CleanInv
    <3>2. CASE c = calls /\ phase = "handover" /\ held.type = "confirm"
      <4>1. ~clean[calls]
        BY <3>2 DEF CleanInv
      <4>2. c <= calls'
        BY <2>1, <3>2, Sizes DEF CountersOK
      <4>. QED BY <2>2, <3>2, <4>1, <4>2
    <3>. QED BY <2>2, <2>6, <3>1, <3>2
  <2>. QED BY <2>3, <2>4, <2>5, <2>6 DEF CleanInv
<1>. QED BY <1>0, <1>1

----------------------------------------------------------------------------
(* What the node executes                                                  *)

\* No step but a write of the host puts a request on the line.
LEMMA RequestsKept ==
  ASSUME TypeOK, NEW c,
         \/ UNCHANGED toNode
         \/ toNode # << >> /\ (toNode' = Tail(toNode) \/ toNode' = AllButLast(toNode))
         \/ \E e \in NodeFrames : toNode' = Append(toNode, e) /\ ~IsRequest(e, c)
         \/ /\ toNode # << >>
            /\ \E e \in Requests : /\ SameRequest(e, toNode[Len(toNode)])
                                   /\ toNode' = [toNode EXCEPT ![Len(toNode)] = e]
  PROVE  /\ Asked(c)' => Asked(c)
         /\ AskedOnce(c) => AskedOnce(c)'
<1>. toNode \in Seq(NodeFrames)
  BY TypeParts
<1>1. CASE UNCHANGED toNode
  BY <1>1 DEF Asked, AskedOnce, Frames
<1>2. CASE toNode # << >> /\ toNode' = Tail(toNode)
  <2>1. \A i \in DOMAIN toNode' : i \in Nat /\ i + 1 \in DOMAIN toNode /\ toNode'[i] = toNode[i + 1]
    BY <1>2, TailFrames
  <2>2. Asked(c)' => Asked(c)
    BY <2>1 DEF Asked, Frames
  <2>3. ASSUME AskedOnce(c), NEW i \in DOMAIN toNode', NEW j \in DOMAIN toNode',
               IsRequest(toNode'[i], c), IsRequest(toNode'[j], c)
        PROVE  i = j
    <3>1. i + 1 = j + 1 /\ i \in Nat /\ j \in Nat
      BY <2>1, <2>3 DEF AskedOnce
    <3>. QED BY <3>1
  <2>. QED BY <2>2, <2>3 DEF AskedOnce, IsRequest
<1>3. CASE toNode # << >> /\ toNode' = AllButLast(toNode)
  <2>1. \A i \in DOMAIN toNode' : i \in DOMAIN toNode /\ toNode'[i] = toNode[i]
    BY <1>3, LostFrames
  <2>. QED BY <2>1 DEF Asked, Frames, AskedOnce, IsRequest
<1>4. ASSUME NEW e \in NodeFrames, toNode' = Append(toNode, e), ~IsRequest(e, c)
      PROVE  (Asked(c)' => Asked(c)) /\ (AskedOnce(c) => AskedOnce(c)')
  <2>1. /\ DOMAIN toNode' = DOMAIN toNode \cup {Len(toNode) + 1}
        /\ \A i \in DOMAIN toNode : toNode'[i] = toNode[i]
        /\ toNode'[Len(toNode) + 1] = e
    BY <1>4, AppendFrames
  <2>. QED BY <1>4, <2>1 DEF Asked, Frames, AskedOnce, IsRequest
<1>5. ASSUME toNode # << >>, NEW e \in Requests, SameRequest(e, toNode[Len(toNode)]),
             toNode' = [toNode EXCEPT ![Len(toNode)] = e]
      PROVE  (Asked(c)' => Asked(c)) /\ (AskedOnce(c) => AskedOnce(c)')
  <2>1. e \in NodeFrames
    BY DEF NodeFrames
  <2>2. /\ DOMAIN toNode' = DOMAIN toNode
        /\ \A i \in DOMAIN toNode : toNode'[i] = IF i = Len(toNode) THEN e ELSE toNode[i]
    BY <1>5, <2>1, GarbledFrames
  <2>3. IsRequest(e, c) => IsRequest(toNode[Len(toNode)], c)
    BY <1>5 DEF SameRequest, IsRequest
  <2>4. \A i \in DOMAIN toNode : IsRequest(toNode'[i], c) => IsRequest(toNode[i], c)
    BY <2>2, <2>3
  <2>. QED BY <2>2, <2>4 DEF Asked, Frames, AskedOnce, IsRequest
<1>. QED BY <1>1, <1>2, <1>3, <1>4, <1>5

\* The request the node takes was the only one of its call.
LEMMA RequestGone ==
  ASSUME TypeOK, NEW c, AskedOnce(c), toNode # << >>, IsRequest(Head(toNode), c), toNode' = Tail(toNode)
  PROVE  ~Asked(c)'
<1>1. toNode \in Seq(NodeFrames)
  BY TypeParts
<1>2. /\ 1 \in DOMAIN toNode /\ Head(toNode) = toNode[1]
      /\ \A i \in DOMAIN toNode' : i \in Nat /\ i + 1 \in DOMAIN toNode /\ toNode'[i] = toNode[i + 1]
  BY <1>1, TailFrames
<1>3. ASSUME NEW i \in DOMAIN toNode', IsRequest(toNode'[i], c)
      PROVE  FALSE
  <2>1. i \in DOMAIN toNode' /\ i \in Nat
    BY <1>2, <1>3
  <2>2. i + 1 = 1
    BY <1>2, <1>3 DEF AskedOnce
  <2>3. i >= 1
    <3>1. Tail(toNode) \in Seq(NodeFrames)
      BY <1>1, TailFrames
    <3>. QED BY <2>1, <3>1, LenProperties
  <2>. QED BY <2>1, <2>2, <2>3
<1>. QED BY <1>3 DEF Asked, Frames, IsRequest

ExactAt(c) ==
  clean[c] => /\ executed[c] <= 1 /\ AskedOnce(c)
              /\ Asked(c) => executed[c] = 0
              /\ outcome[c] = "crcFromHost" => executed[c] = 0 /\ ~Asked(c)

\* A silent line holds no request; one sent on it is the only one.
LEMMA NothingAsked ==
  ASSUME NEW c, toNode = << >>
  PROVE  /\ ~Asked(c) /\ AskedOnce(c)
         /\ UNCHANGED toNode => ~Asked(c)' /\ AskedOnce(c)'
         /\ (\E e \in Requests : toNode' = Append(toNode, e)) => AskedOnce(c)'
<1>1. DOMAIN toNode = {}
  OBVIOUS
<1>2. ASSUME NEW e \in Requests, toNode' = Append(toNode, e)
      PROVE  AskedOnce(c)'
  <2>1. DOMAIN toNode' = {1}
    BY <1>2, OneFrame
  <2>. QED BY <2>1 DEF AskedOnce
<1>. QED BY <1>1, <1>2 DEF Asked, AskedOnce, Frames

LEMMA ExecutedNext ==
  ASSUME TypeOK, LoopInv, IdInv, FutureInv, CleanInv, ExecutedInv, [Next]_vars
  PROVE  ExecutedInv'
<1>. CountersOK /\ SwitchesOK /\ CountersOK'
  BY TypeParts, CountersNext
<1>. SUFFICES ASSUME NEW c \in Calls
              PROVE  ExactAt(c)'
  BY DEF ExecutedInv, ExactAt
<1>a. ExactAt(c)
  BY DEF ExecutedInv, ExactAt
<1>0. ASSUME NEW p \in Prims, Call(p)
      PROVE  ExactAt(c)'
  <2>. USE <1>0
  <2>1. /\ calls' = calls + 1 /\ calls' \in Calls /\ UNCHANGED executed
        /\ clean' = [clean EXCEPT ![calls'] = (toNode = << >> /\ toHost = << >>)]
        /\ UNCHANGED outcome \/ outcome' = [outcome EXCEPT ![calls'] = "failed"]
        /\ UNCHANGED toNode \/ \E e \in Requests : toNode' = Append(toNode, e) /\ e.call = calls'
    <3>1. ASSUME NEW e \in Requests, HostWrites(e)
          PROVE  e.call = calls'
      <4>1. e.type # "response"
        BY DEF Requests
      <4>. QED BY <3>1, <4>1 DEF HostWrites
    <3>. QED BY <3>1, StartedCall
  <2>2. CASE c = calls'
    <3>1. ASSUME clean'[c]
          PROVE  toNode = << >>
      BY <2>1, <2>2, <3>1 DEF SwitchesOK
    <3>2. executed[c] = 0 /\ outcome[c] = "none"
      BY <2>1, <2>2, Sizes DEF FutureInv, CountersOK
    <3>3. executed'[c] = 0 /\ outcome'[c] # "crcFromHost"
      BY <2>1, <3>2 DEF CountersOK
    <3>4. clean'[c] => AskedOnce(c)'
      BY <2>1, <3>1, NothingAsked
    <3>. QED BY <3>3, <3>4 DEF ExactAt
  <2>3. CASE c # calls'
    <3>1. clean'[c] = clean[c] /\ executed'[c] = executed[c] /\ outcome'[c] = outcome[c]
      BY <2>1, <2>3 DEF CountersOK, SwitchesOK
    <3>2. ASSUME NEW e \in Requests, e.call = calls'
          PROVE  e \in NodeFrames /\ ~IsRequest(e, c)
      BY <2>3, <3>2 DEF IsRequest, NodeFrames
    <3>3. (Asked(c)' => Asked(c)) /\ (AskedOnce(c) => AskedOnce(c)')
      BY <2>1, <3>2, RequestsKept
    <3>. QED BY <1>a, <3>1, <3>3 DEF ExactAt
  <2>. QED BY <2>2, <2>3
<1>1. CASE TakeDummy
  <2>1. /\ phase = "confirm" /\ toHost # << >> /\ Head(toHost).type = "dummy"
        /\ UNCHANGED calls /\ UNCHANGED executed /\ UNCHANGED clean
        /\ UNCHANGED outcome \/ \E r : outcome' = [outcome EXCEPT ![calls] = r]
        /\ UNCHANGED toNode \/ \E e \in Requests : toNode' = Append(toNode, e) /\ e.call = calls
    <3>1. ASSUME NEW e \in Requests, HostWrites(e)
          PROVE  e.call = calls'
      <4>1. e.type # "response"
        BY DEF Requests
      <4>. QED BY <3>1, <4>1 DEF HostWrites
    <3>. QED BY <1>1, <3>1, DummyTaken DEF Returns
  <2>2. CASE c = calls /\ clean[c]
    <3>1. toNode = << >> /\ executed[c] = 0
      BY <2>1, <2>2, CleanAnswer DEF CleanInv
    <3>2. AskedOnce(c)' /\ (UNCHANGED toNode => ~Asked(c)')
      BY <2>1, <3>1, NothingAsked
    <3>3. outcome[c] = "none"
      BY <2>1, <2>2 DEF LoopInv
    <3>4. \/ UNCHANGED outcome \/ UNCHANGED toNode
          \/ outcome' = [outcome EXCEPT ![c] = "failed"]
      BY <1>1, <2>2, DummyTaken DEF Returns
    <3>5. outcome'[c] = "crcFromHost" => ~Asked(c)'
      BY <3>2, <3>3, <3>4 DEF CountersOK
    <3>. QED BY <2>1, <3>1, <3>2, <3>5 DEF ExactAt
  <2>3. CASE c # calls
    <3>1. clean'[c] = clean[c] /\ executed'[c] = executed[c] /\ outcome'[c] = outcome[c]
      BY <2>1, <2>3 DEF CountersOK
    <3>2. ASSUME NEW e \in Requests, e.call = calls
          PROVE  e \in NodeFrames /\ ~IsRequest(e, c)
      BY <2>3, <3>2 DEF IsRequest, NodeFrames
    <3>3. (Asked(c)' => Asked(c)) /\ (AskedOnce(c) => AskedOnce(c)')
      BY <2>1, <3>2, RequestsKept
    <3>. QED BY <1>a, <3>1, <3>3 DEF ExactAt
  <2>4. CASE ~clean[c]
    BY <2>1, <2>4 DEF ExactAt
  <2>. QED BY <2>2, <2>3, <2>4
<1>2. CASE NodeExecutes
  <2>1. /\ toNode # << >> /\ Head(toNode).type = "request" /\ Head(toNode).call \in Calls
        /\ Head(toNode) \in Frames(toNode) /\ toNode' = Tail(toNode)
        /\ executed' = [executed EXCEPT ![Head(toNode).call] = @ + 1]
        /\ UNCHANGED clean /\ UNCHANGED outcome
    BY <1>2, Executed, TailFrames, TypeParts DEF history
  <2>2. CASE c = Head(toNode).call /\ clean[c]
    <3>1. IsRequest(Head(toNode), c) /\ Asked(c)
      BY <2>1, <2>2 DEF IsRequest, Asked
    <3>2. executed[c] = 0 /\ AskedOnce(c) /\ outcome[c] # "crcFromHost"
      BY <1>a, <2>2, <3>1 DEF ExactAt
    <3>3. executed'[c] <= 1
      <4>1. executed'[c] = executed[c] + 1
        BY <2>1, <2>2 DEF CountersOK
      <4>. QED BY <3>2, <4>1
    <3>4. ~Asked(c)'
      BY <2>1, <3>1, <3>2, RequestGone
    <3>5. AskedOnce(c)'
      BY <2>1, <3>2, RequestsKept
    <3>. QED BY <2>1, <3>2, <3>3, <3>4, <3>5 DEF ExactAt
  <2>3. CASE c # Head(toNode).call
    <3>1. executed'[c] = executed[c]
      BY <2>1, <2>3 DEF CountersOK
    <3>2. (Asked(c)' => Asked(c)) /\ (AskedOnce(c) => AskedOnce(c)')
      BY <2>1, RequestsKept
    <3>. QED BY <1>a, <2>1, <3>1, <3>2 DEF ExactAt
  <2>4. CASE ~clean[c]
    BY <2>1, <2>4 DEF ExactAt
  <2>. QED BY <2>2, <2>3, <2>4
<1>3. CASE \/ TakeGarbled \/ TimesOut \/ IndicationFails \/ Spins \/ TakeOther \/ TakeConfirm
           \/ HandOver
  <2>1. /\ UNCHANGED executed /\ UNCHANGED clean /\ UNCHANGED toNode
        /\ \/ UNCHANGED outcome
           \/ \E r \in {"failed", "crc", "sync", "ok"} : outcome' = [outcome EXCEPT ![calls] = r]
    BY <1>3, QuietSteps, HandedOver DEF Returns
  <2>2. outcome'[c] = "crcFromHost" => outcome[c] = "crcFromHost"
    BY <2>1 DEF CountersOK
  <2>3. (Asked(c)' => Asked(c)) /\ (AskedOnce(c) => AskedOnce(c)')
    BY <2>1, RequestsKept
  <2>. QED BY <1>a, <2>1, <2>2, <2>3 DEF ExactAt
<1>4. ASSUME NEW remaining \in BOOLEAN, AnswerIndication(remaining)
      PROVE  ExactAt(c)'
  <2>1. /\ UNCHANGED executed /\ UNCHANGED clean
        /\ UNCHANGED outcome
        /\ UNCHANGED toNode \/ \E e \in Responses : toNode' = Append(toNode, e)
    BY <1>4, IndicationAnswered
  <2>2. outcome'[c] = "crcFromHost" => outcome[c] = "crcFromHost"
    BY <2>1 DEF CountersOK
  <2>3. \A e \in Responses : e \in NodeFrames /\ ~IsRequest(e, c)
    BY DEF NodeFrames, Responses, IsRequest
  <2>4. (Asked(c)' => Asked(c)) /\ (AskedOnce(c) => AskedOnce(c)')
    BY <2>1, <2>3, RequestsKept
  <2>. QED BY <1>a, <2>1, <2>2, <2>4 DEF ExactAt
<1>5. CASE \/ NodeRefuses \/ NodeTakesResponse \/ RequestLost \/ RequestGarbled
           \/ AnswerLost \/ AnswerGarbled \/ UNCHANGED vars
  <2>1. UNCHANGED executed /\ UNCHANGED clean /\ UNCHANGED outcome
    BY <1>5 DEF NodeRefuses, NodeTakesResponse, RequestLost, RequestGarbled, AnswerLost,
                AnswerGarbled, LineFault, vars, history
  <2>2. \/ UNCHANGED toNode
        \/ toNode # << >> /\ (toNode' = Tail(toNode) \/ toNode' = AllButLast(toNode))
        \/ /\ toNode # << >>
           /\ \E e \in Requests : /\ SameRequest(e, toNode[Len(toNode)])
                                  /\ toNode' = [toNode EXCEPT ![Len(toNode)] = e]
    BY <1>5, Garbling DEF NodeRefuses, NodeTakesResponse, RequestLost, AnswerLost, AnswerGarbled, vars
  <2>3. (Asked(c)' => Asked(c)) /\ (AskedOnce(c) => AskedOnce(c)')
    BY <2>2, RequestsKept
  <2>. QED BY <1>a, <2>1, <2>3 DEF ExactAt
<1>. QED BY <1>0, <1>1, <1>2, <1>3, <1>4, <1>5, Steps

----------------------------------------------------------------------------
(* Theorems                                                                *)

LEMMA InvInit ==
  ASSUME Init
  PROVE  Inv
<1>1. toNode \in Seq(NodeFrames) /\ toHost \in Seq(HostFrames)
  BY EmptySeq DEF Init
<1>2. CountersOK
  BY Sizes DEF Init, CountersOK, Prims
<1>3. SwitchesOK /\ HandOK
  BY DEF Init, SwitchesOK, HandOK
<1>4. TypeOK
  BY <1>1, <1>2, <1>3, TypeParts
<1>5. Frames(toNode) = {} /\ Frames(toHost) = {}
  BY NoFrames DEF Init
<1>6. LoopInv /\ IdInv /\ FutureInv /\ CleanInv
  BY <1>5 DEF Init, LoopInv, IdInv, FutureInv, CleanInv
<1>7. ExecutedInv
  BY DEF Init, ExecutedInv
<1>8. AnsweredInv /\ AnswerIsOwn
  BY <1>5 DEF Init, AnsweredInv, AcknowledgedIsQueued, AnswerIsOwn
<1>. QED BY <1>4, <1>6, <1>7, <1>8 DEF Inv

LEMMA InvNext ==
  ASSUME Inv, [Next]_vars
  PROVE  Inv'
  BY TypeNext, LoopNext, IdNext, FutureNext, CleanNext, ExecutedNext, AnsweredNext, AnswerNext DEF Inv

\* The invariant holds for every number of frame ids and every limit of the
\* loops of wpc_internal.c.
THEOREM Invariance == Spec => []Inv
  BY InvInit, InvNext, PTL DEF Spec

\* The counters of the loops and the frames on the line stay in their ranges.
THEOREM TypeCorrect == Spec => []TypeOK
<1>. Inv => TypeOK
  BY DEF Inv
<1>. QED BY Invariance, PTL

\* A call that succeeds took the confirm of its own request, as long as fewer
\* calls than there are frame ids are answered late (lines 199-231).
THEOREM AnswerIsOwnHolds == Spec => []AnswerIsOwn
<1>. Inv => AnswerIsOwn
  BY DEF Inv
<1>. QED BY Invariance, PTL

\* A request begun on a silent line is executed at most once, and not at all
\* when the host reports that the node refused it (lines 162-192).
THEOREM CleanCallsAreExactHolds == Spec => []CleanCallsAreExact
<1>. Inv => CleanCallsAreExact
  BY DEF Inv, ExecutedInv, CleanCallsAreExact
<1>. QED BY Invariance, PTL

\* A poll begun on a silent line hands only indications over (lines 288-306).
THEOREM CleanPollsGetIndicationsHolds == Spec => []CleanPollsGetIndications
<1>. Inv => CleanPollsGetIndications
  BY DEF Inv, CleanInv, CleanPollsGetIndications
<1>. QED BY Invariance, PTL

\* The node forgets an indication only once the platform has it, or the poll
\* that answered it, and still holds sending_mutex, is about to hand it over
\* (lines 300-306).
THEOREM AcknowledgedIsQueuedHolds == Spec => []AcknowledgedIsQueued
<1>. Inv => AcknowledgedIsQueued
  BY DEF Inv, AnsweredInv
<1>. QED BY Invariance, PTL
=============================================================================

---------------------------- MODULE DsapTxProofs ----------------------------
(***************************************************************************)
(* Proofs about DsapTx for any number of senders and every table size,     *)
(* number of packet ids and length of the messages.                        *)
(***************************************************************************)
EXTENDS DsapTx, SequenceTheorems, TLAPS

----------------------------------------------------------------------------
(* The inductive invariant, any number of senders                          *)

\* The node has fragment o of call c.
Has(c, o) == \E f \in sent : f.call = c /\ f.off = o
Whole(c) == \A o \in 0 .. size[c] - 1 : Has(c, o)

\* A sender that is not idle works on a call of its own that has no result.
CallInv ==
  /\ \A s \in Senders : spc[s] # "idle" => call[s] \in 1 .. calls /\ result[call[s]] = "none"
  /\ \A s, t \in Senders :
       spc[s] # "idle" /\ spc[t] # "idle" /\ call[s] = call[t] => s = t
  /\ \A c \in Calls : /\ c <= calls => size[c] >= 1
                      /\ c > calls => result[c] = "none"

\* Fragments are those of calls made, the final one, and no other, is flagged;
\* they go out in order.
FragInv ==
  /\ \A f \in sent : /\ f.call <= calls
                     /\ f.off < size[f.call]
                     /\ f.last <=> f.off = size[f.call] - 1
  /\ \A s \in Senders :
       /\ spc[s] # "idle" => frag[s] < size[call[s]]
       /\ spc[s] \in {"read", "write"} => frag[s] = 0
       /\ spc[s] = "send" => \A o \in 0 .. frag[s] - 1 : Has(call[s], o)

\* What is registered, or successful, has been accepted whole.
DoneInv ==
  /\ \A s \in Senders : spc[s] \in {"scan", "busy", "cb", "pdu"} => Whole(call[s])
  /\ \A c \in Calls : result[c] = "ok" => Whole(c)

\* The dispatch thread, when it is not idle, handles the report of a call.
DispatchInv == dpc # "idle" => dpdu \in Calls

Inv == TypeOK /\ DispatchInv /\ CallInv /\ FragInv /\ DoneInv

----------------------------------------------------------------------------
(* The packet id                                                           *)

\* How many messages after one with packet id i the id j is taken again.
Distance(i, j) == IF j > i THEN j - i ELSE j - i + IdSpan

\* How many of the ids taken packet_id has been moved past.
Shown == IF \E s \in Senders : spc[s] = "write" THEN Len(taken) - 1 ELSE Len(taken)

\* A packet id in use was taken by its message, and by no other turn of it.
LinkInv ==
  /\ \A f \in sent : f.id # NoId => \E i \in DOMAIN taken : taken[i].call = f.call /\ taken[i].id = f.id
  /\ \A s \in Senders :
       spc[s] \in {"write", "send"} /\ pid[s] # NoId =>
         \E i \in DOMAIN taken : taken[i].call = call[s] /\ taken[i].id = pid[s]
  /\ \A s \in Senders : spc[s] = "read" => \A i \in DOMAIN taken : taken[i].call # call[s]
  /\ \A i \in DOMAIN taken : taken[i].call <= calls
  /\ \A i, j \in DOMAIN taken : taken[i].call = taken[j].call => i = j

\* Without a race one sender at most is about to write, and the id is the one it
\* was the last to read; equal ids are IdSpan turns apart, and so is the next.
SpacedInv ==
  ~raced =>
    /\ \A s, t \in Senders : spc[s] = "write" /\ spc[t] = "write" => s = t
    /\ \A s \in Senders : spc[s] = "write" =>
         pid[s] = packetId /\ Len(taken) >= 1 /\ taken[Len(taken)].id = packetId
    /\ \A i \in DOMAIN taken : i <= Shown => Shown + 1 - i >= Distance(taken[i].id, packetId)
    /\ \A i, j \in DOMAIN taken : i < j /\ taken[i].id = taken[j].id => j - i >= IdSpan

----------------------------------------------------------------------------
(* The reports and the table                                               *)

\* No report is pending for call c, nor can the node still make one.
Past(c) == /\ c <= calls
           /\ \A s \in Senders : spc[s] \in {"read", "write", "send"} => call[s] # c
Spent(c) == Past(c) /\ \A r \in reports : r[1] # c
Uncalled(p) == \A c \in Calls : called[<<c, p>>] = 0

\* A report is the one report of a message that is with the node whole, and it is
\* handled once.
ReportInv ==
  /\ \A r \in reports : /\ Past(r[1]) /\ Whole(r[1]) /\ r[2] = size[r[1]] - 1
                        /\ Uncalled(r[1])
                        /\ dpc # "idle" => dpdu # r[1]
  /\ dpc # "idle" => Spent(dpdu) /\ Whole(dpdu) /\ Uncalled(dpdu)
  /\ \A c, p \in Calls :
       /\ called[<<c, p>>] <= 1
       /\ called[<<c, p>>] > 0 => /\ Spent(p) /\ Whole(p)
                                  /\ \A d \in Calls \ {c} : called[<<d, p>>] = 0

At(s, i) == spc[s] \in {"busy", "cb", "pdu"} /\ slot[s] = i
Filling(i) == \E s \in Senders : spc[s] \in {"cb", "pdu"} /\ slot[s] = i

\* No report handled now or later matches entry i by the pdu id p.
Gone(p, i) == /\ Spent(p)
              /\ dpc = "look" /\ dpdu = p => i < dslot
              /\ dpc = "load" /\ dpdu = p => i <= dslot

\* One sender at most fills an entry.  It holds one call's callback and pdu id,
\* except between two stores; a pdu id left in an entry that is free, or taken
\* again but not yet written, matches nothing any more.
EntryInv ==
  /\ \A s, t \in Senders, i \in Slots : At(s, i) /\ At(t, i) => s = t
  /\ \A s \in Senders : /\ spc[s] = "busy" => ~busy[slot[s]]
                        /\ spc[s] \in {"cb", "pdu"} => busy[slot[s]]
                        /\ spc[s] = "pdu" => cb[slot[s]] = call[s]
  /\ \A i \in Slots : /\ ~busy[i] \/ Filling(i) => Gone(pdu[i], i)
                      /\ cb[i] = pdu[i] \/ \E s \in Senders : spc[s] = "pdu" /\ slot[s] = i

\* The callback is the reported message's, or crossed the release of its entry.
OwnOr(c) == c = dpdu \/ <<dpdu, c>> \in crossed
TableInv ==
  ~clashed => /\ EntryInv
              /\ dpc = "load" => OwnOr(cb[dslot])
              /\ dpc # "idle" => dcb = 0 \/ OwnOr(dcb)
\* What has been called is settled.
SettledInv ==
  \A c, p \in Calls : called[<<c, p>>] > 0 => c = p \/ <<p, c>> \in crossed \/ clashed

\* Entry i holds the callback of call c, and nobody is about to write to it.
Entry(c, i) == /\ busy[i] /\ pdu[i] = c /\ cb[i] = c
               /\ \A s \in Senders : ~At(s, i)
Ahead(c, n) == \E i \in Slots : i >= n /\ Entry(c, i)
Stolen(c) == \E d \in Calls : <<c, d>> \in crossed

\* A callback registered in time is in the table until the search for it gets
\* there, then in the hands of the dispatch thread until it is called.
Kept(c) == \/ called[<<c, c>>] > 0
           \/ Stolen(c)
           \/ AwaitsReport(c) /\ Ahead(c, 1)
           \/ dpc = "look" /\ dpdu = c /\ (dcb # 0 \/ Ahead(c, dslot))
           \/ dpc = "load" /\ dpdu = c
           \/ dpc = "call" /\ dpdu = c /\ dcb # 0
InTimeInv == ~clashed => \A c \in inTime : Kept(c)

FullInv == Inv /\ LinkInv /\ SpacedInv /\ ReportInv /\ TableInv /\ SettledInv /\ InTimeInv

----------------------------------------------------------------------------
(* Any number of senders                                                   *)

LEMMA Sizes ==
  /\ TableSize \in Nat /\ TableSize >= 1 /\ IdSpan \in Nat /\ IdSpan >= 1
  /\ MaxFrags \in Nat /\ MaxFrags >= 1 /\ MaxCalls \in Nat
  BY SizesAssumption, BoundsAssumption

\* The id after i, without the remainder.
LEMMA Following ==
  ASSUME NEW i \in 0 .. IdSpan - 1
  PROVE  /\ FollowingId(i) = IF i = IdSpan - 1 THEN 0 ELSE i + 1
         /\ FollowingId(i) \in 0 .. IdSpan - 1
<1>. USE Sizes DEF FollowingId
<1>1. CASE i = IdSpan - 1
  BY <1>1
<1>2. CASE i # IdSpan - 1
  BY <1>2
<1>. QED BY <1>1, <1>2

\* What every step of a sender leaves alone.
LEMMA SenderFrame ==
  ASSUME TypeOK, NEW s \in Senders, SenderStep(s)
  PROVE  /\ UNCHANGED <<calls, size, wants, call, called, dpc, dpdu, dslot, dcb>>
         /\ \A t \in Senders \ {s} :
              UNCHANGED <<spc[t], pid[t], frag[t], slot[t]>>
<1>1. UNCHANGED <<calls, size, wants, call, called, dpc, dpdu, dslot, dcb>>
  BY DEF SenderStep, ReadPacketId, WritePacketId, FragmentAccepted, FragmentRefused, ConfirmLost,
         Scan, StoreBusy, StoreCb, StorePdu, history, dispatch, cbHistory
<1>2. \A t \in Senders \ {s} : spc'[t] = spc[t]
  BY DEF SenderStep, ReadPacketId, WritePacketId, FragmentAccepted, FragmentRefused, ConfirmLost,
         Scan, StoreBusy, StoreCb, StorePdu, Goto, Returns, TypeOK
<1>3. \A t \in Senders \ {s} : pid'[t] = pid[t]
  BY DEF SenderStep, ReadPacketId, WritePacketId, FragmentAccepted, FragmentRefused, ConfirmLost,
         Scan, StoreBusy, StoreCb, StorePdu, TypeOK
<1>4. \A t \in Senders \ {s} : frag'[t] = frag[t]
  BY DEF SenderStep, ReadPacketId, WritePacketId, FragmentAccepted, FragmentRefused, ConfirmLost,
         Scan, StoreBusy, StoreCb, StorePdu, TypeOK
<1>5. \A t \in Senders \ {s} : slot'[t] = slot[t]
  BY DEF SenderStep, ReadPacketId, WritePacketId, FragmentAccepted, FragmentRefused, ConfirmLost,
         Scan, StoreBusy, StoreCb, StorePdu, TypeOK
<1>. QED BY <1>1, <1>2, <1>3, <1>4, <1>5

\* The steps one by one.
LEMMA Steps ==
  ASSUME [Next]_vars
  PROVE  \/ \E s \in Senders, k \in 1 .. MaxFrags, w \in BOOLEAN : Begin(s, k, w)
         \/ \E s \in Senders : SenderStep(s)
         \/ DispatchStep
         \/ UNCHANGED vars
  BY DEF Next

\* What the dispatch thread leaves alone.
LEMMA DispatchFrame ==
  ASSUME DispatchStep
  PROVE  UNCHANGED <<senderVars, packetId, cb, pdu, sent, history, idHistory, inTime, crossed, clashed>>
  BY DEF DispatchStep, OnReport, Look, LoadCb, CallBack, node, table, cbHistory

\* A call starts with a size and a number of its own.
LEMMA TypeBegin ==
  ASSUME TypeOK, NEW s \in Senders, NEW k \in 1 .. MaxFrags, NEW w \in BOOLEAN, Begin(s, k, w)
  PROVE  TypeOK'
<1>. USE Sizes DEF TypeOK, Begin, Goto, Calls
<1>1. calls' = calls + 1 /\ calls' \in Calls
  OBVIOUS
<1>2. spc' \in [Senders -> {"idle", "read", "write", "send", "scan", "busy", "cb", "pdu"}]
  OBVIOUS
<1>3. call' \in [Senders -> 0 .. MaxCalls] /\ size' \in [Calls -> 0 .. MaxFrags]
  BY <1>1, SMTT(30)
<1>4. wants' \in [Calls -> BOOLEAN]
  BY <1>1
<1>5. pid' \in [Senders -> 0 .. NoId] /\ frag' \in [Senders -> 0 .. MaxFrags - 1]
  BY SMTT(30) DEF NoId
<1>6. UNCHANGED <<slot, packetId, table, node, result, dispatch, idHistory, cbHistory>>
  OBVIOUS
<1>. QED BY <1>1, <1>2, <1>3, <1>4, <1>5, <1>6 DEF table, node, dispatch, idHistory, cbHistory

\* An accepted fragment and the report it asks for have their types.
LEMMA TypeAccepts ==
  ASSUME TypeOK, NEW s \in Senders, call[s] \in Calls, Accepts(call[s], pid[s], frag[s])
  PROVE  sent' \subseteq Fragments /\ reports' \subseteq Calls \X (0 .. MaxFrags - 1)
<1>1. pid[s] \in 0 .. NoId /\ frag[s] \in 0 .. MaxFrags - 1
  BY DEF TypeOK
<1>2. (frag[s] = size[call[s]] - 1) \in BOOLEAN
  OBVIOUS
<1>3. [call |-> call[s], id |-> pid[s], off |-> frag[s], last |-> frag[s] = size[call[s]] - 1]
        \in Fragments
  BY <1>1, <1>2 DEF Fragments
<1>4. <<call[s], frag[s]>> \in Calls \X (0 .. MaxFrags - 1)
  BY <1>1
<1>. QED BY <1>3, <1>4 DEF Accepts, TypeOK

\* A sender's steps: the fragment counter and the table index stay in range
\* because each is compared before it is increased.
LEMMA TypeSender ==
  ASSUME TypeOK, CallInv, DispatchInv, NEW s \in Senders, SenderStep(s)
  PROVE  TypeOK'
<1>. USE Sizes
<1>1. spc[s] # "idle" /\ call[s] \in Calls
  BY DEF SenderStep, ReadPacketId, WritePacketId, FragmentAccepted, FragmentRefused, ConfirmLost,
         Scan, StoreBusy, StoreCb, StorePdu, CallInv, TypeOK, Calls
<1>2. spc' \in [Senders -> {"idle", "read", "write", "send", "scan", "busy", "cb", "pdu"}]
  BY ZenonT(40) DEF SenderStep, ReadPacketId, WritePacketId, FragmentAccepted, FragmentRefused, ConfirmLost,
         Scan, StoreBusy, StoreCb, StorePdu, Goto, Returns, TypeOK
<1>3. result' \in [Calls -> {"none", "ok", "failed"}]
  BY <1>1 DEF SenderStep, ReadPacketId, WritePacketId, FragmentAccepted, FragmentRefused,
         ConfirmLost, Scan, StoreBusy, StoreCb, StorePdu, Returns, TypeOK, history
<1>4. frag' \in [Senders -> 0 .. MaxFrags - 1]
  <2>1. frag[s] \in 0 .. MaxFrags - 1 /\ size[call[s]] \in 0 .. MaxFrags
    BY <1>1 DEF TypeOK
  <2>2. frag' = frag \/ (frag[s] < size[call[s]] - 1 /\ frag' = [frag EXCEPT ![s] = @ + 1])
    BY DEF SenderStep, ReadPacketId, WritePacketId, FragmentAccepted, FragmentRefused,
         ConfirmLost, Scan, StoreBusy, StoreCb, StorePdu
  <2>3. CASE frag' = frag
    BY <2>3 DEF TypeOK
  <2>4. CASE frag[s] < size[call[s]] - 1 /\ frag' = [frag EXCEPT ![s] = @ + 1]
    <3>1. frag[s] + 1 \in 0 .. MaxFrags - 1
      BY <2>1, <2>4
    <3>. QED BY <2>4, <3>1 DEF TypeOK
  <2>. QED BY <2>2, <2>3, <2>4
<1>5. slot' \in [Senders -> Slots]
  <2>1. \/ slot' = slot \/ slot' = [slot EXCEPT ![s] = 1]
        \/ slot[s] < TableSize /\ slot' = [slot EXCEPT ![s] = @ + 1]
    BY DEF SenderStep, ReadPacketId, WritePacketId, FragmentAccepted, FragmentRefused,
         ConfirmLost, Scan, StoreBusy, StoreCb, StorePdu
  <2>2. slot[s] \in 1 .. TableSize
    BY DEF TypeOK, Slots
  <2>3. slot \in [Senders -> 1 .. TableSize]
    BY DEF TypeOK, Slots
  <2>4. CASE slot' = slot
    BY <2>3, <2>4 DEF Slots
  <2>5. CASE slot' = [slot EXCEPT ![s] = 1]
    BY <2>3, <2>5 DEF Slots
  <2>6. CASE slot[s] < TableSize /\ slot' = [slot EXCEPT ![s] = @ + 1]
    <3>1. slot[s] + 1 \in 1 .. TableSize
      BY <2>2, <2>6
    <3>. QED BY <2>3, <2>6, <3>1 DEF Slots
  <2>. QED BY <2>1, <2>4, <2>5, <2>6
<1>6. pid' \in [Senders -> 0 .. NoId]
  <2>1. pid' = pid \/ pid' = [pid EXCEPT ![s] = packetId]
    BY DEF SenderStep, ReadPacketId, WritePacketId, FragmentAccepted, FragmentRefused,
         ConfirmLost, Scan, StoreBusy, StoreCb, StorePdu
  <2>2. packetId \in 0 .. NoId /\ pid \in [Senders -> 0 .. NoId]
    BY DEF TypeOK, NoId
  <2>3. CASE pid' = pid
    BY <2>2, <2>3
  <2>4. CASE pid' = [pid EXCEPT ![s] = packetId]
    BY <2>2, <2>4
  <2>. QED BY <2>1, <2>3, <2>4
<1>7. packetId' \in 0 .. IdSpan - 1
  <2>1. CASE WritePacketId(s)
    <3>1. pid[s] + 1 \in Nat
      BY DEF TypeOK, NoId
    <3>. QED BY <2>1, <3>1 DEF WritePacketId, FollowingId
  <2>2. CASE ~WritePacketId(s)
    BY <2>2 DEF SenderStep, ReadPacketId, FragmentAccepted, FragmentRefused, ConfirmLost,
         Scan, StoreBusy, StoreCb, StorePdu, TypeOK
  <2>. QED BY <2>1, <2>2
<1>8. busy' \in [Slots -> BOOLEAN] /\ cb' \in [Slots -> 0 .. MaxCalls] /\ pdu' \in [Slots -> 0 .. MaxCalls]
  BY DEF SenderStep, ReadPacketId, WritePacketId, FragmentAccepted, FragmentRefused, ConfirmLost,
         Scan, StoreBusy, StoreCb, StorePdu, TypeOK, table
<1>9. sent' \subseteq Fragments /\ reports' \subseteq Calls \X (0 .. MaxFrags - 1)
  <2>1. CASE Accepts(call[s], pid[s], frag[s])
    BY <1>1, <2>1, TypeAccepts
  <2>2. CASE ~Accepts(call[s], pid[s], frag[s])
    BY <2>2 DEF SenderStep, ReadPacketId, WritePacketId, FragmentAccepted, FragmentRefused,
         ConfirmLost, Scan, StoreBusy, StoreCb, StorePdu, TypeOK, node
  <2>. QED BY <2>1, <2>2
<1>10. taken' \in Seq([call : Calls, id : 0 .. IdSpan - 1]) /\ raced' \in BOOLEAN
  <2>1. CASE ReadPacketId(s)
    <3>1. [call |-> call[s], id |-> packetId] \in [call : Calls, id : 0 .. IdSpan - 1]
      BY <1>1 DEF TypeOK
    <3>2. taken' \in Seq([call : Calls, id : 0 .. IdSpan - 1])
      BY <2>1, <3>1, AppendProperties DEF TypeOK, ReadPacketId
    <3>3. raced' = TRUE \/ raced' = FALSE
      BY <2>1 DEF ReadPacketId, TypeOK
    <3>. QED BY <3>2, <3>3
  <2>2. CASE ~ReadPacketId(s)
    BY <2>2 DEF SenderStep, WritePacketId, FragmentAccepted, FragmentRefused, ConfirmLost,
         Scan, StoreBusy, StoreCb, StorePdu, TypeOK, idHistory
  <2>. QED BY <2>1, <2>2
<1>11. crossed' \subseteq Calls \X Calls
  <2>1. CASE StoreCb(s)
    <3>1. CASE UNCHANGED crossed
      BY <3>1 DEF TypeOK
    <3>2. CASE dpc = "load" /\ crossed' = crossed \cup {<<dpdu, call[s]>>}
      <4>1. dpdu \in Calls
        BY <3>2 DEF DispatchInv
      <4>. QED BY <4>1, <3>2, <1>1 DEF TypeOK
    <3>. QED BY <2>1, <3>1, <3>2 DEF StoreCb
  <2>2. CASE ~StoreCb(s)
    BY <2>2 DEF SenderStep, ReadPacketId, WritePacketId, FragmentAccepted, FragmentRefused,
         ConfirmLost, Scan, StoreBusy, StorePdu, TypeOK, cbHistory
  <2>. QED BY <2>1, <2>2
<1>12. clashed' \in BOOLEAN
  <2>1. CASE Scan(s)
    <3>1. clashed' = TRUE \/ clashed' = clashed \/ clashed' = (clashed \/ \E t \in Senders : spc[t] = "busy" /\ slot[t] = slot[s])
      BY <2>1 DEF Scan
    <3>. QED BY <3>1 DEF TypeOK
  <2>2. CASE ~Scan(s)
    BY <2>2 DEF SenderStep, ReadPacketId, WritePacketId, FragmentAccepted, FragmentRefused,
         ConfirmLost, StoreBusy, StoreCb, StorePdu, TypeOK, cbHistory
  <2>. QED BY <2>1, <2>2
<1>13. inTime' \subseteq Calls
  <2>1. inTime' = inTime \/ inTime' = inTime \cup {call[s]}
    BY DEF SenderStep, ReadPacketId, WritePacketId, FragmentAccepted, FragmentRefused,
         ConfirmLost, Scan, StoreBusy, StoreCb, StorePdu, cbHistory
  <2>. QED BY <1>1, <2>1 DEF TypeOK
<1>. QED BY <1>2, <1>3, <1>4, <1>5, <1>6, <1>7, <1>8, <1>9, <1>10, <1>11, <1>12, <1>13, SenderFrame
         DEF TypeOK

\* The dispatch thread's steps: its table index stays in range because the loop
\* ends at the last entry.
LEMMA TypeDispatch ==
  ASSUME TypeOK, DispatchInv, DispatchStep
  PROVE  TypeOK'
<1>. USE Sizes
<1>1. busy' \in [Slots -> BOOLEAN] /\ reports' \subseteq Calls \X (0 .. MaxFrags - 1)
  BY DEF DispatchStep, OnReport, Look, LoadCb, CallBack, TypeOK, node, table
<1>2. dpc' \in {"idle", "look", "load", "call"} /\ dpdu' \in 0 .. MaxCalls
  <2>1. \A r \in reports : r[1] \in 0 .. MaxCalls
    BY DEF TypeOK, Calls
  <2>. QED BY <2>1 DEF DispatchStep, OnReport, Look, LoadCb, CallBack, NextSlot, TypeOK
<1>3. dslot' \in Slots
  <2>1. \/ dslot' = 1 \/ dslot' = dslot \/ (dslot < TableSize /\ dslot' = dslot + 1)
    BY DEF DispatchStep, OnReport, Look, LoadCb, CallBack, NextSlot
  <2>2. dslot \in 1 .. TableSize
    BY DEF TypeOK, Slots
  <2>. QED BY <2>1, <2>2 DEF Slots
<1>4. dcb' \in 0 .. MaxCalls
  BY DEF DispatchStep, OnReport, Look, LoadCb, CallBack, TypeOK
<1>5. called' \in [Calls \X Calls -> Nat]
  <2>1. CASE UNCHANGED called
    BY <2>1 DEF TypeOK
  <2>2. CASE dpc # "idle" /\ dcb # 0 /\ called' = [called EXCEPT ![<<dcb, dpdu>>] = @ + 1]
    <3>1. <<dcb, dpdu>> \in Calls \X Calls
      BY <2>2 DEF DispatchInv, TypeOK, Calls
    <3>2. called[<<dcb, dpdu>>] + 1 \in Nat
      BY <3>1 DEF TypeOK
    <3>. QED BY <2>2, <3>1, <3>2 DEF TypeOK
  <2>. QED BY <2>1, <2>2 DEF DispatchStep, OnReport, Look, LoadCb, CallBack, cbHistory
<1>. QED BY <1>1, <1>2, <1>3, <1>4, <1>5, DispatchFrame
         DEF TypeOK, senderVars, history, idHistory

LEMMA TypeNext == TypeOK /\ CallInv /\ DispatchInv /\ [Next]_vars => TypeOK'
<1>. SUFFICES ASSUME TypeOK, CallInv, DispatchInv, [Next]_vars PROVE TypeOK'
  OBVIOUS
<1>1. CASE UNCHANGED vars
  BY <1>1 DEF TypeOK, vars, senderVars, table, node, history, dispatch, idHistory, cbHistory
<1>. QED BY <1>1, Steps, TypeBegin, TypeSender, TypeDispatch

\* The dispatch thread handles the report of a call.
LEMMA DispatchNext == TypeOK /\ DispatchInv /\ [Next]_vars => DispatchInv'
<1>. SUFFICES ASSUME TypeOK, DispatchInv, [Next]_vars PROVE DispatchInv'
  OBVIOUS
<1>1. ASSUME NEW s \in Senders, NEW k \in 1 .. MaxFrags, NEW w \in BOOLEAN, Begin(s, k, w)
      PROVE  DispatchInv'
  BY <1>1 DEF DispatchInv, Begin, dispatch
<1>2. ASSUME NEW s \in Senders, SenderStep(s)
      PROVE  DispatchInv'
  BY <1>2, SenderFrame DEF DispatchInv
<1>3. CASE DispatchStep
  <2>1. \A r \in reports : r[1] \in Calls
    BY DEF TypeOK
  <2>. QED BY <2>1, <1>3 DEF DispatchInv, DispatchStep, OnReport, Look, LoadCb, CallBack
<1>4. CASE UNCHANGED vars
  BY <1>4 DEF DispatchInv, vars, dispatch
<1>. QED BY <1>1, <1>2, <1>3, <1>4, Steps

\* What a new call changes.
LEMMA BeginFrame ==
  ASSUME TypeOK, NEW s \in Senders, NEW k \in 1 .. MaxFrags, NEW w \in BOOLEAN, Begin(s, k, w)
  PROVE  /\ spc[s] = "idle" /\ spc'[s] \in {"send", "read"} /\ (spc'[s] = "send" => k = 1)
         /\ calls' = calls + 1 /\ calls' \in Calls
         /\ call'[s] = calls' /\ frag'[s] = 0 /\ pid'[s] = NoId
         /\ size'[calls'] = k /\ wants'[calls'] = w
         /\ \A c \in Calls \ {calls'} : size'[c] = size[c] /\ wants'[c] = wants[c]
         /\ \A t \in Senders \ {s} : /\ spc'[t] = spc[t] /\ call'[t] = call[t]
                                     /\ pid'[t] = pid[t] /\ frag'[t] = frag[t]
         /\ UNCHANGED <<slot, packetId, busy, cb, pdu, sent, reports, result, called>>
         /\ UNCHANGED <<dpc, dpdu, dslot, dcb, taken, raced, inTime, crossed, clashed>>
<1>. USE Sizes
<1>1. /\ spc[s] = "idle" /\ calls' = calls + 1 /\ calls' \in Calls
      /\ UNCHANGED <<slot, packetId, busy, cb, pdu, sent, reports, result, called>>
      /\ UNCHANGED <<dpc, dpdu, dslot, dcb, taken, raced, inTime, crossed, clashed>>
  BY DEF Begin, TypeOK, Calls, table, node, dispatch, idHistory, cbHistory
<1>2. /\ spc'[s] = IF k = 1 THEN "send" ELSE "read"
      /\ \A t \in Senders \ {s} : spc'[t] = spc[t]
  BY DEF Begin, TypeOK, Goto
<1>3. /\ call'[s] = calls' /\ frag'[s] = 0 /\ pid'[s] = NoId
      /\ \A t \in Senders \ {s} : call'[t] = call[t] /\ pid'[t] = pid[t] /\ frag'[t] = frag[t]
  BY DEF Begin, TypeOK
<1>4. /\ size'[calls'] = k /\ \A c \in Calls \ {calls'} : size'[c] = size[c]
  BY <1>1 DEF Begin, TypeOK
<1>5. /\ wants'[calls'] = w /\ \A c \in Calls \ {calls'} : wants'[c] = wants[c]
  BY <1>1 DEF Begin, TypeOK
<1>. QED BY <1>1, <1>2, <1>3, <1>4, <1>5

\* A sender's step records at most the result of its own call, and ends it.
LEMMA ResultFrame ==
  ASSUME TypeOK, CallInv, NEW s \in Senders, SenderStep(s)
  PROVE  /\ spc[s] # "idle" /\ call[s] \in Calls
         /\ \A c \in Calls \ {call[s]} : result'[c] = result[c]
         /\ result'[call[s]] = result[call[s]] \/ spc'[s] = "idle"
         /\ result'[call[s]] = "ok" =>
              \/ FragmentAccepted(s) /\ frag[s] = size[call[s]] - 1
              \/ spc[s] \in {"scan", "pdu"}
<1>1. spc[s] # "idle"
  BY DEF SenderStep, ReadPacketId, WritePacketId, FragmentAccepted, FragmentRefused, ConfirmLost,
         Scan, StoreBusy, StoreCb, StorePdu
<1>2. call[s] \in Calls /\ result[call[s]] = "none"
  BY <1>1 DEF CallInv, TypeOK, Calls
<1>3. CASE UNCHANGED result
  BY <1>1, <1>2, <1>3
<1>4. CASE ~(UNCHANGED result)
  <2>1. \E res \in {"ok", "failed"} :
          /\ Returns(s, res)
          /\ res = "ok" => \/ FragmentAccepted(s) /\ frag[s] = size[call[s]] - 1
                           \/ spc[s] \in {"scan", "pdu"}
    BY <1>4 DEF SenderStep, ReadPacketId, WritePacketId, FragmentAccepted, FragmentRefused,
         ConfirmLost, Scan, StoreBusy, StoreCb, StorePdu, history
  <2>2. PICK res \in {"ok", "failed"} :
          /\ Returns(s, res)
          /\ res = "ok" => \/ FragmentAccepted(s) /\ frag[s] = size[call[s]] - 1
                           \/ spc[s] \in {"scan", "pdu"}
    BY <2>1
  <2>3. result'[call[s]] = res /\ \A c \in Calls \ {call[s]} : result'[c] = result[c]
    BY <2>2, <1>2 DEF Returns, TypeOK
  <2>4. spc'[s] = "idle"
    BY <2>2 DEF Returns, Goto, TypeOK
  <2>. QED BY <1>1, <1>2, <2>2, <2>3, <2>4
<1>. QED BY <1>3, <1>4

LEMMA CallNext == TypeOK /\ CallInv /\ [Next]_vars => CallInv'
<1>. SUFFICES ASSUME TypeOK, CallInv, [Next]_vars PROVE CallInv'
  OBVIOUS
<1>1. ASSUME NEW s \in Senders, NEW k \in 1 .. MaxFrags, NEW w \in BOOLEAN, Begin(s, k, w)
      PROVE  CallInv'
  <2>. USE BeginFrame, <1>1, Sizes
  <2>1. calls \in 0 .. MaxCalls /\ calls' = calls + 1 /\ calls' \in Calls
    <3>1. calls \in 0 .. MaxCalls
      BY DEF TypeOK
    <3>2. calls' = calls + 1 /\ calls' \in Calls
      OBVIOUS
    <3>. QED BY <3>1, <3>2
  <2>2. \A t \in Senders : spc'[t] # "idle" =>
          call'[t] \in 1 .. calls' /\ result'[call'[t]] = "none"
    BY <2>1 DEF CallInv
  <2>3. \A t, u \in Senders :
          spc'[t] # "idle" /\ spc'[u] # "idle" /\ call'[t] = call'[u] => t = u
    BY <2>1 DEF CallInv
  <2>4. \A c \in Calls : /\ c <= calls' => size'[c] >= 1
                         /\ c > calls' => result'[c] = "none"
    BY <2>1 DEF CallInv, Calls
  <2>. QED BY <2>2, <2>3, <2>4 DEF CallInv
<1>2. ASSUME NEW s \in Senders, SenderStep(s)
      PROVE  CallInv'
  <2>. USE SenderFrame, ResultFrame, <1>2
  <2>1. \A t \in Senders : spc'[t] # "idle" => spc[t] # "idle"
    OBVIOUS
  <2>2. \A t \in Senders : spc'[t] # "idle" =>
          call'[t] \in 1 .. calls' /\ result'[call'[t]] = "none"
    <3>. SUFFICES ASSUME NEW t \in Senders, spc'[t] # "idle"
                  PROVE  call'[t] \in 1 .. calls' /\ result'[call'[t]] = "none"
      OBVIOUS
    <3>1. call'[t] = call[t] /\ call[t] \in 1 .. calls /\ calls' = calls /\ result[call[t]] = "none"
      BY <2>1 DEF CallInv
    <3>2. CASE t = s
      BY <3>1, <3>2
    <3>3. CASE t # s
      <4>1. call[t] # call[s] /\ call[t] \in Calls
        <5>1. spc[t] # "idle" /\ spc[s] # "idle"
          BY <2>1
        <5>2. call[t] # call[s]
          BY <5>1, <3>3 DEF CallInv
        <5>. QED BY <5>2, <3>1, Sizes DEF TypeOK, Calls
      <4>. QED BY <3>1, <4>1
    <3>. QED BY <3>2, <3>3
  <2>3. \A t, u \in Senders :
          spc'[t] # "idle" /\ spc'[u] # "idle" /\ call'[t] = call'[u] => t = u
    BY <2>1 DEF CallInv
  <2>4. \A c \in Calls : /\ c <= calls' => size'[c] >= 1
                         /\ c > calls' => result'[c] = "none"
    <3>1. call[s] \in 1 .. calls /\ calls \in 0 .. MaxCalls
      BY DEF CallInv, TypeOK
    <3>. QED BY <3>1, Sizes DEF CallInv, Calls
  <2>. QED BY <2>2, <2>3, <2>4 DEF CallInv
<1>3. CASE DispatchStep
  BY <1>3, DispatchFrame DEF CallInv, senderVars, history
<1>4. CASE UNCHANGED vars
  BY <1>4 DEF CallInv, vars, senderVars, history
<1>. QED BY <1>1, <1>2, <1>3, <1>4, Steps

\* Fragments are never taken back.
LEMMA HasGrows ==
  ASSUME sent \subseteq sent'
  PROVE  \A c, o : Has(c, o) => Has(c, o)'
  BY DEF Has

\* An accepted fragment is with the node, and the only new one.
LEMMA AcceptsMember ==
  ASSUME NEW c, NEW id, NEW off, Accepts(c, id, off)
  PROVE  /\ sent \subseteq sent'
         /\ \E f \in sent' : f.call = c /\ f.off = off
         /\ \A f \in sent' : \/ f \in sent
                             \/ /\ f.call = c /\ f.id = id /\ f.off = off
                                /\ f.last <=> off = size[c] - 1
<1>. DEFINE new == [call |-> c, id |-> id, off |-> off, last |-> off = size[c] - 1]
<1>1. sent' = sent \cup {new}
  BY DEF Accepts
<1>2. new.call = c /\ new.id = id /\ new.off = off /\ (new.last <=> off = size[c] - 1)
  OBVIOUS
<1>. HIDE DEF new
<1>. QED BY <1>1, <1>2

\* In a sender's step the node accepts that sender's fragment or nothing.
LEMMA SentFrame ==
  ASSUME NEW s \in Senders, SenderStep(s)
  PROVE  \/ spc[s] = "send" /\ Accepts(call[s], pid[s], frag[s])
         \/ UNCHANGED node
  BY DEF SenderStep, ReadPacketId, WritePacketId, FragmentAccepted, FragmentRefused, ConfirmLost,
         Scan, StoreBusy, StoreCb, StorePdu

\* A new call has no fragments yet, and disturbs those of no other call.
LEMMA FragBegin ==
  ASSUME TypeOK, CallInv, FragInv,
         NEW s \in Senders, NEW k \in 1 .. MaxFrags, NEW w \in BOOLEAN, Begin(s, k, w)
  PROVE  FragInv'
<1>. USE BeginFrame, Sizes
<1>1. calls \in 0 .. MaxCalls /\ calls' = calls + 1 /\ sent' = sent
  BY DEF TypeOK
<1>2. \A c \in 1 .. calls : size'[c] = size[c]
  BY <1>1 DEF Calls
<1>3. \A f \in sent' : /\ f.call <= calls'
                       /\ f.off < size'[f.call]
                       /\ f.last <=> f.off = size'[f.call] - 1
  <2>. SUFFICES ASSUME NEW f \in sent
                PROVE  /\ f.call <= calls'
                       /\ f.off < size'[f.call]
                       /\ f.last <=> f.off = size'[f.call] - 1
    BY <1>1
  <2>1. f.call \in 1 .. calls
    BY DEF TypeOK, Fragments, Calls, FragInv
  <2>2. size'[f.call] = size[f.call]
    BY <2>1, <1>2
  <2>. QED BY <2>1, <2>2, <1>1 DEF FragInv
<1>4. ASSUME NEW t \in Senders
      PROVE  /\ spc'[t] # "idle" => frag'[t] < size'[call'[t]]
             /\ spc'[t] \in {"read", "write"} => frag'[t] = 0
             /\ spc'[t] = "send" => \A o \in 0 .. frag'[t] - 1 : Has(call[t], o)'
  <2>1. CASE t = s
    BY <1>1, <2>1
  <2>2. CASE t # s
    <3>1. /\ spc'[t] = spc[t] /\ call'[t] = call[t] /\ frag'[t] = frag[t]
          /\ spc[t] # "idle" => call[t] \in 1 .. calls
      BY <2>2 DEF CallInv
    <3>2. \A c, o : Has(c, o) => Has(c, o)'
      BY <1>1, HasGrows
    <3>3. spc[t] # "idle" => size'[call'[t]] = size[call[t]]
      BY <1>2, <3>1
    <3>. QED BY <3>1, <3>2, <3>3 DEF FragInv
  <2>. QED BY <2>1, <2>2
<1>. QED BY <1>3, <1>4 DEF FragInv

\* Where a sender's step leaves its fragment counter.
LEMMA FragStep ==
  ASSUME TypeOK, CallInv, NEW s \in Senders, SenderStep(s)
  PROVE  /\ \/ frag'[s] = frag[s]
            \/ frag[s] < size[call[s]] - 1 /\ frag'[s] = frag[s] + 1
         /\ spc'[s] \in {"read", "write"} => spc[s] = "read" /\ frag'[s] = frag[s]
         /\ spc'[s] = "send" =>
              \/ spc[s] = "write" /\ frag'[s] = frag[s]
              \/ /\ spc[s] = "send" /\ frag'[s] = frag[s] + 1
                 /\ Accepts(call[s], pid[s], frag[s])
         /\ spc'[s] \in {"scan", "busy", "cb", "pdu"} =>
              \/ spc[s] \in {"scan", "busy", "cb", "pdu"}
              \/ /\ spc[s] = "send" /\ frag[s] = size[call[s]] - 1 /\ wants[call[s]]
                 /\ Accepts(call[s], pid[s], frag[s])
<1>1. CASE ReadPacketId(s)
  BY <1>1 DEF ReadPacketId, Goto, TypeOK
<1>2. CASE WritePacketId(s)
  BY <1>2 DEF WritePacketId, Goto, TypeOK
<1>3. CASE FragmentAccepted(s)
  BY <1>3 DEF FragmentAccepted, Goto, Returns, TypeOK
<1>4. CASE FragmentRefused(s) \/ ConfirmLost(s)
  BY <1>4 DEF FragmentRefused, ConfirmLost, Goto, Returns, TypeOK
<1>5. CASE Scan(s)
  BY <1>5 DEF Scan, Goto, Returns, TypeOK
<1>6. CASE StoreBusy(s) \/ StoreCb(s) \/ StorePdu(s)
  BY <1>6 DEF StoreBusy, StoreCb, StorePdu, Goto, Returns, TypeOK
<1>. QED BY <1>1, <1>2, <1>3, <1>4, <1>5, <1>6 DEF SenderStep

LEMMA FragSender ==
  ASSUME TypeOK, CallInv, FragInv, NEW s \in Senders, SenderStep(s)
  PROVE  FragInv'
<1>. USE Sizes
<1>1. UNCHANGED <<calls, size, call>> /\ spc[s] # "idle" /\ call[s] \in 1 .. calls
  BY SenderFrame, ResultFrame DEF CallInv
<1>2. /\ frag[s] \in 0 .. MaxFrags - 1 /\ size[call[s]] \in 0 .. MaxFrags
      /\ frag[s] < size[call[s]]
  BY <1>1, ResultFrame DEF TypeOK, FragInv
<1>3. sent \subseteq sent' /\ (\A c, o : Has(c, o) => Has(c, o)')
  <2>1. sent \subseteq sent'
    BY SentFrame, AcceptsMember DEF node
  <2>. QED BY <2>1, HasGrows
<1>4. \A f \in sent' : /\ f.call <= calls'
                       /\ f.off < size'[f.call]
                       /\ f.last <=> f.off = size'[f.call] - 1
  <2>. SUFFICES ASSUME NEW f \in sent'
                PROVE  /\ f.call <= calls
                       /\ f.off < size[f.call]
                       /\ f.last <=> f.off = size[f.call] - 1
    BY <1>1
  <2>1. CASE f \in sent
    BY <2>1 DEF FragInv
  <2>2. CASE f \notin sent
    <3>1. f.call = call[s] /\ f.off = frag[s] /\ (f.last <=> frag[s] = size[call[s]] - 1)
      BY <2>2, SentFrame, AcceptsMember DEF node
    <3>. QED BY <3>1, <1>1, <1>2
  <2>. QED BY <2>1, <2>2
<1>5. ASSUME NEW t \in Senders
      PROVE  /\ spc'[t] # "idle" => frag'[t] < size'[call'[t]]
             /\ spc'[t] \in {"read", "write"} => frag'[t] = 0
             /\ spc'[t] = "send" => \A o \in 0 .. frag'[t] - 1 : Has(call[t], o)'
  <2>1. CASE t # s
    <3>1. spc'[t] = spc[t] /\ frag'[t] = frag[t]
      BY <2>1, SenderFrame
    <3>. QED BY <1>1, <1>3, <3>1 DEF FragInv
  <2>2. CASE t = s
    <3>1. spc'[s] # "idle" => frag'[s] < size'[call'[s]]
      BY <1>1, <1>2, FragStep
    <3>2. spc'[s] \in {"read", "write"} => frag'[s] = 0
      BY FragStep DEF FragInv
    <3>3. spc'[s] = "send" => \A o \in 0 .. frag'[s] - 1 : Has(call[s], o)'
      <4>1. CASE spc[s] = "write" /\ frag'[s] = frag[s]
        <5>1. frag'[s] = 0
          BY <4>1 DEF FragInv
        <5>. QED BY <5>1
      <4>2. CASE /\ spc[s] = "send" /\ frag'[s] = frag[s] + 1
                 /\ Accepts(call[s], pid[s], frag[s])
        <5>1. \A o \in 0 .. frag[s] - 1 : Has(call[s], o)'
          BY <4>2, <1>1, <1>3 DEF FragInv
        <5>2. \A o : o = frag[s] => Has(call[s], o)'
          <6>1. \E f \in sent' : f.call = call[s] /\ f.off = frag[s]
            BY <4>2, AcceptsMember
          <6>. QED BY <6>1, <1>1 DEF Has
        <5>3. \A o \in 0 .. frag'[s] - 1 : o \in 0 .. frag[s] - 1 \/ o = frag[s]
          BY <4>2, <1>2
        <5>. QED BY <5>1, <5>2, <5>3
      <4>. QED BY <4>1, <4>2, FragStep
    <3>. QED BY <2>2, <3>1, <3>2, <3>3
  <2>. QED BY <2>1, <2>2
<1>. QED BY <1>4, <1>5 DEF FragInv

LEMMA FragNext == TypeOK /\ CallInv /\ FragInv /\ [Next]_vars => FragInv'
<1>. SUFFICES ASSUME TypeOK, CallInv, FragInv, [Next]_vars PROVE FragInv'
  OBVIOUS
<1>1. CASE DispatchStep \/ UNCHANGED vars
  <2>1. UNCHANGED <<senderVars, sent, history>>
    BY <1>1, DispatchFrame DEF vars, node
  <2>. QED BY <2>1 DEF FragInv, Has, senderVars, history
<1>. QED BY <1>1, FragBegin, FragSender, Steps

\* The final fragment completes the message.
LEMMA FinalCompletes ==
  ASSUME TypeOK, CallInv, FragInv, NEW s \in Senders, SenderStep(s),
         spc[s] = "send", frag[s] = size[call[s]] - 1, Accepts(call[s], pid[s], frag[s])
  PROVE  Whole(call[s])'
<1>1. UNCHANGED <<size, call>> /\ call[s] \in Calls
  BY SenderFrame, ResultFrame
<1>2. sent \subseteq sent' /\ \E f \in sent' : f.call = call[s] /\ f.off = frag[s]
  BY AcceptsMember
<1>3. \A c, o : Has(c, o) => Has(c, o)'
  BY <1>2, HasGrows
<1>4. \A o \in 0 .. frag[s] - 1 : Has(call[s], o)'
  BY <1>1, <1>3 DEF FragInv
<1>5. \A o : o = frag[s] => Has(call[s], o)'
  BY <1>2, <1>1 DEF Has
<1>6. \A o \in 0 .. size[call[s]] - 1 : o \in 0 .. frag[s] - 1 \/ o = frag[s]
  <2>1. frag[s] \in Nat
    BY Sizes DEF TypeOK
  <2>. QED BY <2>1
<1>. QED BY <1>1, <1>4, <1>5, <1>6 DEF Whole

\* A message whole with the node stays so.
LEMMA WholeStays ==
  ASSUME TypeOK, CallInv, NEW s \in Senders, SenderStep(s)
  PROVE  \A c : Whole(c) => Whole(c)'
<1>1. UNCHANGED size
  BY SenderFrame
<1>2. sent \subseteq sent'
  BY SentFrame, AcceptsMember DEF node
<1>3. \A c, o : Has(c, o) => Has(c, o)'
  BY <1>2, HasGrows
<1>. QED BY <1>1, <1>3 DEF Whole

\* The final fragment completes the message; nothing is taken back afterwards.
LEMMA DoneSender ==
  ASSUME TypeOK, CallInv, FragInv, DoneInv, NEW s \in Senders, SenderStep(s)
  PROVE  DoneInv'
<1>. USE Sizes
<1>1. UNCHANGED <<calls, size, call>> /\ spc[s] # "idle" /\ call[s] \in Calls
  BY SenderFrame, ResultFrame
<1>2. \A c \in Calls : Whole(c) => Whole(c)'
  BY WholeStays
<1>3. ASSUME spc[s] = "send", frag[s] = size[call[s]] - 1, Accepts(call[s], pid[s], frag[s])
      PROVE  Whole(call[s])'
  BY <1>3, FinalCompletes
<1>4. ASSUME NEW t \in Senders, spc'[t] \in {"scan", "busy", "cb", "pdu"}
      PROVE  Whole(call[t])'
  <2>1. CASE t # s
    <3>1. spc[t] \in {"scan", "busy", "cb", "pdu"} /\ call[t] \in Calls
      <4>1. spc[t] \in {"scan", "busy", "cb", "pdu"}
        BY <1>4, <2>1, SenderFrame
      <4>2. call[t] \in 1 .. calls
        BY <4>1 DEF CallInv
      <4>. QED BY <4>1, <4>2, Sizes DEF TypeOK, Calls
    <3>2. Whole(call[t])
      BY <3>1 DEF DoneInv
    <3>3. \A c \in Calls : c = call[t] => Whole(c)'
      BY <3>1, <3>2, <1>2
    <3>. QED BY <3>1, <3>3, <1>1
  <2>2. CASE t = s
    <3>1. CASE spc[s] \in {"scan", "busy", "cb", "pdu"}
      <4>1. Whole(call[s])
        BY <3>1 DEF DoneInv
      <4>2. \A c \in Calls : c = call[s] => Whole(c)'
        BY <4>1, <1>2
      <4>. QED BY <4>2, <1>1, <2>2
    <3>2. CASE spc[s] = "send" /\ frag[s] = size[call[s]] - 1 /\ Accepts(call[s], pid[s], frag[s])
      BY <3>2, <1>3, <2>2
    <3>. QED BY <1>4, <2>2, <3>1, <3>2, FragStep
  <2>. QED BY <2>1, <2>2
<1>5. ASSUME NEW c \in Calls, result'[c] = "ok"
      PROVE  Whole(c)'
  <2>1. CASE result[c] = "ok"
    BY <2>1, <1>2 DEF DoneInv
  <2>2. CASE result[c] # "ok"
    <3>1. c = call[s]
      BY <1>5, <2>2, ResultFrame
    <3>2. CASE FragmentAccepted(s) /\ frag[s] = size[call[s]] - 1
      BY <3>1, <3>2, <1>1, <1>3 DEF FragmentAccepted, Whole
    <3>3. CASE spc[s] \in {"scan", "pdu"}
      BY <3>1, <3>3, <1>1, <1>2 DEF DoneInv
    <3>. QED BY <1>5, <3>1, <3>2, <3>3, ResultFrame
  <2>. QED BY <2>1, <2>2
<1>. QED BY <1>4, <1>5 DEF DoneInv

LEMMA DoneBegin ==
  ASSUME TypeOK, CallInv, DoneInv,
         NEW s \in Senders, NEW k \in 1 .. MaxFrags, NEW w \in BOOLEAN, Begin(s, k, w)
  PROVE  /\ \A c \in 1 .. calls : Whole(c) <=> Whole(c)'
         /\ DoneInv'
<1>. USE BeginFrame, Sizes
<1>1. calls \in 0 .. MaxCalls /\ calls' = calls + 1 /\ sent' = sent /\ result' = result
  BY DEF TypeOK
<1>2. \A c \in 1 .. calls : size'[c] = size[c]
  BY <1>1 DEF Calls
<1>3. \A c \in 1 .. calls : Whole(c) <=> Whole(c)'
  BY <1>1, <1>2 DEF Whole, Has
<1>4. ASSUME NEW t \in Senders, spc'[t] \in {"scan", "busy", "cb", "pdu"}
      PROVE  Whole(call[t])'
  <2>1. t # s
    BY <1>4
  <2>2. spc[t] = spc'[t] /\ call'[t] = call[t]
    BY <2>1
  <2>3. call[t] \in 1 .. calls /\ Whole(call[t])
    BY <1>4, <2>2 DEF CallInv, DoneInv
  <2>4. \A c \in 1 .. calls : c = call[t] => Whole(c)'
    BY <2>3, <1>3
  <2>. QED BY <2>2, <2>3, <2>4
<1>5. ASSUME NEW c \in Calls, result'[c] = "ok"
      PROVE  Whole(c)'
  <2>1. c \in 1 .. calls /\ Whole(c)
    BY <1>1, <1>5 DEF CallInv, DoneInv, Calls
  <2>. QED BY <2>1, <1>3
<1>. QED BY <1>3, <1>4, <1>5 DEF DoneInv

LEMMA DoneNext == TypeOK /\ CallInv /\ FragInv /\ DoneInv /\ [Next]_vars => DoneInv'
<1>. SUFFICES ASSUME TypeOK, CallInv, FragInv, DoneInv, [Next]_vars PROVE DoneInv'
  OBVIOUS
<1>1. CASE DispatchStep \/ UNCHANGED vars
  <2>1. UNCHANGED <<senderVars, sent, history>>
    BY <1>1, DispatchFrame DEF vars, node
  <2>. QED BY <2>1 DEF DoneInv, Whole, Has, senderVars, history
<1>. QED BY <1>1, DoneBegin, DoneSender, Steps

\* Nothing has been sent at the start.
LEMMA InvInit == Init => Inv
<1>. SUFFICES ASSUME Init PROVE Inv
  OBVIOUS
<1>1. TypeOK
  <2>1. [i \in Slots |-> FALSE] \in [Slots -> BOOLEAN] /\ [c \in Calls |-> FALSE] \in [Calls -> BOOLEAN]
    BY Zenon
  <2>2. << >> \in Seq([call : Calls, id : 0 .. IdSpan - 1])
    BY EmptySeq
  <2>3. [e \in Calls \X Calls |-> 0] \in [Calls \X Calls -> Nat]
    BY Zenon
  <2>4. called \in [Calls \X Calls -> Nat]
    BY <2>3 DEF Init
  <2>5. taken \in Seq([call : Calls, id : 0 .. IdSpan - 1])
    BY <2>2 DEF Init
  <2>6. /\ spc \in [Senders -> {"idle", "read", "write", "send", "scan", "busy", "cb", "pdu"}]
        /\ call \in [Senders -> 0 .. MaxCalls] /\ pid \in [Senders -> 0 .. NoId]
        /\ frag \in [Senders -> 0 .. MaxFrags - 1] /\ slot \in [Senders -> Slots]
    BY Sizes DEF Init, Slots, NoId
  <2>7. /\ packetId \in 0 .. IdSpan - 1
        /\ busy \in [Slots -> BOOLEAN]
        /\ cb \in [Slots -> 0 .. MaxCalls] /\ pdu \in [Slots -> 0 .. MaxCalls]
    BY <2>1, Sizes DEF Init
  <2>8. /\ sent \subseteq Fragments /\ reports \subseteq Calls \X (0 .. MaxFrags - 1)
        /\ calls \in 0 .. MaxCalls
        /\ size \in [Calls -> 0 .. MaxFrags] /\ wants \in [Calls -> BOOLEAN]
        /\ result \in [Calls -> {"none", "ok", "failed"}]
    BY <2>1, Sizes DEF Init
  <2>9. /\ dpc \in {"idle", "look", "load", "call"}
        /\ dpdu \in 0 .. MaxCalls /\ dslot \in Slots /\ dcb \in 0 .. MaxCalls
    BY Sizes DEF Init, Slots
  <2>10. raced \in BOOLEAN /\ inTime \subseteq Calls /\ crossed \subseteq Calls \X Calls /\ clashed \in BOOLEAN
    BY Zenon DEF Init
  <2>. QED BY <2>4, <2>5, <2>6, <2>7, <2>8, <2>9, <2>10 DEF TypeOK
<1>2. CallInv
  BY Sizes DEF Init, CallInv, Calls
<1>3. FragInv /\ DoneInv
  BY DEF Init, FragInv, DoneInv
<1>4. DispatchInv
  BY DEF Init, DispatchInv
<1>. QED BY <1>1, <1>2, <1>3, <1>4 DEF Inv

LEMMA InvNext == Inv /\ [Next]_vars => Inv'
  BY TypeNext, DispatchNext, CallNext, FragNext, DoneNext DEF Inv

\* The invariant of dsap_data_tx_request, for any number of senders.
THEOREM Invariance == Spec => []Inv
<1>. QED BY InvInit, InvNext, PTL DEF Spec

\* Every variable of the senders, the table and the node keeps its type: in
\* particular the table index and the fragment counter stay in range.
THEOREM TypeCorrect == Spec => []TypeOK
<1>1. Inv => TypeOK
  BY DEF Inv
<1>. QED BY <1>1, Invariance, PTL

\* The offsets accepted of a whole message are those of its pieces, no other.
LEMMA WholeIsComplete ==
  ASSUME TypeOK, FragInv, NEW c \in Calls, Whole(c)
  PROVE  Complete(c)
<1>1. \A o \in 0 .. size[c] - 1 : o \in {f.off : f \in Accepted(c)}
  BY DEF Whole, Has, Accepted
<1>2. \A f \in Accepted(c) : f.off \in 0 .. size[c] - 1
  BY Sizes DEF Accepted, TypeOK, Fragments, FragInv
<1>. QED BY <1>1, <1>2 DEF Complete

\* A call that returns success (lines 222-269, 288) has had every one of its
\* fragments accepted, the final one flagged, however many senders there are.
THEOREM OkMeansCompleteHolds == Spec => []OkMeansComplete
<1>1. Inv => OkMeansComplete
  <2>. SUFFICES ASSUME Inv, NEW c \in Calls, result[c] = "ok"
                PROVE  /\ Complete(c)
                       /\ {f.off : f \in {g \in Accepted(c) : g.last}} = {size[c] - 1}
    BY DEF OkMeansComplete
  <2>1. TypeOK /\ CallInv /\ FragInv /\ Whole(c)
    BY DEF Inv, DoneInv
  <2>2. Complete(c)
    BY <2>1, WholeIsComplete
  <2>3. size[c] \in Nat /\ size[c] >= 1
    <3>1. c \in Nat /\ calls \in Nat /\ ~(c > calls)
      BY <2>1, Sizes DEF CallInv, TypeOK, Calls
    <3>. QED BY <2>1, <3>1 DEF CallInv, TypeOK
  <2>4. Has(c, size[c] - 1)
    BY <2>1, <2>3 DEF Whole
  <2>5. \E f \in Accepted(c) : f.off = size[c] - 1 /\ f.last
    BY <2>1, <2>4 DEF Has, Accepted, FragInv
  <2>6. \A f \in Accepted(c) : f.last => f.off = size[c] - 1
    BY <2>1 DEF Accepted, FragInv
  <2>. QED BY <2>2, <2>5, <2>6
<1>. QED BY <1>1, Invariance, PTL

----------------------------------------------------------------------------
(* The packet id                                                           *)

\* Taking the next id brings it one message nearer at most.
LEMMA Distances ==
  ASSUME NEW i \in 0 .. IdSpan - 1, NEW j \in 0 .. IdSpan - 1
  PROVE  /\ Distance(i, j) \in 1 .. IdSpan
         /\ Distance(i, i) = IdSpan
         /\ Distance(i, FollowingId(i)) = 1
         /\ Distance(i, FollowingId(j)) <= Distance(i, j) + 1
  BY Sizes, Following DEF Distance

\* The ids taken, in the order of the turns.
LEMMA TakenTypes ==
  ASSUME TypeOK
  PROVE  /\ Len(taken) \in Nat /\ DOMAIN taken = 1 .. Len(taken)
         /\ packetId \in 0 .. IdSpan - 1 /\ calls \in Nat
         /\ \A i \in DOMAIN taken : taken[i].id \in 0 .. IdSpan - 1 /\ taken[i].call \in Calls
<1>1. taken \in Seq([call : Calls, id : 0 .. IdSpan - 1])
  BY DEF TypeOK
<1>2. Len(taken) \in Nat /\ DOMAIN taken = 1 .. Len(taken)
  BY <1>1, LenProperties
<1>3. \A i \in DOMAIN taken : taken[i] \in [call : Calls, id : 0 .. IdSpan - 1]
  BY <1>1, <1>2, ElementOfSeq
<1>4. packetId \in 0 .. IdSpan - 1 /\ calls \in Nat
  BY Sizes DEF TypeOK
<1>. QED BY <1>2, <1>3, <1>4

\* Reading packet_id takes another turn.
LEMMA TakenRead ==
  ASSUME TypeOK, NEW s \in Senders, ReadPacketId(s)
  PROVE  /\ Len(taken') = Len(taken) + 1 /\ DOMAIN taken' = 1 .. Len(taken) + 1
         /\ taken'[Len(taken) + 1].call = call[s] /\ taken'[Len(taken) + 1].id = packetId
         /\ \A i \in DOMAIN taken : i \in DOMAIN taken' /\ taken'[i] = taken[i]
         /\ \A i \in DOMAIN taken' : i \in DOMAIN taken \/ i = Len(taken) + 1
<1>1. Len(taken) \in Nat /\ DOMAIN taken = 1 .. Len(taken)
  BY TakenTypes
<1>2. taken' = Append(taken, [call |-> call[s], id |-> packetId])
  BY DEF ReadPacketId
<1>. QED BY <1>1, <1>2

\* In every step but the two halves of packet_id++ the id, its turns and the
\* writers stay, and so does the id of the message being sent.
LEMMA PacketFrame ==
  ASSUME TypeOK, NEW s \in Senders, SenderStep(s), ~ReadPacketId(s), ~WritePacketId(s)
  PROVE  /\ UNCHANGED <<packetId, pid, taken, raced>>
         /\ spc[s] \notin {"read", "write"} /\ spc'[s] \notin {"read", "write"}
         /\ spc'[s] = "send" => spc[s] = "send"
<1>1. UNCHANGED <<packetId, pid, taken, raced>> /\ spc[s] \notin {"read", "write"}
  BY DEF SenderStep, FragmentAccepted, FragmentRefused, ConfirmLost,
         Scan, StoreBusy, StoreCb, StorePdu, idHistory
<1>2. CASE FragmentAccepted(s)
  BY <1>1, <1>2 DEF FragmentAccepted, Goto, Returns, TypeOK
<1>3. CASE FragmentRefused(s) \/ ConfirmLost(s)
  BY <1>1, <1>3 DEF FragmentRefused, ConfirmLost, Goto, Returns, TypeOK
<1>4. CASE Scan(s) \/ StoreBusy(s) \/ StoreCb(s) \/ StorePdu(s)
  BY <1>1, <1>4 DEF Scan, StoreBusy, StoreCb, StorePdu, Goto, Returns, TypeOK
<1>. QED BY <1>2, <1>3, <1>4 DEF SenderStep

\* Reading and writing the id.
LEMMA ReadFrame ==
  ASSUME TypeOK, NEW s \in Senders, ReadPacketId(s)
  PROVE  /\ spc[s] = "read" /\ spc'[s] = "write" /\ pid'[s] = packetId
         /\ \A t \in Senders \ {s} : spc'[t] = spc[t] /\ pid'[t] = pid[t]
         /\ UNCHANGED <<packetId, sent, call, calls>>
         /\ raced' = (raced \/ \E t \in Senders : spc[t] = "write")
  BY DEF ReadPacketId, Goto, TypeOK, node, history

LEMMA WriteFrame ==
  ASSUME TypeOK, NEW s \in Senders, WritePacketId(s)
  PROVE  /\ spc[s] = "write" /\ spc'[s] = "send" /\ packetId' = FollowingId(pid[s])
         /\ \A t \in Senders \ {s} : spc'[t] = spc[t]
         /\ UNCHANGED <<pid, sent, call, calls, taken, raced>>
  BY DEF WritePacketId, Goto, TypeOK, node, history, idHistory

\* A message has one turn, whose id its fragments carry.
LEMMA LinkBegin ==
  ASSUME TypeOK, CallInv, LinkInv,
         NEW s \in Senders, NEW k \in 1 .. MaxFrags, NEW w \in BOOLEAN, Begin(s, k, w)
  PROVE  LinkInv'
<1>1. /\ spc'[s] \in {"read", "send"} /\ pid'[s] = NoId /\ call'[s] = calls + 1
      /\ \A t \in Senders \ {s} : UNCHANGED <<spc[t], call[t], pid[t]>>
      /\ calls' = calls + 1 /\ UNCHANGED <<sent, taken>>
  BY BeginFrame
<1>2. calls \in Nat /\ \A i \in DOMAIN taken : taken[i].call \in Nat /\ taken[i].call <= calls
  BY TakenTypes, Sizes DEF LinkInv, Calls
<1>3. \A f \in sent' : f.id # NoId =>
        \E i \in DOMAIN taken' : taken'[i].call = f.call /\ taken'[i].id = f.id
  BY <1>1 DEF LinkInv
<1>4. \A t \in Senders : spc'[t] \in {"write", "send"} /\ pid'[t] # NoId =>
        \E i \in DOMAIN taken' : taken'[i].call = call'[t] /\ taken'[i].id = pid'[t]
  BY <1>1 DEF LinkInv
<1>5. \A t \in Senders : spc'[t] = "read" => \A i \in DOMAIN taken' : taken'[i].call # call'[t]
  <2>. SUFFICES ASSUME NEW t \in Senders, spc'[t] = "read", NEW i \in DOMAIN taken
                PROVE  taken[i].call # call'[t]
    BY <1>1
  <2>1. CASE t = s
    BY <2>1, <1>1, <1>2
  <2>2. CASE t # s
    BY <2>2, <1>1 DEF LinkInv
  <2>. QED BY <2>1, <2>2
<1>6. \A i \in DOMAIN taken' : taken'[i].call <= calls'
  BY <1>1, <1>2
<1>7. \A i, j \in DOMAIN taken' : taken'[i].call = taken'[j].call => i = j
  BY <1>1 DEF LinkInv
<1>. QED BY <1>3, <1>4, <1>5, <1>6, <1>7 DEF LinkInv

LEMMA LinkRead ==
  ASSUME TypeOK, CallInv, LinkInv, NEW s \in Senders, ReadPacketId(s)
  PROVE  LinkInv'
<1>. USE ReadFrame, TakenRead
<1>1. /\ \A i \in DOMAIN taken : taken[i].call # call[s]
      /\ call[s] <= calls /\ Len(taken) \in Nat /\ DOMAIN taken = 1 .. Len(taken)
  BY TakenTypes DEF LinkInv, CallInv
<1>2. Len(taken) + 1 \in DOMAIN taken' /\ Len(taken) + 1 \notin DOMAIN taken
  BY <1>1
<1>3. \A f \in sent' : f.id # NoId =>
        \E i \in DOMAIN taken' : taken'[i].call = f.call /\ taken'[i].id = f.id
  BY DEF LinkInv
<1>4. \A t \in Senders : spc'[t] \in {"write", "send"} /\ pid'[t] # NoId =>
        \E i \in DOMAIN taken' : taken'[i].call = call'[t] /\ taken'[i].id = pid'[t]
  <2>. SUFFICES ASSUME NEW t \in Senders, spc'[t] \in {"write", "send"}, pid'[t] # NoId
                PROVE  \E i \in DOMAIN taken' : taken'[i].call = call'[t] /\ taken'[i].id = pid'[t]
    OBVIOUS
  <2>1. CASE t = s
    BY <2>1, <1>2
  <2>2. CASE t # s
    BY <2>2 DEF LinkInv
  <2>. QED BY <2>1, <2>2
<1>5. \A t \in Senders : spc'[t] = "read" => \A i \in DOMAIN taken' : taken'[i].call # call'[t]
  <2>. SUFFICES ASSUME NEW t \in Senders, spc'[t] = "read", NEW i \in DOMAIN taken'
                PROVE  taken'[i].call # call'[t]
    OBVIOUS
  <2>1. t # s /\ spc[t] = "read" /\ call'[t] = call[t]
    OBVIOUS
  <2>2. call[t] # call[s]
    BY <2>1 DEF CallInv
  <2>. QED BY <2>1, <2>2 DEF LinkInv
<1>6. \A i \in DOMAIN taken' : taken'[i].call <= calls'
  BY <1>1 DEF LinkInv
<1>7. \A i, j \in DOMAIN taken' : taken'[i].call = taken'[j].call => i = j
  BY <1>1, <1>2 DEF LinkInv
<1>. QED BY <1>3, <1>4, <1>5, <1>6, <1>7 DEF LinkInv

LEMMA LinkOther ==
  ASSUME TypeOK, CallInv, LinkInv, NEW s \in Senders, SenderStep(s), ~ReadPacketId(s)
  PROVE  LinkInv'
<1>1. /\ UNCHANGED <<taken, pid, call, calls>>
      /\ \A t \in Senders : /\ spc'[t] = "read" => spc[t] = "read"
                            /\ spc'[t] \in {"write", "send"} => spc[t] \in {"write", "send"}
  <2>1. CASE WritePacketId(s)
    BY <2>1, WriteFrame
  <2>2. CASE ~WritePacketId(s)
    BY <2>2, PacketFrame, SenderFrame
  <2>. QED BY <2>1, <2>2
<1>2. \A f \in sent' : f \in sent \/ (f.call = call[s] /\ f.id = pid[s] /\ spc[s] = "send")
  BY SentFrame, AcceptsMember DEF node
<1>3. \A f \in sent' : f.id # NoId =>
        \E i \in DOMAIN taken' : taken'[i].call = f.call /\ taken'[i].id = f.id
  <2>. SUFFICES ASSUME NEW f \in sent', f.id # NoId
                PROVE  \E i \in DOMAIN taken : taken[i].call = f.call /\ taken[i].id = f.id
    BY <1>1
  <2>1. CASE f \in sent
    BY <2>1 DEF LinkInv
  <2>2. CASE f.call = call[s] /\ f.id = pid[s] /\ spc[s] = "send"
    BY <2>2 DEF LinkInv
  <2>. QED BY <1>2, <2>1, <2>2
<1>. QED BY <1>1, <1>3 DEF LinkInv

LEMMA LinkNext == TypeOK /\ CallInv /\ LinkInv /\ [Next]_vars => LinkInv'
<1>. SUFFICES ASSUME TypeOK, CallInv, LinkInv, [Next]_vars PROVE LinkInv'
  OBVIOUS
<1>1. CASE DispatchStep \/ UNCHANGED vars
  <2>1. UNCHANGED <<spc, call, pid, sent, calls, taken>>
    BY <1>1, DispatchFrame DEF vars, senderVars, node, history, idHistory
  <2>. QED BY <2>1 DEF LinkInv
<1>. QED BY <1>1, LinkBegin, LinkRead, LinkOther, Steps

\* A turn taken with no writer about is IdSpan after the last one with the id.
LEMMA SpacedRead ==
  ASSUME TypeOK, SpacedInv, NEW s \in Senders, ReadPacketId(s)
  PROVE  SpacedInv'
<1>. USE ReadFrame, TakenRead
<1>. SUFFICES ASSUME raced' = FALSE PROVE SpacedInv'
  BY DEF SpacedInv, TypeOK
<1>1. ~raced /\ \A t \in Senders : spc[t] # "write"
  OBVIOUS
<1>2. Len(taken) \in Nat /\ DOMAIN taken = 1 .. Len(taken) /\ packetId \in 0 .. IdSpan - 1
  BY TakenTypes
<1>3. Shown = Len(taken) /\ Shown' = Len(taken)
  <2>1. Shown = Len(taken)
    BY <1>1 DEF Shown
  <2>2. \E t \in Senders : spc'[t] = "write"
    OBVIOUS
  <2>3. Shown' = Len(taken') - 1
    BY <2>2 DEF Shown
  <2>4. Len(taken') = Len(taken) + 1
    OBVIOUS
  <2>. QED BY <2>1, <2>3, <2>4, <1>2
<1>4. \A t \in Senders : spc'[t] = "write" => t = s
  BY <1>1
<1>5. \A i \in DOMAIN taken : /\ taken'[i] = taken[i] /\ i <= Len(taken)
                              /\ Len(taken) + 1 - i >= Distance(taken[i].id, packetId)
  BY <1>1, <1>2, <1>3 DEF SpacedInv
<1>6. \A i \in DOMAIN taken' : i <= Shown' => Shown' + 1 - i >= Distance(taken'[i].id, packetId')
  <2>1. \A i \in DOMAIN taken' : i <= Len(taken) => i \in DOMAIN taken
    BY <1>2
  <2>2. \A i \in DOMAIN taken : Distance(taken'[i].id, packetId') = Distance(taken[i].id, packetId)
    BY <1>5 DEF Distance
  <2>. QED BY <1>3, <1>5, <2>1, <2>2
<1>7. \A i, j \in DOMAIN taken' : i < j /\ taken'[i].id = taken'[j].id => j - i >= IdSpan
  <2>. SUFFICES ASSUME NEW i \in DOMAIN taken', NEW j \in DOMAIN taken',
                       i < j, taken'[i].id = taken'[j].id
                PROVE  j - i >= IdSpan
    OBVIOUS
  <2>1. i \in DOMAIN taken
    BY <1>2
  <2>2. CASE j \in DOMAIN taken
    BY <2>1, <2>2, <1>1 DEF SpacedInv
  <2>3. CASE j = Len(taken) + 1
    <3>1. taken[i].id = packetId
      BY <2>1, <2>3
    <3>2. Distance(taken[i].id, packetId) = IdSpan
      BY <3>1, <1>2, Distances
    <3>. QED BY <2>1, <2>3, <3>2, <1>5
  <2>. QED BY <2>2, <2>3
<1>8. \A t \in Senders : spc'[t] = "write" =>
        pid'[t] = packetId' /\ Len(taken') >= 1 /\ taken'[Len(taken')].id = packetId'
  BY <1>2, <1>4
<1>. QED BY <1>4, <1>6, <1>7, <1>8 DEF SpacedInv

\* Moving the id past the turn that took it.
LEMMA SpacedWrite ==
  ASSUME TypeOK, SpacedInv, NEW s \in Senders, WritePacketId(s)
  PROVE  SpacedInv'
<1>. USE WriteFrame
<1>. SUFFICES ASSUME ~raced PROVE SpacedInv'
  BY DEF SpacedInv
<1>1. /\ \A t \in Senders : spc[t] = "write" => t = s
      /\ pid[s] = packetId /\ Len(taken) >= 1 /\ taken[Len(taken)].id = packetId
  BY DEF SpacedInv
<1>2. /\ Len(taken) \in Nat /\ DOMAIN taken = 1 .. Len(taken) /\ packetId \in 0 .. IdSpan - 1
      /\ \A i \in DOMAIN taken : taken[i].id \in 0 .. IdSpan - 1
  BY TakenTypes
<1>3. Shown = Len(taken) - 1 /\ Shown' = Len(taken) /\ \A t \in Senders : spc'[t] # "write"
  BY <1>1, <1>2 DEF Shown
<1>4. packetId' = FollowingId(packetId) /\ packetId' \in 0 .. IdSpan - 1
  BY <1>1, <1>2, Following
<1>5. \A i \in DOMAIN taken : Len(taken) + 1 - i >= Distance(taken[i].id, packetId')
  <2>. SUFFICES ASSUME NEW i \in DOMAIN taken
                PROVE  Len(taken) + 1 - i >= Distance(taken[i].id, packetId')
    OBVIOUS
  <2>1. CASE i = Len(taken)
    <3>1. Distance(taken[i].id, packetId') = 1
      BY <2>1, <1>1, <1>2, <1>4, Distances
    <3>. QED BY <2>1, <3>1, <1>2
  <2>2. CASE i # Len(taken)
    <3>1. i <= Shown /\ i \in Nat
      BY <2>2, <1>2, <1>3
    <3>2. Len(taken) - i >= Distance(taken[i].id, packetId)
      BY <3>1, <1>2, <1>3 DEF SpacedInv
    <3>3. /\ Distance(taken[i].id, packetId') <= Distance(taken[i].id, packetId) + 1
          /\ Distance(taken[i].id, packetId) \in Int /\ Distance(taken[i].id, packetId') \in Int
      <4>1. taken[i].id \in 0 .. IdSpan - 1
        BY <1>2
      <4>2. Distance(taken[i].id, packetId) \in 1 .. IdSpan
        BY <4>1, <1>2, Distances
      <4>3. Distance(taken[i].id, packetId') \in 1 .. IdSpan
        BY <4>1, <1>4, Distances
      <4>4. Distance(taken[i].id, FollowingId(packetId)) <= Distance(taken[i].id, packetId) + 1
        BY <4>1, <1>2, Distances
      <4>. QED BY <4>2, <4>3, <4>4, <1>4
    <3>. QED BY <3>1, <3>2, <3>3, <1>2
  <2>. QED BY <2>1, <2>2
<1>6. \A i \in DOMAIN taken' : Distance(taken'[i].id, packetId') = Distance(taken[i].id, packetId')
  OBVIOUS
<1>7. \A i, j \in DOMAIN taken' : i < j /\ taken'[i].id = taken'[j].id => j - i >= IdSpan
  BY DEF SpacedInv
<1>8. \A i \in DOMAIN taken' : i <= Shown' => Shown' + 1 - i >= Distance(taken'[i].id, packetId')
  BY <1>3, <1>5, <1>6
<1>. QED BY <1>3, <1>7, <1>8 DEF SpacedInv

LEMMA SpacedNext == TypeOK /\ SpacedInv /\ [Next]_vars => SpacedInv'
<1>. SUFFICES ASSUME TypeOK, SpacedInv, [Next]_vars PROVE SpacedInv'
  OBVIOUS
<1>1. ASSUME UNCHANGED <<packetId, taken, raced>>,
             \A s \in Senders : /\ spc[s] = "write" <=> spc'[s] = "write"
                                /\ spc[s] = "write" => pid'[s] = pid[s]
      PROVE  SpacedInv'
  <2>1. Shown' = Shown
    BY <1>1 DEF Shown
  <2>2. \A i \in DOMAIN taken : Distance(taken[i].id, packetId)' = Distance(taken[i].id, packetId)
    BY <1>1 DEF Distance
  <2>. QED BY <1>1, <2>1, <2>2 DEF SpacedInv, Distance
<1>2. CASE DispatchStep \/ UNCHANGED vars
  <2>1. UNCHANGED <<spc, pid, packetId, taken, raced>>
    BY <1>2, DispatchFrame DEF vars, senderVars, idHistory
  <2>. QED BY <2>1, <1>1
<1>3. ASSUME NEW s \in Senders, NEW k \in 1 .. MaxFrags, NEW w \in BOOLEAN, Begin(s, k, w)
      PROVE  SpacedInv'
  <2>1. /\ spc[s] = "idle" /\ spc'[s] \in {"send", "read"}
        /\ \A t \in Senders \ {s} : UNCHANGED <<spc[t], pid[t]>>
        /\ UNCHANGED <<packetId, taken, raced>>
    BY <1>3, BeginFrame
  <2>. QED BY <2>1, <1>1
<1>4. ASSUME NEW s \in Senders, SenderStep(s), ~ReadPacketId(s), ~WritePacketId(s)
      PROVE  SpacedInv'
  <2>1. /\ UNCHANGED <<packetId, pid, taken, raced>>
        /\ spc[s] # "write" /\ spc'[s] # "write"
        /\ \A t \in Senders \ {s} : spc'[t] = spc[t]
    BY <1>4, PacketFrame, SenderFrame
  <2>. QED BY <2>1, <1>1
<1>. QED BY <1>2, <1>3, <1>4, SpacedRead, SpacedWrite, Steps

\* Messages whose turns are apart are apart.
LEMMA SpacedApart == TypeOK /\ LinkInv /\ SpacedInv => NoMixedPackets
<1>. SUFFICES ASSUME TypeOK, LinkInv, SpacedInv, ~raced,
                     NEW f \in sent, NEW g \in sent, f.id = g.id, f.id # NoId, f.call # g.call
              PROVE  \/ Turn(g.call) - Turn(f.call) >= IdSpan
                     \/ Turn(f.call) - Turn(g.call) >= IdSpan
  BY DEF NoMixedPackets
<1>1. PICK i \in DOMAIN taken : taken[i].call = f.call /\ taken[i].id = f.id
  BY DEF LinkInv
<1>2. PICK j \in DOMAIN taken : taken[j].call = g.call /\ taken[j].id = g.id
  BY DEF LinkInv
<1>3. Turn(f.call) \in DOMAIN taken /\ taken[Turn(f.call)].call = f.call
  BY <1>1 DEF Turn
<1>4. Turn(g.call) \in DOMAIN taken /\ taken[Turn(g.call)].call = g.call
  BY <1>2 DEF Turn
<1>5. Turn(f.call) = i /\ Turn(g.call) = j
  BY <1>1, <1>2, <1>3, <1>4 DEF LinkInv
<1>6. i \in Nat /\ j \in Nat /\ i # j
  BY <1>1, <1>2, TakenTypes
<1>. QED BY <1>1, <1>2, <1>5, <1>6 DEF SpacedInv
----------------------------------------------------------------------------
(* The reports                                                             *)

\* A call that has sent its final fragment, or given up, sends no more.
LEMMA PastSender ==
  ASSUME TypeOK, CallInv, NEW s \in Senders, SenderStep(s)
  PROVE  \A c : Past(c) => Past(c)'
<1>1. UNCHANGED <<calls, call>>
  BY SenderFrame
<1>2. \A t \in Senders : spc'[t] \in {"read", "write", "send"} => spc[t] \in {"read", "write", "send"}
  BY SenderFrame, FragStep
<1>. QED BY <1>1, <1>2 DEF Past

LEMMA PastBegin ==
  ASSUME TypeOK, NEW s \in Senders, NEW k \in 1 .. MaxFrags, NEW w \in BOOLEAN, Begin(s, k, w)
  PROVE  \A c \in Nat : Past(c) => Past(c)'
<1>. SUFFICES ASSUME NEW c \in Nat, Past(c) PROVE Past(c)'
  OBVIOUS
<1>. USE BeginFrame
<1>1. calls \in Nat /\ calls' = calls + 1 /\ c <= calls
  <2>1. calls \in Nat
    BY Sizes DEF TypeOK
  <2>2. calls' = calls + 1
    OBVIOUS
  <2>. QED BY <2>1, <2>2 DEF Past
<1>2. ASSUME NEW t \in Senders, spc'[t] \in {"read", "write", "send"}
      PROVE  call'[t] # c
  <2>1. CASE t = s
    BY <1>1, <2>1
  <2>2. CASE t # s
    BY <1>2, <2>2 DEF Past
  <2>. QED BY <2>1, <2>2
<1>. QED BY <1>1, <1>2 DEF Past

\* A report asked for in a sender's step is that of its final fragment, after
\* which the sender leaves the loop of lines 222-270.
LEMMA ReportFrame ==
  ASSUME TypeOK, CallInv, NEW s \in Senders, SenderStep(s)
  PROVE  \/ UNCHANGED reports
         \/ /\ reports' = reports \cup {<<call[s], frag[s]>>}
            /\ spc[s] = "send" /\ frag[s] = size[call[s]] - 1
            /\ Accepts(call[s], pid[s], frag[s])
            /\ spc'[s] \in {"scan", "idle"}
<1>1. CASE FragmentAccepted(s)
  <2>1. /\ reports' = IF Tracked(call[s], frag[s]) THEN reports \cup {<<call[s], frag[s]>>} ELSE reports
        /\ spc[s] = "send" /\ Accepts(call[s], pid[s], frag[s])
    BY <1>1 DEF FragmentAccepted, Accepts
  <2>2. frag[s] \in Int /\ size[call[s]] \in Int
    <3>1. call[s] \in Calls
      BY ResultFrame
    <3>. QED BY <3>1, Sizes DEF TypeOK
  <2>3. frag[s] = size[call[s]] - 1 => spc'[s] \in {"scan", "idle"}
    BY <1>1, <2>2 DEF FragmentAccepted, Goto, Returns, TypeOK
  <2>. QED BY <2>1, <2>3 DEF Tracked
<1>2. CASE ConfirmLost(s)
  BY <1>2 DEF ConfirmLost, Accepts, Tracked, Returns, Goto, TypeOK
<1>3. CASE ~FragmentAccepted(s) /\ ~ConfirmLost(s)
  BY <1>3 DEF SenderStep, ReadPacketId, WritePacketId, FragmentRefused,
         Scan, StoreBusy, StoreCb, StorePdu, node
<1>. QED BY <1>1, <1>2, <1>3

LEMMA SpentSender ==
  ASSUME TypeOK, CallInv, NEW s \in Senders, SenderStep(s)
  PROVE  \A c : Spent(c) => Spent(c)'
<1>. SUFFICES ASSUME NEW c, Spent(c) PROVE Spent(c)'
  OBVIOUS
<1>1. Past(c)'
  BY PastSender DEF Spent
<1>2. \A r \in reports' : r[1] # c
  <2>1. CASE UNCHANGED reports
    BY <2>1 DEF Spent
  <2>2. CASE reports' = reports \cup {<<call[s], frag[s]>>} /\ spc[s] = "send"
    <3>1. call[s] # c
      BY <2>2 DEF Spent, Past
    <3>. QED BY <2>2, <3>1 DEF Spent
  <2>. QED BY <2>1, <2>2, ReportFrame
<1>. QED BY <1>1, <1>2 DEF Spent

\* A report is the only one of its message.
LEMMA OneReport ==
  ASSUME TypeOK, ReportInv, NEW r \in reports, NEW q \in reports, q[1] = r[1]
  PROVE  q = r
<1>1. r[2] = q[2]
  BY DEF ReportInv
<1>2. r \in Calls \X (0 .. MaxFrags - 1) /\ q \in Calls \X (0 .. MaxFrags - 1)
  BY DEF TypeOK
<1>. QED BY <1>1, <1>2

\* The report asked for in a sender's step is of a message not handled before.
LEMMA ReportSender ==
  ASSUME TypeOK, CallInv, FragInv, ReportInv, NEW s \in Senders, SenderStep(s)
  PROVE  ReportInv'
<1>1. /\ UNCHANGED <<calls, call, size, called, dpc, dpdu>>
      /\ spc[s] # "idle" /\ call[s] \in Calls
  BY SenderFrame, ResultFrame
<1>2. ASSUME NEW r \in reports'
      PROVE  /\ Past(r[1])' /\ Whole(r[1])'
             /\ r[2] = size'[r[1]] - 1
             /\ Uncalled(r[1])'
             /\ dpc' # "idle" => dpdu' # r[1]
  <2>1. CASE r \in reports
    BY <1>1, <2>1, PastSender, WholeStays DEF ReportInv, Uncalled
  <2>2. CASE r \notin reports
    <3>1. /\ r = <<call[s], frag[s]>>
          /\ spc[s] = "send" /\ frag[s] = size[call[s]] - 1
          /\ Accepts(call[s], pid[s], frag[s])
          /\ spc'[s] \in {"scan", "idle"}
      BY <2>2, ReportFrame
    <3>2. r[1] = call[s] /\ r[2] = frag[s]
      BY <3>1
    <3>3. \A c : c = call[s] => Past(c)'
      <4>. SUFFICES ASSUME NEW c, c = call[s] PROVE Past(c)'
        OBVIOUS
      <4>1. c <= calls'
        BY <1>1, Sizes DEF CallInv, TypeOK
      <4>2. ASSUME NEW t \in Senders, spc'[t] \in {"read", "write", "send"}
            PROVE  call'[t] # c
        <5>1. t # s
          BY <3>1, <4>2
        <5>2. spc[t] # "idle"
          BY <5>1, <4>2, SenderFrame
        <5>. QED BY <1>1, <5>1, <5>2 DEF CallInv
      <4>. QED BY <4>1, <4>2 DEF Past
    <3>4. \A c : c = call[s] => Whole(c)'
      BY <1>1, <3>1, FinalCompletes
    <3>5. ~Past(call[s])
      BY <3>1 DEF Past
    <3>6. Uncalled(call[s])
      <4>1. \A c \in Calls : called[<<c, call[s]>>] \in Nat /\ ~(called[<<c, call[s]>>] > 0)
        BY <1>1, <3>5 DEF ReportInv, Spent, TypeOK
      <4>. QED BY <4>1 DEF Uncalled
    <3>7. dpc # "idle" => dpdu # call[s]
      BY <3>5 DEF ReportInv, Spent
    <3>8. Uncalled(r[1])'
      BY <3>2, <3>6, <1>1 DEF Uncalled
    <3>. QED BY <1>1, <3>1, <3>2, <3>3, <3>4, <3>7, <3>8
  <2>. QED BY <2>1, <2>2
<1>3. dpc' # "idle" => Spent(dpdu)' /\ Whole(dpdu)' /\ Uncalled(dpdu)'
  BY <1>1, SpentSender, WholeStays DEF ReportInv, Uncalled
<1>4. \A c, p \in Calls :
        /\ called'[<<c, p>>] <= 1
        /\ called'[<<c, p>>] > 0 => /\ Spent(p)' /\ Whole(p)'
                                    /\ \A d \in Calls \ {c} : called'[<<d, p>>] = 0
  BY <1>1, SpentSender, WholeStays DEF ReportInv
<1>. QED BY <1>2, <1>3, <1>4 DEF ReportInv

\* A new call disturbs no report.
LEMMA SpentBegin ==
  ASSUME TypeOK, CallInv, DoneInv,
         NEW s \in Senders, NEW k \in 1 .. MaxFrags, NEW w \in BOOLEAN, Begin(s, k, w)
  PROVE  /\ \A c \in Nat : Spent(c) => Spent(c)'
         /\ \A c \in Calls : Past(c) => size'[c] = size[c] /\ (Whole(c) => Whole(c)')
<1>1. calls \in 0 .. MaxCalls /\ calls' = calls + 1 /\ UNCHANGED reports
  BY BeginFrame DEF TypeOK
<1>2. \A c \in Nat : Spent(c) => Spent(c)'
  BY <1>1, PastBegin DEF Spent
<1>3. \A c \in Calls : Past(c) => c \in 1 .. calls
  BY <1>1, Sizes DEF Past, Calls
<1>4. \A c \in 1 .. calls : size'[c] = size[c] /\ (Whole(c) => Whole(c)')
  <2>1. \A c \in 1 .. calls : size'[c] = size[c]
    BY <1>1, BeginFrame, Sizes DEF Calls
  <2>. QED BY <2>1, DoneBegin
<1>. QED BY <1>2, <1>3, <1>4

LEMMA ReportBegin ==
  ASSUME TypeOK, CallInv, DoneInv, DispatchInv, ReportInv,
         NEW s \in Senders, NEW k \in 1 .. MaxFrags, NEW w \in BOOLEAN, Begin(s, k, w)
  PROVE  ReportInv'
<1>1. UNCHANGED <<reports, called, dpc, dpdu>> /\ Calls \subseteq Nat
  BY BeginFrame, Sizes DEF Calls
<1>2. \A c \in Calls : /\ Past(c) => Past(c)' /\ size'[c] = size[c]
                       /\ Spent(c) => Spent(c)'
                       /\ Past(c) /\ Whole(c) => Whole(c)'
  BY <1>1, SpentBegin, PastBegin
<1>3. \A r \in reports' : /\ Past(r[1])' /\ Whole(r[1])'
                          /\ r[2] = size'[r[1]] - 1
                          /\ Uncalled(r[1])'
                          /\ dpc' # "idle" => dpdu' # r[1]
  <2>. SUFFICES ASSUME NEW r \in reports
                PROVE  /\ Past(r[1])' /\ Whole(r[1])'
                       /\ r[2] = size'[r[1]] - 1
                       /\ Uncalled(r[1])'
                       /\ dpc' # "idle" => dpdu' # r[1]
    BY <1>1
  <2>1. r[1] \in Calls
    BY DEF TypeOK
  <2>2. \A c : c = r[1] => Past(c)' /\ Whole(c)' /\ size'[c] = size[c]
    BY <2>1, <1>2 DEF ReportInv
  <2>. QED BY <1>1, <2>2 DEF ReportInv, Uncalled
<1>4. dpc' # "idle" => Spent(dpdu)' /\ Whole(dpdu)' /\ Uncalled(dpdu)'
  <2>. SUFFICES ASSUME dpc # "idle" PROVE Spent(dpdu)' /\ Whole(dpdu)' /\ Uncalled(dpdu)'
    BY <1>1
  <2>1. dpdu \in Calls
    BY DEF DispatchInv
  <2>2. \A c : c = dpdu => Spent(c)' /\ Whole(c)'
    BY <2>1, <1>2 DEF ReportInv, Spent
  <2>. QED BY <1>1, <2>2 DEF ReportInv, Uncalled
<1>5. \A c, p \in Calls :
        /\ called'[<<c, p>>] <= 1
        /\ called'[<<c, p>>] > 0 => /\ Spent(p)' /\ Whole(p)'
                                    /\ \A d \in Calls \ {c} : called'[<<d, p>>] = 0
  <2>. SUFFICES ASSUME NEW c \in Calls, NEW p \in Calls
                PROVE  /\ called[<<c, p>>] <= 1
                       /\ called[<<c, p>>] > 0 => /\ Spent(p)' /\ Whole(p)'
                                                  /\ \A d \in Calls \ {c} : called[<<d, p>>] = 0
    BY <1>1
  <2>1. Spent(p) /\ Whole(p) => Spent(p)' /\ Whole(p)'
    BY <1>2 DEF Spent
  <2>. QED BY <2>1 DEF ReportInv
<1>. QED BY <1>3, <1>4, <1>5 DEF ReportInv

\* The dispatch thread leaves the senders' calls where they are.
LEMMA SpentDispatch ==
  ASSUME DispatchStep
  PROVE  \A c : /\ Past(c) => Past(c)'
                /\ Spent(c) => Spent(c)'
                /\ Whole(c) => Whole(c)'
<1>1. UNCHANGED <<spc, call, calls, size, sent>>
  BY DispatchFrame DEF senderVars, history
<1>2. \A c : (Past(c) => Past(c)') /\ (Whole(c) => Whole(c)')
  BY <1>1 DEF Past, Whole, Has
<1>3. reports' \subseteq reports
  BY DEF DispatchStep, OnReport, Look, LoadCb, CallBack, node
<1>. QED BY <1>2, <1>3 DEF Spent

\* A report is taken.
LEMMA ReportTaken ==
  ASSUME TypeOK, ReportInv, NEW r \in reports, OnReport(r)
  PROVE  ReportInv'
<1>1. /\ reports' = reports \ {r} /\ dpdu' = r[1] /\ UNCHANGED <<size, called>>
      /\ DispatchStep
  BY DEF OnReport, history, cbHistory, DispatchStep
<1>2. \A q \in reports' : q \in reports /\ q[1] # r[1]
  BY <1>1, OneReport
<1>3. Spent(r[1])' /\ Whole(r[1])' /\ Uncalled(r[1])
  <2>1. \A c : c = r[1] => Past(c)' /\ Whole(c)'
    BY <1>1, SpentDispatch DEF ReportInv
  <2>2. \A c : c = r[1] => Spent(c)'
    BY <2>1, <1>2 DEF Spent
  <2>. QED BY <2>1, <2>2 DEF ReportInv
<1>4. \A q \in reports' : /\ Past(q[1])' /\ Whole(q[1])'
                          /\ q[2] = size'[q[1]] - 1
                          /\ Uncalled(q[1])'
                          /\ dpc' # "idle" => dpdu' # q[1]
  BY <1>1, <1>2, SpentDispatch DEF ReportInv, Uncalled
<1>5. Spent(dpdu)' /\ Whole(dpdu)' /\ Uncalled(dpdu)'
  BY <1>1, <1>3 DEF Uncalled
<1>6. \A c, p \in Calls :
        /\ called'[<<c, p>>] <= 1
        /\ called'[<<c, p>>] > 0 => /\ Spent(p)' /\ Whole(p)'
                                    /\ \A d \in Calls \ {c} : called'[<<d, p>>] = 0
  BY <1>1, SpentDispatch DEF ReportInv
<1>. QED BY <1>4, <1>5, <1>6 DEF ReportInv

\* The table is searched.
LEMMA ReportSearched ==
  ASSUME TypeOK, ReportInv, Look \/ LoadCb
  PROVE  ReportInv'
<1>1. UNCHANGED <<reports, size, called, dpdu>> /\ dpc # "idle" /\ DispatchStep
  BY DEF Look, LoadCb, node, history, cbHistory, DispatchStep
<1>. QED BY <1>1, SpentDispatch DEF ReportInv, Uncalled

\* The callback found is called, for a message for which none was.
LEMMA ReportCalled ==
  ASSUME TypeOK, DispatchInv, ReportInv, CallBack
  PROVE  ReportInv'
<1>1. /\ UNCHANGED <<reports, size, dpdu>> /\ dpc # "idle" /\ dpc' = "idle" /\ DispatchStep
      /\ called' = IF dcb = 0 THEN called ELSE [called EXCEPT ![<<dcb, dpdu>>] = @ + 1]
  BY DEF CallBack, node, history, DispatchStep
<1>2. dpdu \in Calls /\ Spent(dpdu) /\ Whole(dpdu) /\ Uncalled(dpdu)
  BY <1>1 DEF DispatchInv, ReportInv
<1>3. \A c, p \in Calls :
        \/ called'[<<c, p>>] = called[<<c, p>>]
        \/ c = dcb /\ p = dpdu /\ called'[<<c, p>>] = 1
  <2>1. dcb # 0 => dcb \in Calls /\ called[<<dcb, dpdu>>] = 0
    BY <1>2, Sizes DEF TypeOK, Calls, Uncalled
  <2>. QED BY <1>1, <2>1 DEF TypeOK
<1>4. \A q \in reports' : /\ Past(q[1])' /\ Whole(q[1])'
                          /\ q[2] = size'[q[1]] - 1
                          /\ Uncalled(q[1])'
  <2>. SUFFICES ASSUME NEW q \in reports
                PROVE  Past(q[1])' /\ Whole(q[1])' /\ q[2] = size'[q[1]] - 1 /\ Uncalled(q[1])'
    BY <1>1
  <2>1. q[1] \in Calls /\ q[1] # dpdu /\ Uncalled(q[1])
    BY <1>1 DEF TypeOK, ReportInv
  <2>2. \A c \in Calls : called'[<<c, q[1]>>] = 0
    BY <2>1, <1>3 DEF Uncalled
  <2>3. \A c : c = q[1] => Past(c)' /\ Whole(c)'
    BY <1>1, SpentDispatch DEF ReportInv
  <2>. QED BY <1>1, <2>2, <2>3 DEF ReportInv, Uncalled
<1>5. ASSUME NEW c \in Calls, NEW p \in Calls
      PROVE  /\ called'[<<c, p>>] <= 1
             /\ called'[<<c, p>>] > 0 => /\ Spent(p)' /\ Whole(p)'
                                         /\ \A d \in Calls \ {c} : called'[<<d, p>>] = 0
  <2>1. CASE p = dpdu
    <3>1. \A d \in Calls : called[<<d, p>>] = 0
      BY <2>1, <1>2 DEF Uncalled
    <3>2. \A d \in Calls : called'[<<d, p>>] = 0 \/ (d = dcb /\ called'[<<d, p>>] = 1)
      BY <3>1, <1>3
    <3>3. Spent(p)' /\ Whole(p)'
      BY <2>1, <1>1, <1>2, SpentDispatch
    <3>. QED BY <3>2, <3>3
  <2>2. CASE p # dpdu
    <3>1. \A d \in Calls : called'[<<d, p>>] = called[<<d, p>>]
      BY <2>2, <1>3
    <3>. QED BY <3>1, <1>1, SpentDispatch DEF ReportInv
  <2>. QED BY <2>1, <2>2
<1>. QED BY <1>1, <1>4, <1>5 DEF ReportInv

LEMMA ReportNext == Inv /\ ReportInv /\ [Next]_vars => ReportInv'
<1>. SUFFICES ASSUME Inv, ReportInv, [Next]_vars PROVE ReportInv'
  OBVIOUS
<1>1. TypeOK /\ DispatchInv /\ CallInv /\ FragInv /\ DoneInv
  BY DEF Inv
<1>2. CASE UNCHANGED vars
  BY <1>2 DEF ReportInv, Past, Spent, Whole, Has, Uncalled, vars, senderVars, node, history,
              dispatch, cbHistory
<1>3. CASE DispatchStep
  BY <1>1, <1>3, ReportTaken, ReportSearched, ReportCalled DEF DispatchStep
<1>. QED BY <1>1, <1>2, <1>3, ReportBegin, ReportSender, Steps

----------------------------------------------------------------------------
(* The table of callbacks                                                  *)

\* What a sender's step does to the entries: nothing, or one of the choice of a
\* free entry and its three stores.
TableAlone(s) == /\ UNCHANGED <<busy, cb, pdu, inTime, crossed, clashed>>
                 /\ spc[s] \notin {"busy", "cb", "pdu"} /\ spc'[s] \notin {"busy", "cb", "pdu"}
Chooses(s) == /\ UNCHANGED <<busy, cb, pdu, inTime, crossed, slot>>
              /\ spc[s] = "scan" /\ spc'[s] = "busy" /\ ~busy[slot[s]]
              /\ ~clashed' =>
                   ~clashed /\ \A t \in Senders : ~(spc[t] = "busy" /\ slot[t] = slot[s])
FillsBusy(s) == /\ UNCHANGED <<cb, pdu, inTime, crossed, clashed, slot>>
                /\ spc[s] = "busy" /\ spc'[s] = "cb"
                /\ busy'[slot[s]] = TRUE /\ \A i \in Slots \ {slot[s]} : busy'[i] = busy[i]
FillsCb(s) == /\ UNCHANGED <<busy, pdu, inTime, clashed, slot>>
              /\ spc[s] = "cb" /\ spc'[s] = "pdu"
              /\ cb'[slot[s]] = call[s] /\ \A i \in Slots \ {slot[s]} : cb'[i] = cb[i]
              /\ crossed' = IF dpc = "load" /\ dslot = slot[s]
                            THEN crossed \cup {<<dpdu, call[s]>>} ELSE crossed
FillsPdu(s) == /\ UNCHANGED <<busy, cb, crossed, clashed, slot>>
               /\ spc[s] = "pdu" /\ spc'[s] = "idle"
               /\ pdu'[slot[s]] = call[s] /\ \A i \in Slots \ {slot[s]} : pdu'[i] = pdu[i]
               /\ inTime' = IF AwaitsReport(call[s]) THEN inTime \cup {call[s]} ELSE inTime

LEMMA TableStep ==
  ASSUME TypeOK, NEW s \in Senders, SenderStep(s)
  PROVE  TableAlone(s) \/ Chooses(s) \/ FillsBusy(s) \/ FillsCb(s) \/ FillsPdu(s)
<1>0. slot[s] \in Slots
  BY DEF TypeOK
<1>1. CASE ReadPacketId(s) \/ WritePacketId(s)
  BY <1>1 DEF ReadPacketId, WritePacketId, Goto, TypeOK, TableAlone, table, cbHistory
<1>2. CASE FragmentAccepted(s)
  BY <1>2 DEF FragmentAccepted, Goto, Returns, TypeOK, TableAlone, table, cbHistory
<1>3. CASE FragmentRefused(s) \/ ConfirmLost(s)
  BY <1>3 DEF FragmentRefused, ConfirmLost, Goto, Returns, TypeOK, TableAlone, table, cbHistory
<1>4. CASE Scan(s)
  <2>1. UNCHANGED <<busy, cb, pdu, inTime, crossed>> /\ spc[s] = "scan"
    BY <1>4 DEF Scan, table
  <2>2. CASE spc'[s] = "busy"
    <3>1. /\ ~busy[slot[s]] /\ slot' = slot
          /\ clashed' = (clashed \/ \E t \in Senders : spc[t] = "busy" /\ slot[t] = slot[s])
      BY <1>4, <2>1, <2>2 DEF Scan, Goto, Returns, TypeOK
    <3>. QED BY <2>1, <2>2, <3>1 DEF Chooses
  <2>3. CASE spc'[s] # "busy"
    <3>1. spc'[s] \in {"scan", "idle"} /\ clashed' = clashed
      BY <1>4, <2>1, <2>3 DEF Scan, Goto, Returns, TypeOK
    <3>. QED BY <2>1, <3>1 DEF TableAlone
  <2>. QED BY <2>2, <2>3
<1>5. CASE StoreBusy(s)
  BY <1>0, <1>5 DEF StoreBusy, Goto, TypeOK, FillsBusy, cbHistory
<1>6. CASE StoreCb(s)
  BY <1>0, <1>6 DEF StoreCb, Goto, TypeOK, FillsCb
<1>7. CASE StorePdu(s)
  BY <1>0, <1>7 DEF StorePdu, Goto, Returns, TypeOK, FillsPdu, cbHistory
<1>. QED BY <1>1, <1>2, <1>3, <1>4, <1>5, <1>6, <1>7 DEF SenderStep

\* A pdu id that matches nothing any more matches nothing after a sender's step.
LEMMA GoneSender ==
  ASSUME TypeOK, CallInv, NEW s \in Senders, SenderStep(s)
  PROVE  \A p, i : Gone(p, i) => Gone(p, i)'
<1>1. UNCHANGED <<dpc, dpdu, dslot>>
  BY SenderFrame
<1>. QED BY <1>1, SpentSender DEF Gone

\* One sender at most fills an entry.
LEMMA EntryAlone ==
  ASSUME TypeOK, CallInv, EntryInv, NEW s \in Senders, SenderStep(s), ~clashed'
  PROVE  \A t, u \in Senders, i \in Slots : At(t, i)' /\ At(u, i)' => t = u
<1>1. \A t \in Senders \ {s}, i \in Slots : At(t, i)' <=> At(t, i)
  BY SenderFrame DEF At
<1>2. CASE Chooses(s)
  <2>1. \A t \in Senders, i \in Slots : At(s, i)' /\ At(t, i) => t = s
    <3>. SUFFICES ASSUME NEW t \in Senders, At(t, slot[s]) PROVE FALSE
      BY <1>2 DEF Chooses, At
    <3>1. ~busy[slot[s]] /\ spc[t] # "busy"
      BY <1>2 DEF Chooses, At
    <3>2. spc[t] \in {"cb", "pdu"} /\ slot[t] = slot[s]
      BY <3>1 DEF At
    <3>. QED BY <3>1, <3>2 DEF EntryInv
  <2>. QED BY <1>1, <2>1 DEF EntryInv
<1>3. CASE ~Chooses(s)
  <2>1. \A i \in Slots : At(s, i)' => At(s, i)
    BY <1>3, TableStep DEF TableAlone, FillsBusy, FillsCb, FillsPdu, At
  <2>. QED BY <1>1, <2>1 DEF EntryInv
<1>. QED BY <1>2, <1>3

\* The stores that fill an entry, by the one sender that fills it: the pdu id
\* there before them is gone.
LEMMA EntrySender ==
  ASSUME TypeOK, CallInv, EntryInv, NEW s \in Senders, SenderStep(s), ~clashed'
  PROVE  EntryInv'
<1>1. /\ slot[s] \in Slots /\ UNCHANGED call
      /\ \A t \in Senders : slot[t] \in Slots
      /\ \A t \in Senders \ {s} : spc'[t] = spc[t] /\ slot'[t] = slot[t]
  BY SenderFrame DEF TypeOK
<1>2. \A t, u \in Senders, i \in Slots : At(t, i)' /\ At(u, i)' => t = u
  BY EntryAlone
<1>3. \A t \in Senders, i \in Slots : At(t, i) /\ At(s, i) => t = s
  BY DEF EntryInv
<1>4. \A i \in Slots :
        /\ ~busy[i] \/ Filling(i) => (\A p : p = pdu[i] => Gone(p, i)')
        /\ cb[i] = pdu[i] \/ \E t \in Senders : spc[t] = "pdu" /\ slot[t] = i
  BY GoneSender DEF EntryInv
<1>5. \A t \in Senders : /\ spc[t] = "busy" => ~busy[slot[t]]
                         /\ spc[t] \in {"cb", "pdu"} => busy[slot[t]]
                         /\ spc[t] = "pdu" => cb[slot[t]] = call[t]
  BY DEF EntryInv
<1>. DEFINE Filled == \A t \in Senders :
                        /\ spc'[t] = "busy" => ~busy'[slot'[t]]
                        /\ spc'[t] \in {"cb", "pdu"} => busy'[slot'[t]]
                        /\ spc'[t] = "pdu" => cb'[slot'[t]] = call'[t]
            Left == \A i \in Slots :
                      /\ ~busy'[i] \/ Filling(i)' => (\A p : p = pdu'[i] => Gone(p, i)')
                      /\ cb'[i] = pdu'[i] \/ \E t \in Senders : spc'[t] = "pdu" /\ slot'[t] = i
<1>6. ASSUME TableAlone(s) PROVE Filled /\ Left
  <2>1. \A i : Filling(i)' => Filling(i)
    BY <1>1, <1>6 DEF Filling, TableAlone
  <2>. QED BY <1>1, <1>4, <1>5, <1>6, <2>1 DEF TableAlone
<1>7. ASSUME Chooses(s) PROVE Filled /\ Left
  <2>1. \A i : Filling(i)' => Filling(i)
    BY <1>1, <1>7 DEF Filling, Chooses
  <2>. QED BY <1>1, <1>4, <1>5, <1>7, <2>1 DEF Chooses
<1>8. ASSUME FillsBusy(s) PROVE Filled /\ Left
  <2>1. \A i : Filling(i)' => Filling(i) \/ i = slot[s]
    BY <1>1, <1>8 DEF Filling, FillsBusy
  <2>2. \A i \in Slots : ~busy'[i] \/ Filling(i)' => ~busy[i] \/ Filling(i)
    BY <1>5, <1>8, <2>1 DEF FillsBusy
  <2>3. \A t \in Senders \ {s} : spc[t] \in {"busy", "cb", "pdu"} => slot[t] # slot[s]
    BY <1>1, <1>3, <1>8 DEF At, FillsBusy
  <2>. QED BY <1>1, <1>4, <1>5, <1>8, <2>2, <2>3 DEF FillsBusy
<1>9. ASSUME FillsCb(s) PROVE Filled /\ Left
  <2>1. \A i : Filling(i)' => Filling(i)
    BY <1>1, <1>9 DEF Filling, FillsCb
  <2>2. \A t \in Senders \ {s} : spc[t] \in {"busy", "cb", "pdu"} => slot[t] # slot[s]
    BY <1>1, <1>3, <1>9 DEF At, FillsCb
  <2>. QED BY <1>1, <1>4, <1>5, <1>9, <2>1, <2>2 DEF FillsCb
<1>10. ASSUME FillsPdu(s) PROVE Filled /\ Left
  <2>1. \A t \in Senders \ {s} : spc[t] \in {"busy", "cb", "pdu"} => slot[t] # slot[s]
    BY <1>1, <1>3, <1>10 DEF At, FillsPdu
  <2>2. ~Filling(slot[s])' /\ \A i : Filling(i)' => Filling(i)
    BY <1>1, <1>10, <2>1 DEF Filling, FillsPdu
  <2>3. busy[slot[s]] /\ cb[slot[s]] = call[s]
    BY <1>5, <1>10 DEF FillsPdu
  <2>. QED BY <1>1, <1>4, <1>5, <1>10, <2>1, <2>2, <2>3 DEF FillsPdu
<1>11. Filled /\ Left
  BY <1>6, <1>7, <1>8, <1>9, <1>10, TableStep
<1>12. \A i \in Slots : ~busy'[i] \/ Filling(i)' => Gone(pdu[i], i)'
  <2>1. \A i : (\A p : p = pdu'[i] => Gone(p, i)') => Gone(pdu[i], i)'
    BY Zenon DEF Gone, Spent, Past
  <2>2. \A i \in Slots : ~busy'[i] \/ Filling(i)' => (\A p : p = pdu'[i] => Gone(p, i)')
    BY <1>11
  <2>. QED BY <2>1, <2>2
<1>. QED BY <1>2, <1>11, <1>12 DEF EntryInv

\* A callback stored in an entry being released has crossed the release.
LEMMA TableSender ==
  ASSUME TypeOK, CallInv, TableInv, NEW s \in Senders, SenderStep(s)
  PROVE  TableInv'
<1>. SUFFICES ASSUME ~clashed' PROVE /\ EntryInv'
                                     /\ dpc' = "load" => OwnOr(cb[dslot])'
                                     /\ dpc' # "idle" => dcb' = 0 \/ OwnOr(dcb)'
  BY DEF TableInv
<1>1. ~clashed /\ EntryInv'
  <2>1. ~clashed
    BY TableStep DEF TableAlone, Chooses, FillsBusy, FillsCb, FillsPdu
  <2>. QED BY <2>1, EntrySender DEF TableInv
<1>2. /\ dpc = "load" => OwnOr(cb[dslot])
      /\ dpc # "idle" => dcb = 0 \/ OwnOr(dcb)
  BY <1>1 DEF TableInv
<1>3. UNCHANGED <<dpc, dpdu, dslot, dcb>> /\ dslot \in Slots
  BY SenderFrame DEF TypeOK
<1>4. crossed \subseteq crossed'
  BY TableStep DEF TableAlone, Chooses, FillsBusy, FillsCb, FillsPdu
<1>5. dpc = "load" => OwnOr(cb[dslot])'
  <2>1. CASE FillsCb(s)
    <3>1. CASE dslot = slot[s]
      BY <1>2, <1>3, <2>1, <3>1 DEF FillsCb, OwnOr
    <3>2. CASE dslot # slot[s]
      BY <1>2, <1>3, <1>4, <2>1, <3>2 DEF FillsCb, OwnOr
    <3>. QED BY <3>1, <3>2
  <2>2. CASE ~FillsCb(s)
    <3>1. UNCHANGED cb
      BY <2>2, TableStep DEF TableAlone, Chooses, FillsBusy, FillsPdu
    <3>. QED BY <1>2, <1>3, <1>4, <3>1 DEF OwnOr
  <2>. QED BY <2>1, <2>2
<1>6. dpc # "idle" => dcb = 0 \/ OwnOr(dcb)'
  BY <1>2, <1>3, <1>4 DEF OwnOr
<1>. QED BY <1>1, <1>3, <1>5, <1>6

\* A new call touches no entry.
LEMMA TableBegin ==
  ASSUME TypeOK, CallInv, DoneInv, TableInv,
         NEW s \in Senders, NEW k \in 1 .. MaxFrags, NEW w \in BOOLEAN, Begin(s, k, w)
  PROVE  TableInv'
<1>1. /\ UNCHANGED <<slot, busy, cb, pdu, dpc, dpdu, dslot, dcb, crossed, clashed>>
      /\ \A t \in Senders : spc'[t] \in {"busy", "cb", "pdu"} =>
           spc[t] = spc'[t] /\ call'[t] = call[t]
      /\ \A t \in Senders : spc[t] \in {"busy", "cb", "pdu"} =>
           spc[t] = spc'[t] /\ call'[t] = call[t]
  <2>1. UNCHANGED <<slot, busy, cb, pdu, dpc, dpdu, dslot, dcb, crossed, clashed>>
    BY BeginFrame
  <2>2. spc[s] = "idle" /\ spc'[s] \in {"send", "read"}
    BY BeginFrame
  <2>3. \A t \in Senders \ {s} : spc[t] = spc'[t] /\ call'[t] = call[t]
    BY BeginFrame
  <2>. QED BY <2>1, <2>2, <2>3
<1>2. /\ \A i \in Slots : Filling(i) <=> Filling(i)'
      /\ \A t \in Senders, i \in Slots : At(t, i) <=> At(t, i)'
  BY <1>1 DEF Filling, At
<1>3. \A i \in Slots : Gone(pdu[i], i) => Gone(pdu[i], i)'
  <2>. SUFFICES ASSUME NEW i \in Slots, Gone(pdu[i], i) PROVE Gone(pdu[i], i)'
    OBVIOUS
  <2>1. pdu[i] \in Nat
    BY Sizes DEF TypeOK
  <2>2. \A c \in Nat : c = pdu[i] => Spent(c)'
    BY SpentBegin DEF Gone
  <2>3. Spent(pdu[i])'
    BY <2>1, <2>2, <1>1
  <2>. QED BY <2>3, <1>1 DEF Gone
<1>4. EntryInv => EntryInv'
  <2>. SUFFICES ASSUME EntryInv PROVE EntryInv'
    OBVIOUS
  <2>1. \A t, u \in Senders, i \in Slots : At(t, i)' /\ At(u, i)' => t = u
    BY <1>2 DEF EntryInv
  <2>2. \A i \in Slots :
          /\ ~busy'[i] \/ Filling(i)' => Gone(pdu[i], i)'
          /\ cb'[i] = pdu'[i] \/ \E t \in Senders : spc'[t] = "pdu" /\ slot'[t] = i
    BY <1>1, <1>2, <1>3 DEF EntryInv
  <2>3. \A t \in Senders : /\ spc'[t] = "busy" => ~busy'[slot'[t]]
                           /\ spc'[t] \in {"cb", "pdu"} => busy'[slot'[t]]
                           /\ spc'[t] = "pdu" => cb'[slot'[t]] = call'[t]
    BY <1>1 DEF EntryInv
  <2>. QED BY <2>1, <2>2, <2>3 DEF EntryInv
<1>. QED BY <1>1, <1>4 DEF TableInv, OwnOr

\* A report taken is not of a pdu id that is gone; the search goes on past the
\* entries where it is.
LEMMA GoneDispatch ==
  ASSUME TypeOK, ReportInv, DispatchStep
  PROVE  \A p, i \in Nat : Gone(p, i) => Gone(p, i)'
<1>. SUFFICES ASSUME NEW p \in Nat, NEW i \in Nat, Gone(p, i) PROVE Gone(p, i)'
  OBVIOUS
<1>1. Spent(p)' /\ Spent(p)
  BY SpentDispatch DEF Gone
<1>2. dslot \in Nat
  BY Sizes DEF TypeOK, Slots
<1>3. CASE \E r \in reports : OnReport(r)
  BY <1>1, <1>3 DEF OnReport, Gone, Spent
<1>4. CASE Look
  BY <1>1, <1>2, <1>4 DEF Look, NextSlot, Gone
<1>5. CASE LoadCb
  BY <1>1, <1>2, <1>5 DEF LoadCb, NextSlot, Gone
<1>6. CASE CallBack
  BY <1>1, <1>6 DEF CallBack, Gone
<1>. QED BY <1>3, <1>4, <1>5, <1>6 DEF DispatchStep

\* The entry released is nobody's to fill, and holds the callback of its message;
\* its pdu id is gone with the report.
LEMMA EntryReleased ==
  ASSUME TypeOK, ReportInv, EntryInv, Look, Matches(dslot)
  PROVE  /\ EntryInv' /\ dpc' = "load" /\ cb[dslot] = dpdu /\ UNCHANGED <<dslot, dpdu, cb>>
<1>1. /\ dslot \in Slots /\ dslot \in Nat /\ busy[dslot] /\ pdu[dslot] = dpdu /\ dpc = "look"
      /\ dpc' = "load" /\ UNCHANGED <<spc, slot, call, cb, pdu, dslot, dpdu, dcb>>
      /\ busy' = [busy EXCEPT ![dslot] = FALSE] /\ DispatchStep
  BY Sizes DEF Look, Matches, TypeOK, Slots, senderVars, DispatchStep
<1>2. ~busy'[dslot] /\ \A i \in Slots \ {dslot} : busy'[i] = busy[i]
  BY <1>1 DEF TypeOK
<1>3. ~Filling(dslot) /\ cb[dslot] = dpdu
  <2>1. ~Gone(pdu[dslot], dslot)
    BY <1>1 DEF Gone
  <2>2. ~Filling(dslot)
    BY <1>1, <2>1 DEF EntryInv
  <2>. QED BY <1>1, <2>2 DEF EntryInv, Filling
<1>4. /\ \A i : Filling(i)' <=> Filling(i)
      /\ \A t \in Senders, i \in Slots : At(t, i)' <=> At(t, i)
  BY <1>1 DEF Filling, At
<1>5. Spent(pdu[dslot])'
  BY <1>1, SpentDispatch DEF ReportInv
<1>6. \A i \in Slots : /\ ~busy'[i] \/ Filling(i)' => Gone(pdu[i], i)'
                       /\ cb'[i] = pdu'[i] \/ \E t \in Senders : spc'[t] = "pdu" /\ slot'[t] = i
  <2>. SUFFICES ASSUME NEW i \in Slots
                PROVE  /\ ~busy'[i] \/ Filling(i)' => Gone(pdu[i], i)'
                       /\ cb'[i] = pdu'[i] \/ \E t \in Senders : spc'[t] = "pdu" /\ slot'[t] = i
    OBVIOUS
  <2>1. cb'[i] = pdu'[i] \/ \E t \in Senders : spc'[t] = "pdu" /\ slot'[t] = i
    BY <1>1 DEF EntryInv
  <2>2. CASE i = dslot
    <3>1. Gone(pdu[i], i)'
      BY <1>1, <1>5, <2>2 DEF Gone
    <3>. QED BY <2>1, <3>1
  <2>3. CASE i # dslot
    <3>1. ~busy'[i] \/ Filling(i)' => Gone(pdu[i], i)
      BY <1>2, <1>4, <2>3 DEF EntryInv
    <3>2. pdu[i] \in Nat /\ i \in Nat
      BY Sizes DEF TypeOK, Slots
    <3>3. Gone(pdu[i], i) => Gone(pdu[i], i)'
      <4>1. \A p \in Nat : p = pdu[i] /\ Gone(p, i) => Gone(p, i)'
        BY <1>1, <3>2, GoneDispatch
      <4>. QED BY <3>2, <4>1, <1>1
    <3>. QED BY <2>1, <3>1, <3>3
  <2>. QED BY <2>2, <2>3
<1>7. ASSUME NEW t \in Senders
      PROVE  /\ spc'[t] = "busy" => ~busy'[slot'[t]]
             /\ spc'[t] \in {"cb", "pdu"} => busy'[slot'[t]]
             /\ spc'[t] = "pdu" => cb'[slot'[t]] = call'[t]
  <2>1. slot[t] \in Slots
    BY DEF TypeOK
  <2>2. spc[t] \in {"cb", "pdu"} => slot[t] # dslot
    BY <1>3 DEF Filling
  <2>. QED BY <1>1, <1>2, <2>1, <2>2 DEF EntryInv
<1>8. \A t, u \in Senders, i \in Slots : At(t, i)' /\ At(u, i)' => t = u
  BY <1>4 DEF EntryInv
<1>. QED BY <1>1, <1>3, <1>6, <1>7, <1>8 DEF EntryInv

\* The other steps of the dispatch thread touch no entry.
LEMMA EntryLeft ==
  ASSUME TypeOK, ReportInv, EntryInv, DispatchStep, UNCHANGED busy
  PROVE  EntryInv'
<1>1. UNCHANGED <<spc, slot, call, cb, pdu, busy>>
  BY DispatchFrame DEF senderVars
<1>2. /\ \A i : Filling(i)' <=> Filling(i)
      /\ \A t \in Senders, i \in Slots : At(t, i)' <=> At(t, i)
  BY <1>1 DEF Filling, At
<1>3. \A i \in Slots : Gone(pdu[i], i) => Gone(pdu[i], i)'
  <2>. SUFFICES ASSUME NEW i \in Slots, Gone(pdu[i], i) PROVE Gone(pdu[i], i)'
    OBVIOUS
  <2>1. pdu[i] \in Nat /\ i \in Nat
    BY Sizes DEF TypeOK, Slots
  <2>2. \A p \in Nat : p = pdu[i] => Gone(p, i)'
    BY <2>1, GoneDispatch
  <2>. QED BY <2>1, <2>2, <1>1
<1>4. \A i \in Slots : /\ ~busy'[i] \/ Filling(i)' => Gone(pdu[i], i)'
                       /\ cb'[i] = pdu'[i] \/ \E t \in Senders : spc'[t] = "pdu" /\ slot'[t] = i
  BY <1>1, <1>2, <1>3 DEF EntryInv
<1>5. \A t \in Senders : /\ spc'[t] = "busy" => ~busy'[slot'[t]]
                         /\ spc'[t] \in {"cb", "pdu"} => busy'[slot'[t]]
                         /\ spc'[t] = "pdu" => cb'[slot'[t]] = call'[t]
  BY <1>1 DEF EntryInv
<1>6. \A t, u \in Senders, i \in Slots : At(t, i)' /\ At(u, i)' => t = u
  BY <1>2 DEF EntryInv
<1>. QED BY <1>1, <1>4, <1>5, <1>6 DEF EntryInv

LEMMA TableDispatch ==
  ASSUME TypeOK, ReportInv, TableInv, DispatchStep
  PROVE  TableInv'
<1>1. UNCHANGED <<crossed, clashed, cb>>
  BY DispatchFrame
<1>. SUFFICES ASSUME ~clashed PROVE /\ EntryInv'
                                    /\ dpc' = "load" => OwnOr(cb[dslot])'
                                    /\ dpc' # "idle" => dcb' = 0 \/ OwnOr(dcb)'
  BY <1>1 DEF TableInv
<1>2. /\ EntryInv
      /\ dpc = "load" => OwnOr(cb[dslot])
      /\ dpc # "idle" => dcb = 0 \/ OwnOr(dcb)
  BY DEF TableInv
<1>3. CASE \E r \in reports : OnReport(r)
  <2>1. UNCHANGED busy /\ dpc' = "look" /\ dcb' = 0
    BY <1>3 DEF OnReport, table
  <2>. QED BY <1>2, <2>1, EntryLeft
<1>4. CASE Look /\ Matches(dslot)
  <2>1. EntryInv' /\ dpc' = "load" /\ cb[dslot] = dpdu /\ UNCHANGED <<dslot, dpdu, cb>>
    BY <1>2, <1>4, EntryReleased
  <2>2. dpc # "idle" /\ UNCHANGED dcb
    BY <1>4 DEF Look
  <2>. QED BY <1>1, <1>2, <2>1, <2>2 DEF OwnOr
<1>5. CASE Look /\ ~Matches(dslot)
  <2>1. UNCHANGED <<busy, dcb, dpdu>> /\ dpc # "idle" /\ dpc' \in {"look", "call"}
    BY <1>5 DEF Look, NextSlot
  <2>. QED BY <1>1, <1>2, <2>1, EntryLeft DEF OwnOr
<1>6. CASE LoadCb
  <2>1. /\ UNCHANGED <<busy, dpdu>> /\ dpc = "load" /\ dpc' \in {"look", "call"}
        /\ dcb' = cb[dslot]
    BY <1>6 DEF LoadCb, NextSlot, table
  <2>. QED BY <1>1, <1>2, <2>1, EntryLeft DEF OwnOr
<1>7. CASE CallBack
  <2>1. UNCHANGED busy /\ dpc' = "idle"
    BY <1>7 DEF CallBack, table
  <2>. QED BY <1>2, <2>1, EntryLeft
<1>. QED BY <1>3, <1>4, <1>5, <1>6, <1>7 DEF DispatchStep

LEMMA TableNext == Inv /\ ReportInv /\ TableInv /\ [Next]_vars => TableInv'
<1>. SUFFICES ASSUME Inv, ReportInv, TableInv, [Next]_vars PROVE TableInv'
  OBVIOUS
<1>1. TypeOK /\ CallInv /\ DoneInv
  BY DEF Inv
<1>2. CASE UNCHANGED vars
  <2>1. UNCHANGED <<spc, call, slot, busy, cb, pdu, dpc, dpdu, dslot, dcb, reports, calls, crossed, clashed>>
    BY <1>2 DEF vars, senderVars, table, node, history, dispatch, cbHistory
  <2>2. \A p : Spent(p) <=> Spent(p)'
    BY <2>1 DEF Past, Spent
  <2>3. \A p, i : Gone(p, i) <=> Gone(p, i)'
    BY <2>1, <2>2 DEF Gone
  <2>. QED BY <2>1, <2>3 DEF TableInv, EntryInv, OwnOr, At, Filling
<1>. QED BY <1>1, <1>2, TableBegin, TableSender, TableDispatch, Steps

\* What was called stays in order.
LEMMA SettledNext == Inv /\ TableInv /\ SettledInv /\ [Next]_vars => SettledInv'
<1>. SUFFICES ASSUME Inv, TableInv, SettledInv, [Next]_vars PROVE SettledInv'
  OBVIOUS
<1>1. TypeOK /\ DispatchInv
  BY DEF Inv
<1>2. ASSUME UNCHANGED called, crossed \subseteq crossed', clashed => clashed'
      PROVE  SettledInv'
  BY <1>2 DEF SettledInv
<1>3. ASSUME NEW s \in Senders, SenderStep(s)
      PROVE  SettledInv'
  <2>1. crossed \subseteq crossed' /\ (clashed => clashed') /\ UNCHANGED called
    BY <1>1, <1>3, TableStep, SenderFrame DEF TableAlone, Chooses, FillsBusy, FillsCb, FillsPdu
  <2>. QED BY <2>1, <1>2
<1>4. ASSUME NEW s \in Senders, NEW k \in 1 .. MaxFrags, NEW w \in BOOLEAN, Begin(s, k, w)
      PROVE  SettledInv'
  BY <1>1, <1>2, <1>4, BeginFrame
<1>5. CASE DispatchStep
  <2>1. UNCHANGED <<crossed, clashed>>
    BY <1>5, DispatchFrame
  <2>2. CASE UNCHANGED called
    BY <2>1, <2>2, <1>2
  <2>3. CASE ~(UNCHANGED called)
    <3>1. CallBack /\ dcb # 0
      BY <1>5, <2>3 DEF DispatchStep, OnReport, Look, LoadCb, CallBack, cbHistory
    <3>2. dpc # "idle" /\ called' = [called EXCEPT ![<<dcb, dpdu>>] = @ + 1]
      BY <3>1 DEF CallBack
    <3>3. clashed \/ dcb = dpdu \/ <<dpdu, dcb>> \in crossed
      BY <3>1, <3>2 DEF TableInv, OwnOr
    <3>4. \A c, p \in Calls : called'[<<c, p>>] = called[<<c, p>>] \/ (c = dcb /\ p = dpdu)
      BY <3>2, <1>1 DEF TypeOK
    <3>. QED BY <2>1, <3>3, <3>4 DEF SettledInv
  <2>. QED BY <2>2, <2>3
<1>6. CASE UNCHANGED vars
  BY <1>2, <1>6 DEF vars, cbHistory
<1>. QED BY <1>3, <1>4, <1>5, <1>6, Steps

\* A sender writes to no entry that is taken, but to the one it fills itself.
LEMMA EntryKept ==
  ASSUME TypeOK, CallInv, EntryInv, NEW s \in Senders, SenderStep(s), NEW c, NEW i \in Slots, Entry(c, i)
  PROVE  Entry(c, i)'
<1>1. \A t \in Senders \ {s} : At(t, i)' <=> At(t, i)
  BY SenderFrame DEF At
<1>2. ~At(s, i) /\ busy[i]
  BY DEF Entry
<1>3. CASE TableAlone(s)
  BY <1>1, <1>3 DEF Entry, TableAlone, At
<1>4. CASE Chooses(s)
  BY <1>1, <1>2, <1>4 DEF Entry, Chooses, At
<1>5. CASE FillsBusy(s) \/ FillsCb(s) \/ FillsPdu(s)
  <2>1. i # slot[s]
    BY <1>2, <1>5 DEF At, FillsBusy, FillsCb, FillsPdu
  <2>. QED BY <1>1, <1>5, <2>1 DEF Entry, FillsBusy, FillsCb, FillsPdu, At
<1>. QED BY <1>3, <1>4, <1>5, TableStep

LEMMA InTimeSender ==
  ASSUME TypeOK, CallInv, TableInv, InTimeInv, NEW s \in Senders, SenderStep(s)
  PROVE  InTimeInv'
<1>. SUFFICES ASSUME ~clashed', NEW c \in inTime' PROVE Kept(c)'
  BY DEF InTimeInv
<1>1. ~clashed /\ EntryInv
  BY TableStep DEF TableAlone, Chooses, FillsBusy, FillsCb, FillsPdu, TableInv
<1>2. UNCHANGED <<called, dpc, dpdu, dslot, dcb>> /\ crossed \subseteq crossed' /\ reports \subseteq reports'
  <2>1. crossed \subseteq crossed'
    BY TableStep DEF TableAlone, Chooses, FillsBusy, FillsCb, FillsPdu
  <2>2. reports \subseteq reports'
    BY DEF SenderStep, ReadPacketId, WritePacketId, FragmentAccepted, FragmentRefused, ConfirmLost,
           Scan, StoreBusy, StoreCb, StorePdu, Accepts, node
  <2>. QED BY <2>1, <2>2, SenderFrame
<1>3. \A n : Ahead(c, n) => Ahead(c, n)'
  BY <1>1, EntryKept DEF Ahead
<1>4. CASE c \in inTime
  <2>1. Kept(c)
    BY <1>1, <1>4 DEF InTimeInv
  <2>2. (Stolen(c) => Stolen(c)') /\ (AwaitsReport(c) => AwaitsReport(c)')
    BY <1>2 DEF Stolen, AwaitsReport
  <2>. QED BY <1>2, <1>3, <2>1, <2>2 DEF Kept
<1>5. CASE c \notin inTime
  <2>1. FillsPdu(s) /\ AwaitsReport(c) /\ c = call[s]
    BY <1>5, TableStep DEF TableAlone, Chooses, FillsBusy, FillsCb, FillsPdu
  <2>2. PICK i \in Slots : i = slot[s] /\ i >= 1
    BY Sizes DEF TypeOK, Slots
  <2>3. busy'[i] /\ cb'[i] = c /\ pdu'[i] = c
    BY <1>1, <2>1, <2>2 DEF FillsPdu, EntryInv
  <2>4. \A t \in Senders : ~At(t, i)'
    <3>1. \A t \in Senders \ {s} : ~At(t, i)'
      BY <1>1, <2>1, <2>2, SenderFrame DEF FillsPdu, EntryInv, At
    <3>2. ~At(s, i)'
      BY <2>1 DEF FillsPdu, At
    <3>. QED BY <3>1, <3>2
  <2>5. Entry(c, i)'
    BY <2>3, <2>4 DEF Entry
  <2>6. Ahead(c, 1)'
    BY <2>2, <2>5 DEF Ahead
  <2>7. AwaitsReport(c)'
    BY <1>2, <2>1 DEF AwaitsReport
  <2>. QED BY <2>6, <2>7 DEF Kept
<1>. QED BY <1>4, <1>5

LEMMA InTimeDispatch ==
  ASSUME TypeOK, DispatchInv, ReportInv, TableInv, InTimeInv, DispatchStep
  PROVE  InTimeInv'
<1>1. UNCHANGED <<spc, slot, call, cb, pdu, inTime, crossed, clashed>>
  BY DispatchFrame DEF senderVars
<1>. SUFFICES ASSUME ~clashed, NEW c \in inTime PROVE Kept(c)'
  BY <1>1 DEF InTimeInv
<1>2. /\ EntryInv /\ Kept(c) /\ (Stolen(c) => Stolen(c)') /\ c \in Calls
      /\ dpc = "load" => OwnOr(cb[dslot])
  BY <1>1 DEF InTimeInv, TableInv, Stolen, TypeOK
<1>3. UNCHANGED busy => \A n : Ahead(c, n) => Ahead(c, n)'
  BY <1>1 DEF Ahead, Entry, At
<1>4. dslot \in Slots /\ dslot \in Nat /\ TableSize \in Nat
  BY Sizes DEF TypeOK, Slots
<1>5. CASE \E r \in reports : OnReport(r)
  <2>. PICK r \in reports : OnReport(r)
    BY <1>5
  <2>1. /\ dpc = "idle" /\ dpc' = "look" /\ dpdu' = r[1] /\ dslot' = 1 /\ UNCHANGED <<busy, called>>
        /\ reports' = reports \ {r}
    BY DEF OnReport, table, cbHistory
  <2>2. AwaitsReport(c) => AwaitsReport(c)' \/ c = dpdu'
    BY <2>1 DEF AwaitsReport
  <2>. QED BY <1>2, <1>3, <2>1, <2>2 DEF Kept
<1>6. CASE Look /\ Matches(dslot)
  <2>1. /\ dpc = "look" /\ dpc' = "load" /\ UNCHANGED <<dpdu, dslot, dcb, called, reports>>
        /\ busy' = [busy EXCEPT ![dslot] = FALSE] /\ pdu[dslot] = dpdu
    BY <1>6 DEF Look, Matches, node, cbHistory
  <2>2. CASE dpdu = c
    BY <2>1, <2>2 DEF Kept
  <2>3. CASE dpdu # c
    <3>1. \A n : Ahead(c, n) => Ahead(c, n)'
      BY <1>1, <2>1, <2>3 DEF Ahead, Entry, At, TypeOK
    <3>2. AwaitsReport(c) => AwaitsReport(c)'
      BY <2>1 DEF AwaitsReport
    <3>. QED BY <1>2, <2>1, <2>3, <3>1, <3>2 DEF Kept
  <2>. QED BY <2>2, <2>3
<1>7. CASE Look /\ ~Matches(dslot)
  <2>1. /\ dpc = "look" /\ NextSlot /\ UNCHANGED <<busy, dpdu, dcb, called, reports>>
    BY <1>7 DEF Look, node, cbHistory
  <2>2. dpdu = c => ~Entry(c, dslot)
    BY <1>7 DEF Entry, Matches
  <2>3. dpdu = c /\ Ahead(c, dslot) => dpc' = "look" /\ Ahead(c, dslot)'
    <3>. SUFFICES ASSUME dpdu = c, NEW i \in Slots, i >= dslot, Entry(c, i)
                  PROVE  dpc' = "look" /\ Ahead(c, dslot)'
      BY DEF Ahead
    <3>1. i >= dslot + 1 /\ i <= TableSize
      BY <1>4, <2>2 DEF Slots
    <3>2. dpc' = "look" /\ dslot' = dslot + 1
      BY <1>4, <2>1, <3>1 DEF NextSlot, Slots
    <3>3. Entry(c, i)'
      BY <1>1, <2>1 DEF Entry, At
    <3>. QED BY <3>1, <3>2, <3>3 DEF Ahead
  <2>4. dpc' \in {"look", "call"}
    BY <2>1 DEF NextSlot
  <2>5. AwaitsReport(c) => AwaitsReport(c)'
    BY <2>1 DEF AwaitsReport
  <2>. QED BY <1>2, <1>3, <2>1, <2>3, <2>4, <2>5 DEF Kept
<1>8. CASE LoadCb
  <2>1. /\ dpc = "load" /\ dcb' = cb[dslot] /\ dpc' \in {"look", "call"}
        /\ UNCHANGED <<busy, dpdu, called, reports>>
    BY <1>8 DEF LoadCb, NextSlot, table, node, cbHistory
  <2>2. AwaitsReport(c) => AwaitsReport(c)'
    BY <2>1 DEF AwaitsReport
  <2>3. CASE dpdu = c
    <3>1. dcb' = c \/ <<c, dcb'>> \in crossed
      BY <1>2, <2>1, <2>3 DEF OwnOr
    <3>2. dcb' # 0 \/ Stolen(c)
      <4>1. CASE dcb' = c
        BY <4>1, <1>2, Sizes DEF Calls
      <4>2. CASE <<c, dcb'>> \in crossed
        BY <4>2 DEF Stolen, TypeOK
      <4>. QED BY <3>1, <4>1, <4>2
    <3>. QED BY <1>2, <2>1, <2>3, <3>2 DEF Kept
  <2>4. CASE dpdu # c
    BY <1>2, <1>3, <2>1, <2>2, <2>4 DEF Kept
  <2>. QED BY <2>3, <2>4
<1>9. CASE CallBack
  <2>1. /\ dpc = "call" /\ UNCHANGED <<busy, dpdu, reports>>
        /\ called' = IF dcb = 0 THEN called ELSE [called EXCEPT ![<<dcb, dpdu>>] = @ + 1]
        /\ dcb = 0 \/ OwnOr(dcb)
    BY <1>9 DEF CallBack, table, node, TableInv
  <2>2. called[<<c, c>>] > 0 => called'[<<c, c>>] > 0
    BY <1>2, <2>1 DEF TypeOK
  <2>3. AwaitsReport(c) => AwaitsReport(c)'
    BY <2>1 DEF AwaitsReport
  <2>4. CASE dpdu = c /\ dcb # 0
    <3>1. CASE dcb = c
      <4>1. called[<<c, c>>] \in Nat /\ <<c, c>> \in DOMAIN called
        BY <1>2 DEF TypeOK
      <4>2. called'[<<c, c>>] = called[<<c, c>>] + 1
        BY <2>1, <2>4, <3>1, <4>1
      <4>. QED BY <4>1, <4>2 DEF Kept
    <3>2. CASE <<c, dcb>> \in crossed
      BY <1>2, <3>2 DEF Kept, Stolen, TypeOK
    <3>. QED BY <2>1, <2>4, <3>1, <3>2 DEF OwnOr
  <2>. QED BY <1>2, <1>3, <2>1, <2>2, <2>3, <2>4 DEF Kept
<1>. QED BY <1>5, <1>6, <1>7, <1>8, <1>9 DEF DispatchStep

LEMMA InTimeNext == Inv /\ ReportInv /\ TableInv /\ InTimeInv /\ [Next]_vars => InTimeInv'
<1>. SUFFICES ASSUME Inv, ReportInv, TableInv, InTimeInv, [Next]_vars PROVE InTimeInv'
  OBVIOUS
<1>1. TypeOK /\ CallInv /\ DispatchInv
  BY DEF Inv
<1>2. CASE UNCHANGED vars
  <2>1. UNCHANGED <<spc, slot, busy, cb, pdu, dpc, dpdu, dslot, dcb, reports, called, inTime, crossed, clashed>>
    BY <1>2 DEF vars, senderVars, table, node, dispatch, cbHistory
  <2>2. \A c, n : Ahead(c, n) => Ahead(c, n)'
    BY <2>1 DEF Ahead, Entry, At
  <2>. QED BY <2>1, <2>2 DEF InTimeInv, Kept, Stolen, AwaitsReport
<1>3. ASSUME NEW s \in Senders, NEW k \in 1 .. MaxFrags, NEW w \in BOOLEAN, Begin(s, k, w)
      PROVE  InTimeInv'
  <2>1. /\ UNCHANGED <<slot, busy, cb, pdu, dpc, dpdu, dslot, dcb, inTime, crossed, clashed, reports, called>>
        /\ spc'[s] \in {"send", "read"} /\ \A t \in Senders \ {s} : spc'[t] = spc[t]
    BY <1>1, <1>3, BeginFrame
  <2>2. \A t \in Senders, i \in Slots : At(t, i)' => At(t, i)
    BY <2>1 DEF At
  <2>3. \A c, n : Ahead(c, n) => Ahead(c, n)'
    BY <2>1, <2>2 DEF Ahead, Entry
  <2>. QED BY <2>1, <2>3 DEF InTimeInv, Kept, Stolen, AwaitsReport
<1>. QED BY <1>1, <1>2, <1>3, InTimeSender, InTimeDispatch, Steps

----------------------------------------------------------------------------
(* The theorems                                                            *)

LEMMA FullInit == Init => FullInv
<1>. SUFFICES ASSUME Init PROVE FullInv
  OBVIOUS
<1>1. Inv
  BY InvInit
<1>2. LinkInv /\ SpacedInv
  BY DEF Init, LinkInv, SpacedInv
<1>3. ReportInv /\ SettledInv
  BY DEF Init, ReportInv, SettledInv
<1>4. Spent(0)
  BY DEF Init, Spent, Past
<1>5. TableInv
  BY <1>4 DEF Init, TableInv, EntryInv, Gone, At, Filling
<1>6. InTimeInv
  BY DEF Init, InTimeInv
<1>. QED BY <1>1, <1>2, <1>3, <1>5, <1>6 DEF FullInv

LEMMA FullNext == FullInv /\ [Next]_vars => FullInv'
<1>1. Inv => TypeOK /\ CallInv
  BY DEF Inv
<1>. QED BY <1>1, InvNext, LinkNext, SpacedNext, ReportNext, TableNext, SettledNext, InTimeNext
         DEF FullInv

\* The invariant of the packet id and of the table, neither of which has a lock.
THEOREM FullInvariance == Spec => []FullInv
<1>. QED BY FullInit, FullNext, PTL DEF Spec

\* Fragments of two messages, of any senders, share a packet id only IdSpan turns
\* of packet_id apart (line 218), even after a failed call, as long as no sender
\* read it between the read and the write of another.
THEOREM NoMixedPacketsHolds == Spec => []NoMixedPackets
<1>1. FullInv => NoMixedPackets
  BY SpacedApart DEF FullInv, Inv
<1>. QED BY <1>1, FullInvariance, PTL

\* A report calls one callback at most, and once: the message's own, or one that
\* took over its entry between lines 67 and 68, unless two senders chose the same
\* entry (lines 44-73, 291-305).
THEOREM CallbackIsOwnHolds == Spec => []CallbackIsOwn
<1>1. FullInv => CallbackIsOwn
  BY DEF FullInv, ReportInv, SettledInv, CallbackIsOwn
<1>. QED BY <1>1, FullInvariance, PTL

\* Whatever the senders do to the table, a pdu id is passed to a callback when its
\* whole message is with the node and its final fragment reported, never on the
\* report of an earlier one (lines 117-126).
THEOREM CalledAfterSentHolds == Spec => []CalledAfterSent
<1>1. FullInv => CalledAfterSent
  <2>. SUFFICES ASSUME FullInv, NEW c \in Calls, NEW p \in Calls, called[<<c, p>>] > 0
                PROVE  Complete(p) /\ <<p, size[p] - 1>> \notin reports
    BY DEF CalledAfterSent
  <2>1. TypeOK /\ FragInv /\ Whole(p) /\ Spent(p)
    BY DEF FullInv, Inv, ReportInv
  <2>. QED BY <2>1, WholeIsComplete DEF Spent
<1>. QED BY <1>1, FullInvariance, PTL

\* A callback that was in the table before the report of its message was handled
\* has been called with it in the end, unless two senders chose the same entry or
\* another took it over between lines 67 and 68 (lines 44-73).
THEOREM RegisteredIsCalledHolds == Spec => []RegisteredIsCalled
<1>1. FullInv => RegisteredIsCalled
  <2>. SUFFICES ASSUME FullInv, ~clashed, NEW c \in inTime, ReportHandled(c)
                PROVE  called[<<c, c>>] > 0 \/ Stolen(c)
    BY DEF RegisteredIsCalled, Stolen
  <2>1. Kept(c)
    BY DEF FullInv, InTimeInv
  <2>. QED BY <2>1 DEF Kept, ReportHandled
<1>. QED BY <1>1, FullInvariance, PTL

=============================================================================

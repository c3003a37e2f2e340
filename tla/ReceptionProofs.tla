-------------------------- MODULE ReceptionProofs --------------------------
(***************************************************************************)
(* Proofs about the way of an indication through the host.  The first part  *)
(* is about IndicationQueue, for every queue size, every set of indications *)
(* and every width of unsigned int; the second about Reassembly, for every  *)
(* set of keys, every set of message lengths and every size of the buffer.  *)
(***************************************************************************)
EXTENDS IndicationQueue, Reassembly, SequenceTheorems, FunctionTheorems, FiniteSetTheorems, TLAPS

----------------------------------------------------------------------------
(* The ring: indexes                                                       *)

\* A remainder below the modulus is the number itself (indexes of the ring,
\* and the unsigned subtraction of line 245 when it does not wrap).
LEMMA ModSmall ==
  ASSUME NEW n \in Nat, NEW a \in Nat, a < n
  PROVE  a % n = a
  OBVIOUS

\* One turn of the ring is subtracted.
LEMMA ModOnce ==
  ASSUME NEW n \in Nat, NEW a \in Nat, n <= a, a < 2 * n
  PROVE  a % n = a - n
  OBVIOUS

\* The ring has at least one slot, more than the unsigned type can count.
LEMMA Sizes == /\ MaxInd \in Nat /\ MaxInd > 0
               /\ N \in Nat /\ N > 0 /\ N = MaxInd + MaxInd
               /\ UIntSpan \in Nat /\ UIntSpan > N
  BY MaxIndAssumption, SpanAssumption DEF N

\* The next index, without the remainder (lines 137 and 170).
LEMMA SuccValue ==
  ASSUME NEW i \in Index
  PROVE  /\ Succ(i) = IF i = N - 1 THEN 0 ELSE i + 1
         /\ Succ(i) \in Index
<1>1. CASE i = N - 1
  <2>1. (i + 1) % N = (i + 1) - N
    BY <1>1, Sizes, ModOnce DEF Index
  <2>. QED BY <2>1, <1>1, Sizes DEF Succ, Index
<1>2. CASE i # N - 1
  <2>1. (i + 1) % N = i + 1
    BY <1>2, Sizes, ModSmall DEF Index
  <2>. QED BY <2>1, <1>2, Sizes DEF Succ, Index
<1>. QED BY <1>1, <1>2

----------------------------------------------------------------------------
(* The ring: the inductive invariant                                       *)

\* Indexes differ unless the ring is full or empty; a callback runs, and its
\* slot is freed, only while the ring is not marked empty.
RingInv == /\ empty => rd = wr
           /\ dpc \in {"callback", "advanced"} => ~empty

\* What the poll thread has measured bounds what the ring holds, as long as
\* it measured with one value of m_ind_queue_read: between its reads and its
\* last insertion, the dispatch thread can only make room.
BudgetInv ==
  ~reload =>
    /\ ppc = "get" => budget <= N - Occupancy
    /\ ppc \in {"empty?", "compare", "above", "below"} =>
         seen # wr /\ Occupancy <= OccupancyFrom(seen)
    /\ ppc = "above" => wr > seen
    /\ ppc = "below" => wr < seen

Inv == TypeOK /\ RingInv /\ BudgetInv /\ NoOverrun

\* The occupancy is a number of slots.
LEMMA OccupancyRange ==
  ASSUME TypeOK
  PROVE  /\ Occupancy \in 0 .. N
         /\ rd # wr => Occupancy \in 1 .. N - 1
         /\ \A r \in Index : OccupancyFrom(r) \in 1 .. N
  BY Sizes DEF TypeOK, Occupancy, OccupancyFrom, Index

\* The ring starts empty.
LEMMA InvInit == Init => Inv
<1>. SUFFICES ASSUME Init PROVE Inv
  OBVIOUS
<1>1. TypeOK
  <2>1. slots \in [Index -> Ind \cup {NoInd}]
    BY DEF Init
  <2>2. 0 \in Index
    BY Sizes DEF Index
  <2>3. empty \in BOOLEAN /\ overrun \in BOOLEAN /\ reload \in BOOLEAN
    BY Zenon DEF Init
  <2>. QED BY <2>1, <2>2, <2>3, Sizes DEF Init, TypeOK
<1>2. RingInv /\ NoOverrun
  BY DEF Init, RingInv, NoOverrun
<1>3. BudgetInv
  BY DEF Init, BudgetInv
<1>. QED BY <1>1, <1>2, <1>3 DEF Inv

\* A step that leaves the ring and the dispatch thread alone changes neither
\* the occupancy nor what is counted from an index.
LEMMA SameOccupancy ==
  ASSUME UNCHANGED ring, UNCHANGED dpc
  PROVE  /\ Occupancy' = Occupancy
         /\ \A r : OccupancyFrom(r)' = OccupancyFrom(r)
  BY DEF ring, Occupancy, OccupancyFrom

\* A step of the poll thread that reads keeps the invariant.
LEMMA InvReads ==
  ASSUME Inv, ReadEmpty \/ ReadFull \/ ReadEmptyAgain \/ Compare
  PROVE  Inv'
<1>. USE Sizes, OccupancyRange, SameOccupancy
<1>. USE DEF Inv, TypeOK, RingInv, BudgetInv, NoOverrun, ring
<1>1. CASE ReadEmpty
  <2>1. empty => Occupancy = 0
    BY DEF Occupancy
  <2>. QED BY <1>1, <2>1 DEF ReadEmpty
<1>2. CASE ReadFull
  <2>1. wr # rd => Occupancy = OccupancyFrom(rd)
    BY DEF Occupancy
  <2>. QED BY <1>2, <2>1 DEF ReadFull
<1>3. CASE ReadEmptyAgain
  BY <1>3 DEF ReadEmptyAgain
<1>4. CASE Compare
  BY <1>4 DEF Compare, LoadRead, Index
<1>. QED BY <1>1, <1>2, <1>3, <1>4

\* The budget computed from one value of m_ind_queue_read fits in the ring.
LEMMA InvMeasure ==
  ASSUME Inv, Measure
  PROVE  Inv'
<1>. USE Sizes
<1>. DEFINE room == IF ppc = "above" THEN RoomAbove(LoadRead) ELSE RoomBelow(LoadRead)
<1>1. room \in Nat
  BY DEF Inv, TypeOK, RoomAbove, RoomBelow, LoadRead, Measure, Index
<1>2. budget' \in 0 .. MaxInd /\ budget' <= room
  BY <1>1 DEF Measure, Smaller
<1>3. ASSUME ~reload
      PROVE  room <= N - Occupancy
  <2>1. CASE ppc = "above"
    BY <1>3, <2>1, OccupancyRange
    DEF Inv, TypeOK, BudgetInv, RoomAbove, LoadRead, OccupancyFrom, Index
  <2>2. CASE ppc = "below"
    <3>1. seen - wr \in Nat /\ seen - wr < UIntSpan
      BY <1>3, <2>2 DEF Inv, TypeOK, BudgetInv, Index
    <3>2. room = seen - wr
      BY <1>3, <2>2, <3>1, ModSmall DEF RoomBelow, LoadRead
    <3>. QED BY <1>3, <2>2, <3>2, OccupancyRange
         DEF Inv, TypeOK, BudgetInv, OccupancyFrom, Index
  <2>. QED BY <2>1, <2>2 DEF Measure
<1>4. ~reload => budget' <= N - Occupancy
  BY <1>1, <1>2, <1>3, OccupancyRange DEF Inv
<1>. QED BY <1>2, <1>4, SameOccupancy
     DEF Measure, Inv, TypeOK, RingInv, BudgetInv, NoOverrun, ring

\* An insertion within the budget finds a free slot.
LEMMA InvInsert ==
  ASSUME Inv, NEW x \in Ind, OnIndicationReceivedLocked(x)
  PROVE  Inv'
<1>. USE Sizes, OccupancyRange
<1>1. CASE ~empty /\ wr = rd
  <2>1. Occupancy = N
    BY <1>1 DEF Occupancy, OnIndicationReceivedLocked, QueueFree
  <2>2. reload
    BY <2>1 DEF Inv, TypeOK, BudgetInv, OnIndicationReceivedLocked
  <2>3. budget' \in 0 .. MaxInd /\ overrun' = TRUE /\ UNCHANGED <<ring, ppc, seen, dpc, reload>>
    BY <1>1 DEF OnIndicationReceivedLocked, Inv, TypeOK
  <2>4. TypeOK'
    BY <2>3 DEF Inv, TypeOK, ring
  <2>5. RingInv'
    BY <2>3 DEF Inv, RingInv, ring
  <2>6. BudgetInv' /\ NoOverrun'
    BY <2>2, <2>3 DEF BudgetInv, NoOverrun
  <2>. QED BY <2>4, <2>5, <2>6 DEF Inv
<1>2. CASE empty \/ wr # rd
  <2>1. /\ wr' = Succ(wr) /\ wr' \in Index /\ empty' = FALSE /\ rd' = rd /\ ppc' = "get"
        /\ wr' = IF wr = N - 1 THEN 0 ELSE wr + 1
        /\ dpc' = dpc /\ dpc \in {"wait", "callback"} /\ slots' = [slots EXCEPT ![wr] = x]
        /\ budget' = budget - 1 /\ budget > 0
        /\ overrun' = overrun /\ reload' = reload /\ seen' = seen /\ ppc = "get"
    BY <1>2, SuccValue DEF OnIndicationReceivedLocked, Inv, TypeOK, QueueFree
  <2>2. ~reload => Occupancy' = Occupancy + 1
    <3>. SUFFICES ASSUME ~reload PROVE Occupancy' = Occupancy + 1
      OBVIOUS
    <3>1. CASE empty
      BY <2>1, <3>1 DEF Inv, TypeOK, RingInv, Occupancy, OccupancyFrom, Index
    <3>2. CASE wr # rd
      BY <2>1, <3>2 DEF Inv, TypeOK, Occupancy, OccupancyFrom, Index
    <3>. QED BY <1>2, <3>1, <3>2
  <2>3. BudgetInv'
    BY <2>1, <2>2 DEF Inv, TypeOK, BudgetInv
  <2>4. TypeOK'
    <3>1. slots' \in [Index -> Ind \cup {NoInd}]
      BY <2>1 DEF Inv, TypeOK
    <3>2. budget' \in 0 .. MaxInd
      BY <2>1 DEF Inv, TypeOK
    <3>3. empty' \in BOOLEAN /\ overrun' \in BOOLEAN /\ reload' \in BOOLEAN
      BY <2>1, Zenon DEF Inv, TypeOK
    <3>. QED BY <2>1, <3>1, <3>2, <3>3 DEF Inv, TypeOK
  <2>5. RingInv' /\ NoOverrun'
    BY <2>1 DEF Inv, RingInv, NoOverrun
  <2>. QED BY <2>3, <2>4, <2>5 DEF Inv
<1>. QED BY <1>1, <1>2 DEF OnIndicationReceivedLocked

\* Freeing a slot lowers the occupancy by one, so no measure is overtaken.
LEMMA InvAdvance ==
  ASSUME Inv, DispatchAdvance
  PROVE  Inv'
<1>. USE Sizes, OccupancyRange
<1>1. /\ rd' \in Index /\ rd' = IF rd = N - 1 THEN 0 ELSE rd + 1
      /\ dpc = "callback" /\ dpc' = "advanced" /\ UNCHANGED <<slots, wr, empty, overrun, reload>>
      /\ UNCHANGED poll
  BY SuccValue DEF DispatchAdvance, Inv, TypeOK
<1>2. Occupancy' = Occupancy - 1
  <2>1. ~empty
    BY <1>1 DEF Inv, RingInv
  <2>2. CASE rd = wr
    BY <1>1, <2>1, <2>2 DEF Inv, TypeOK, Occupancy, OccupancyFrom, Index
  <2>3. CASE rd # wr
    BY <1>1, <2>1, <2>3 DEF Inv, TypeOK, Occupancy, OccupancyFrom, Index
  <2>. QED BY <2>2, <2>3
<1>3. OccupancyFrom(seen)' = OccupancyFrom(seen)
  BY <1>1 DEF OccupancyFrom, poll
<1>. QED BY <1>1, <1>2, <1>3 DEF Inv, TypeOK, RingInv, BudgetInv, NoOverrun, poll

\* The other steps move neither the indexes nor the occupancy.
LEMMA InvOthers ==
  ASSUME Inv, PollReturns \/ DispatchWait \/ DispatchWake \/ DispatchBegin \/ DispatchMarkEmpty
  PROVE  Inv'
<1>. USE Sizes, OccupancyRange
<1>1. CASE DispatchMarkEmpty
  <2>1. /\ UNCHANGED <<slots, wr, rd, overrun, reload>> /\ UNCHANGED poll
        /\ dpc = "advanced" /\ dpc' = "top" /\ empty' = (empty \/ rd = wr)
    BY <1>1 DEF DispatchMarkEmpty
  <2>2. Occupancy' = Occupancy /\ OccupancyFrom(seen)' = OccupancyFrom(seen)
    BY <2>1 DEF Occupancy, OccupancyFrom, poll
  <2>3. TypeOK'
    BY <2>1 DEF Inv, TypeOK, poll
  <2>4. RingInv' /\ NoOverrun'
    BY <2>1 DEF Inv, RingInv, NoOverrun
  <2>5. BudgetInv'
    BY <2>1, <2>2 DEF Inv, BudgetInv, poll
  <2>. QED BY <2>3, <2>4, <2>5 DEF Inv
<1>2. CASE PollReturns \/ DispatchWait \/ DispatchWake \/ DispatchBegin
  <2>1. UNCHANGED <<ring, seen, overrun, reload>>
    BY <1>2 DEF PollReturns, DispatchWait, DispatchWake, DispatchBegin, poll
  <2>2. /\ dpc = "advanced" <=> dpc' = "advanced"
        /\ dpc' \in {"callback", "advanced"} => dpc \in {"callback", "advanced"} \/ ~empty
        /\ dpc' \in {"top", "wait", "callback", "advanced"}
    BY <1>2 DEF PollReturns, DispatchWait, DispatchWake, DispatchBegin, Inv, TypeOK
  <2>3. UNCHANGED <<ppc, budget>> \/ (ppc' = "sleep" /\ budget' = 0)
    BY <1>2 DEF PollReturns, DispatchWait, DispatchWake, DispatchBegin, poll
  <2>4. Occupancy' = Occupancy /\ OccupancyFrom(seen)' = OccupancyFrom(seen)
    BY <2>1, <2>2 DEF Occupancy, OccupancyFrom, ring
  <2>5. TypeOK'
    BY <2>1, <2>2, <2>3 DEF Inv, TypeOK, ring
  <2>6. RingInv' /\ NoOverrun'
    BY <2>1, <2>2 DEF Inv, RingInv, NoOverrun, ring
  <2>7. BudgetInv'
    BY <2>1, <2>3, <2>4 DEF Inv, BudgetInv, ring
  <2>. QED BY <2>5, <2>6, <2>7 DEF Inv
<1>. QED BY <1>1, <1>2

\* Inv is inductive.
LEMMA InvNext == Inv /\ [Next]_vars => Inv'
<1>. SUFFICES ASSUME Inv, [Next]_vars PROVE Inv'
  OBVIOUS
<1>1. CASE PollStep
  BY <1>1, InvReads, InvMeasure, InvInsert, InvOthers DEF PollStep
<1>2. CASE DispatchStep
  BY <1>2, InvAdvance, InvOthers DEF DispatchStep
<1>3. CASE UNCHANGED vars
  BY <1>3, SameOccupancy DEF vars, ring, poll, Inv, TypeOK, RingInv, BudgetInv, NoOverrun
<1>. QED BY <1>1, <1>2, <1>3 DEF Next

\* The inductive invariant of lines 98-285 of platform.c.
THEOREM Invariance == Spec => []Inv
<1>. QED BY InvInit, InvNext, PTL DEF Spec

\* Every variable of the ring and of the two threads keeps its type: in
\* particular the indexes stay inside m_indications_queue.
THEOREM TypeCorrect == Spec => []TypeOK
<1>1. Inv => TypeOK
  BY DEF Inv
<1>. QED BY <1>1, Invariance, PTL

\* "No more room for indications! Must never happen!" (line 161) does not
\* happen when m_ind_queue_read is loaded once per room computation.
THEOREM NoOverrunHolds == Spec => []NoOverrun
<1>1. Inv => NoOverrun
  BY DEF Inv
<1>. QED BY <1>1, Invariance, PTL

----------------------------------------------------------------------------
(* The ring implements the FIFO of IndicationFifo                          *)

\* What the abstract queue holds, and what the running callback sees.
Waiting == [i \in 1 .. Occupancy |-> slots[(rd + i - 1) % N]]
Handled == IF dpc = "callback" THEN slots[rd] ELSE NoInd

\* Every slot counted as occupied holds an indication.
HeldInv == \A i \in 1 .. Occupancy : slots[(rd + i - 1) % N] \in Ind

\* The place of the i-th occupied slot, without the remainder.
LEMMA Place ==
  ASSUME NEW r \in Index, NEW i \in 1 .. N
  PROVE  /\ (r + i - 1) % N = IF r + i - 1 < N THEN r + i - 1 ELSE r + i - 1 - N
         /\ (r + i - 1) % N \in Index
<1>1. CASE r + i - 1 < N
  <2>1. (r + i - 1) % N = r + i - 1
    BY <1>1, Sizes, ModSmall DEF Index
  <2>. QED BY <2>1, <1>1, Sizes DEF Index
<1>2. CASE ~(r + i - 1 < N)
  <2>1. (r + i - 1) % N = r + i - 1 - N
    BY <1>2, Sizes, ModOnce DEF Index
  <2>. QED BY <2>1, <1>2, Sizes DEF Index
<1>. QED BY <1>1, <1>2

\* The abstract queue is a sequence of indications.
LEMMA WaitingSeq ==
  ASSUME TypeOK, HeldInv
  PROVE  Waiting \in Seq(Ind) /\ Len(Waiting) = Occupancy
<1>1. Occupancy \in Nat
  BY OccupancyRange, Sizes
<1>2. \A i \in 1 .. Occupancy : slots[(rd + i - 1) % N] \in Ind
  BY DEF HeldInv
<1>3. Waiting \in [1 .. Occupancy -> Ind]
  BY <1>2 DEF Waiting
<1>. QED BY <1>1, <1>3, LenProperties, SeqDef

\* The abstract actions in terms of Waiting and Handled.
LEMMA FifoSteps ==
  /\ Fifo!Init <=> Waiting = << >> /\ Handled = NoInd
  /\ \A x \in Ind : Fifo!Arrive(x) <=>
       Len(Waiting) < N /\ Waiting' = Append(Waiting, x) /\ Handled' = Handled
  /\ Fifo!Begin <=>
       Handled = NoInd /\ Waiting # << >> /\ Handled' = Head(Waiting) /\ Waiting' = Waiting
  /\ Fifo!End <=> Handled # NoInd /\ Handled' = NoInd /\ Waiting' = Tail(Waiting)
  /\ Waiting' = Waiting /\ Handled' = Handled => UNCHANGED Fifo!vars
BY DEF Fifo!Init, Fifo!Arrive, Fifo!Begin, Fifo!End, Fifo!vars, Waiting, Handled

\* Two states with the same ring hold the same in the abstract queue.
LEMMA WaitingSame ==
  ASSUME UNCHANGED <<slots, rd>>, Occupancy' = Occupancy
  PROVE  Waiting' = Waiting /\ (HeldInv => HeldInv')
  BY DEF Waiting, HeldInv

\* An insertion adds the indication at the end, in a slot that was free; one
\* into a full ring changes nothing.
LEMMA InsertArrives ==
  ASSUME TypeOK, RingInv, HeldInv, NEW x \in Ind, OnIndicationReceivedLocked(x)
  PROVE  HeldInv' /\ (Fifo!Arrive(x) \/ UNCHANGED Fifo!vars)
<1>. USE Sizes
<1>1. CASE UNCHANGED ring
  <2>1. UNCHANGED dpc
    BY DEF OnIndicationReceivedLocked
  <2>2. Occupancy' = Occupancy /\ UNCHANGED <<slots, rd>>
    BY <1>1, <2>1, SameOccupancy DEF ring
  <2>3. Waiting' = Waiting /\ HeldInv' /\ Handled' = Handled
    BY <2>1, <2>2, WaitingSame DEF Handled
  <2>. QED BY <2>3, FifoSteps
<1>2. CASE ~(UNCHANGED ring)
  <2>1. /\ wr' = Succ(wr) /\ empty' = FALSE /\ UNCHANGED <<rd, dpc>>
        /\ slots' = [slots EXCEPT ![wr] = x]
        /\ empty \/ wr # rd
        /\ dpc \in {"wait", "callback"}
    BY <1>2 DEF OnIndicationReceivedLocked, QueueFree
  <2>2. wr \in Index /\ rd \in Index /\ wr' \in Index /\ wr' = IF wr = N - 1 THEN 0 ELSE wr + 1
    BY <2>1, SuccValue DEF TypeOK
  <2>3. Occupancy \in 0 .. N - 1 /\ Occupancy' = Occupancy + 1
    <3>1. CASE wr = rd
      <4>1. Occupancy = 0
        BY <2>1, <3>1 DEF Occupancy
      <4>2. Occupancy' = 1
        BY <2>1, <2>2, <3>1 DEF Occupancy, OccupancyFrom, Index
      <4>. QED BY <4>1, <4>2
    <3>2. CASE wr # rd
      BY <2>1, <2>2, <3>2 DEF Occupancy, OccupancyFrom, Index
    <3>. QED BY <3>1, <3>2
  <2>4. rd + Occupancy = wr \/ rd + Occupancy = wr + N
    BY <2>1, <2>2 DEF Occupancy, OccupancyFrom, Index
  <2>5. \A i \in 1 .. Occupancy : (rd + i - 1) % N # wr
    <3>. SUFFICES ASSUME NEW i \in 1 .. Occupancy PROVE (rd + i - 1) % N # wr
      OBVIOUS
    <3>1. i \in 1 .. N
      BY <2>3
    <3>2. (rd + i - 1) % N = IF rd + i - 1 < N THEN rd + i - 1 ELSE rd + i - 1 - N
      BY <2>2, <3>1, Place
    <3>. QED BY <2>2, <2>3, <2>4, <3>2 DEF Index
  <2>6. (rd + (Occupancy + 1) - 1) % N = wr
    <3>1. Occupancy + 1 \in 1 .. N
      BY <2>3
    <3>2. (rd + (Occupancy + 1) - 1) % N =
            IF rd + (Occupancy + 1) - 1 < N THEN rd + (Occupancy + 1) - 1
                                            ELSE rd + (Occupancy + 1) - 1 - N
      BY <2>2, <3>1, Place
    <3>. QED BY <2>2, <2>3, <2>4, <3>2 DEF Index
  <2>7. slots'[wr] = x /\ \A j \in Index \ {wr} : slots'[j] = slots[j]
    BY <2>1, <2>2 DEF TypeOK
  <2>8. \A i \in 1 .. Occupancy : slots'[(rd + i - 1) % N] = slots[(rd + i - 1) % N]
    <3>. SUFFICES ASSUME NEW i \in 1 .. Occupancy
                  PROVE  slots'[(rd + i - 1) % N] = slots[(rd + i - 1) % N]
      OBVIOUS
    <3>1. i \in 1 .. N
      BY <2>3
    <3>2. (rd + i - 1) % N \in Index
      BY <2>2, <3>1, Place
    <3>. QED BY <3>2, <2>5, <2>7
  <2>9. HeldInv'
    <3>1. \A i \in 1 .. Occupancy + 1 : i \in 1 .. Occupancy \/ i = Occupancy + 1
      BY <2>3
    <3>2. \A i \in 1 .. Occupancy + 1 : slots'[(rd + i - 1) % N] \in Ind
      BY <3>1, <2>6, <2>7, <2>8 DEF HeldInv
    <3>. QED BY <3>2, <2>1, <2>3 DEF HeldInv
  <2>10. Waiting \in Seq(Ind) /\ Len(Waiting) = Occupancy
    BY WaitingSeq
  <2>11. Waiting' = Append(Waiting, x)
    <3>1. Waiting' = [i \in 1 .. Occupancy + 1 |-> slots'[(rd + i - 1) % N]]
      BY <2>1, <2>3 DEF Waiting
    <3>2. Waiting' \in Seq(Ind) /\ Len(Waiting') = Occupancy + 1
      <4>1. \A i \in 1 .. Occupancy + 1 : slots'[(rd + i - 1) % N] \in Ind
        BY <2>9, <2>1, <2>3 DEF HeldInv
      <4>2. Waiting' \in [1 .. Occupancy + 1 -> Ind]
        BY <3>1, <4>1
      <4>. QED BY <4>2, <2>3, LenProperties, SeqDef
    <3>3. /\ Append(Waiting, x) \in Seq(Ind) /\ Len(Append(Waiting, x)) = Occupancy + 1
          /\ \A i \in 1 .. Occupancy : Append(Waiting, x)[i] = Waiting[i]
          /\ Append(Waiting, x)[Occupancy + 1] = x
      BY <2>10, AppendProperties
    <3>4. \A i \in 1 .. Occupancy : Waiting'[i] = Waiting[i]
      BY <3>1, <2>3, <2>8 DEF Waiting
    <3>5. Waiting'[Occupancy + 1] = x
      BY <3>1, <2>3, <2>6, <2>7
    <3>6. \A i \in 1 .. Occupancy + 1 : i \in 1 .. Occupancy \/ i = Occupancy + 1
      BY <2>3
    <3>7. \A i \in 1 .. Len(Waiting') : Waiting'[i] = Append(Waiting, x)[i]
      BY <3>2, <3>3, <3>4, <3>5, <3>6
    <3>. QED BY <3>2, <3>3, <3>7, SeqEqual
  <2>12. Handled' = Handled
    <3>1. CASE dpc = "callback"
      <4>1. rd # wr
        BY <2>1, <3>1 DEF RingInv
      <4>. QED BY <2>1, <2>2, <2>7, <4>1 DEF Handled
    <3>2. CASE dpc # "callback"
      BY <2>1, <3>2 DEF Handled
    <3>. QED BY <3>1, <3>2
  <2>. QED BY <2>3, <2>9, <2>10, <2>11, <2>12, FifoSteps
<1>. QED BY <1>1, <1>2

\* Freeing the slot of the indication that was handled removes the oldest one.
LEMMA AdvanceEnds ==
  ASSUME TypeOK, RingInv, HeldInv, DispatchAdvance
  PROVE  HeldInv' /\ Fifo!End
<1>. USE Sizes
<1>1. /\ dpc = "callback" /\ dpc' = "advanced" /\ rd' = Succ(rd) /\ UNCHANGED <<slots, wr, empty>>
      /\ rd \in Index /\ wr \in Index
      /\ rd' \in Index /\ rd' = IF rd = N - 1 THEN 0 ELSE rd + 1
      /\ ~empty
  BY SuccValue DEF DispatchAdvance, TypeOK, RingInv
<1>2. Occupancy \in 1 .. N /\ Occupancy' = Occupancy - 1
  <2>1. CASE rd = wr
    BY <1>1, <2>1 DEF Occupancy, OccupancyFrom, Index
  <2>2. CASE rd # wr
    BY <1>1, <2>2 DEF Occupancy, OccupancyFrom, Index
  <2>. QED BY <2>1, <2>2
<1>3. \A i \in 1 .. Occupancy - 1 : (rd' + i - 1) % N = (rd + (i + 1) - 1) % N
  <2>. SUFFICES ASSUME NEW i \in 1 .. Occupancy - 1
                PROVE  (rd' + i - 1) % N = (rd + (i + 1) - 1) % N
    OBVIOUS
  <2>1. i \in 1 .. N /\ i + 1 \in 1 .. N
    BY <1>2
  <2>2. (rd' + i - 1) % N = IF rd' + i - 1 < N THEN rd' + i - 1 ELSE rd' + i - 1 - N
    BY <1>1, <2>1, Place
  <2>3. (rd + (i + 1) - 1) % N =
          IF rd + (i + 1) - 1 < N THEN rd + (i + 1) - 1 ELSE rd + (i + 1) - 1 - N
    BY <1>1, <2>1, Place
  <2>. QED BY <1>1, <1>2, <2>1, <2>2, <2>3 DEF Index
<1>4. (rd + 1 - 1) % N = rd
  <2>1. 1 \in 1 .. N
    OBVIOUS
  <2>2. (rd + 1 - 1) % N = IF rd + 1 - 1 < N THEN rd + 1 - 1 ELSE rd + 1 - 1 - N
    BY <1>1, <2>1, Place
  <2>. QED BY <1>1, <2>2 DEF Index
<1>5. \A i \in 1 .. Occupancy - 1 :
        /\ i + 1 \in 1 .. Occupancy
        /\ slots[(rd' + i - 1) % N] = slots[(rd + (i + 1) - 1) % N]
        /\ slots[(rd' + i - 1) % N] \in Ind
  <2>. SUFFICES ASSUME NEW i \in 1 .. Occupancy - 1
                PROVE  /\ i + 1 \in 1 .. Occupancy
                       /\ slots[(rd' + i - 1) % N] = slots[(rd + (i + 1) - 1) % N]
                       /\ slots[(rd' + i - 1) % N] \in Ind
    OBVIOUS
  <2>1. i + 1 \in 1 .. Occupancy
    BY <1>2
  <2>2. slots[(rd + (i + 1) - 1) % N] \in Ind
    BY <2>1 DEF HeldInv
  <2>. QED BY <2>1, <2>2, <1>3
<1>6. HeldInv'
  <2>1. \A i \in 1 .. Occupancy - 1 : slots[(rd' + i - 1) % N] \in Ind
    BY <1>5
  <2>. QED BY <2>1, <1>1, <1>2 DEF HeldInv
<1>7. Waiting \in Seq(Ind) /\ Len(Waiting) = Occupancy /\ Waiting # << >>
  <2>1. Waiting \in Seq(Ind) /\ Len(Waiting) = Occupancy
    BY WaitingSeq
  <2>. QED BY <2>1, <1>2, EmptySeq
<1>8. Waiting' = Tail(Waiting)
  <2>1. Waiting' = [i \in 1 .. Occupancy - 1 |-> slots[(rd' + i - 1) % N]]
    BY <1>1, <1>2 DEF Waiting
  <2>2. Waiting' \in Seq(Ind) /\ Len(Waiting') = Occupancy - 1
    <3>1. Waiting' \in [1 .. Occupancy - 1 -> Ind]
      BY <2>1, <1>5
    <3>. QED BY <3>1, <1>2, LenProperties, SeqDef
  <2>3. /\ Tail(Waiting) \in Seq(Ind) /\ Len(Tail(Waiting)) = Occupancy - 1
        /\ \A i \in 1 .. Occupancy - 1 : Tail(Waiting)[i] = Waiting[i + 1]
    BY <1>7, HeadTailProperties
  <2>4. \A i \in 1 .. Occupancy - 1 : Waiting'[i] = Waiting[i + 1]
    <3>1. \A i \in 1 .. Occupancy - 1 : Waiting'[i] = slots[(rd' + i - 1) % N]
      BY <2>1
    <3>2. \A i \in 1 .. Occupancy - 1 : Waiting[i + 1] = slots[(rd + (i + 1) - 1) % N]
      BY <1>5 DEF Waiting
    <3>. QED BY <3>1, <3>2, <1>5
  <2>5. \A i \in 1 .. Len(Waiting') : Waiting'[i] = Tail(Waiting)[i]
    BY <2>2, <2>3, <2>4
  <2>. QED BY <2>2, <2>3, <2>5, SeqEqual
<1>9. Handled # NoInd /\ Handled' = NoInd
  <2>1. 1 \in 1 .. Occupancy
    BY <1>2
  <2>2. slots[rd] \in Ind
    BY <1>4, <2>1 DEF HeldInv
  <2>. QED BY <1>1, <2>2, NoIndAssumption DEF Handled
<1>. QED BY <1>6, <1>8, <1>9, FifoSteps

\* A callback starts on the oldest indication of a ring that is not empty.
LEMMA CallbackBegins ==
  ASSUME TypeOK, RingInv, HeldInv, DispatchBegin
  PROVE  HeldInv' /\ Fifo!Begin
<1>. USE Sizes
<1>1. /\ dpc = "top" /\ dpc' = "callback" /\ ~empty /\ UNCHANGED ring
      /\ rd \in Index /\ wr \in Index
  BY DEF DispatchBegin, TypeOK
<1>2. Occupancy' = Occupancy /\ Occupancy \in 1 .. N
  <2>1. CASE rd = wr
    BY <1>1, <2>1 DEF Occupancy, ring
  <2>2. CASE rd # wr
    BY <1>1, <2>2 DEF Occupancy, OccupancyFrom, ring, Index
  <2>. QED BY <2>1, <2>2
<1>3. Waiting' = Waiting /\ HeldInv'
  BY <1>1, <1>2, WaitingSame DEF ring
<1>4. Waiting \in Seq(Ind) /\ Len(Waiting) = Occupancy /\ Waiting # << >>
  <2>1. Waiting \in Seq(Ind) /\ Len(Waiting) = Occupancy
    BY WaitingSeq
  <2>. QED BY <2>1, <1>2, EmptySeq
<1>5. Head(Waiting) = slots[rd]
  <2>1. 1 \in 1 .. N /\ 1 \in 1 .. Occupancy
    BY <1>2
  <2>2. (rd + 1 - 1) % N = IF rd + 1 - 1 < N THEN rd + 1 - 1 ELSE rd + 1 - 1 - N
    BY <1>1, <2>1, Place
  <2>3. (rd + 1 - 1) % N = rd
    BY <1>1, <2>2 DEF Index
  <2>4. Waiting[1] = slots[rd]
    BY <2>1, <2>3 DEF Waiting
  <2>. QED BY <2>4, <1>4
<1>6. Handled = NoInd /\ Handled' = slots[rd]
  BY <1>1 DEF Handled, ring
<1>. QED BY <1>3, <1>4, <1>5, <1>6, FifoSteps

\* The other steps are not seen by the abstract queue: marking the ring empty
\* is not, since equal indexes already meant an empty one then.
LEMMA OthersStutter ==
  ASSUME TypeOK, RingInv, HeldInv,
         \/ ReadEmpty \/ ReadFull \/ ReadEmptyAgain \/ Compare \/ Measure \/ PollReturns
         \/ DispatchWait \/ DispatchWake \/ DispatchMarkEmpty \/ UNCHANGED vars
  PROVE  HeldInv' /\ UNCHANGED Fifo!vars
<1>1. UNCHANGED <<slots, rd, wr>>
  BY DEF ReadEmpty, ReadFull, ReadEmptyAgain, Compare, Measure, PollReturns,
         DispatchWait, DispatchWake, DispatchMarkEmpty, ring, vars
<1>2. /\ dpc = "callback" <=> dpc' = "callback"
      /\ \/ UNCHANGED <<dpc, empty>>
         \/ dpc # "advanced" /\ dpc' # "advanced" /\ UNCHANGED empty
         \/ dpc = "advanced" /\ dpc' = "top" /\ empty' = (empty \/ rd = wr)
  BY DEF ReadEmpty, ReadFull, ReadEmptyAgain, Compare, Measure, PollReturns,
         DispatchWait, DispatchWake, DispatchMarkEmpty, ring, vars
<1>3. Occupancy' = Occupancy
  <2>1. \A r : OccupancyFrom(r)' = OccupancyFrom(r)
    BY <1>1 DEF OccupancyFrom
  <2>2. CASE rd # wr
    BY <1>1, <2>1, <2>2 DEF Occupancy
  <2>3. CASE rd = wr
    <3>1. (empty' \/ dpc' = "advanced") <=> (empty \/ dpc = "advanced")
      <4>1. CASE UNCHANGED <<dpc, empty>>
        BY <4>1
      <4>2. CASE dpc # "advanced" /\ dpc' # "advanced" /\ UNCHANGED empty
        BY <4>2
      <4>3. CASE dpc = "advanced" /\ dpc' = "top" /\ empty' = (empty \/ rd = wr)
        <5>1. empty'
          BY <4>3, <2>3
        <5>. QED BY <4>3, <5>1
      <4>. QED BY <1>2, <4>1, <4>2, <4>3
    <3>. QED BY <1>1, <2>3, <3>1 DEF Occupancy
  <2>. QED BY <2>2, <2>3
<1>4. Waiting' = Waiting /\ HeldInv'
  BY <1>1, <1>3, WaitingSame
<1>5. Handled' = Handled
  BY <1>1, <1>2 DEF Handled
<1>. QED BY <1>4, <1>5, FifoSteps

\* Every step of the ring is a step of the FIFO, or none.
LEMMA StepImplements ==
  Inv /\ HeldInv /\ [Next]_vars => HeldInv' /\ [Fifo!Next]_(Fifo!vars)
<1>. SUFFICES ASSUME Inv, HeldInv, [Next]_vars PROVE HeldInv' /\ [Fifo!Next]_(Fifo!vars)
  OBVIOUS
<1>1. TypeOK /\ RingInv
  BY DEF Inv
<1>2. ASSUME NEW x \in Ind, OnIndicationReceivedLocked(x)
      PROVE  HeldInv' /\ [Fifo!Next]_(Fifo!vars)
  <2>1. HeldInv' /\ (Fifo!Arrive(x) \/ UNCHANGED Fifo!vars)
    BY <1>1, <1>2, InsertArrives
  <2>. QED BY <2>1 DEF Fifo!Next
<1>3. CASE DispatchAdvance
  <2>1. HeldInv' /\ Fifo!End
    BY <1>1, <1>3, AdvanceEnds
  <2>. QED BY <2>1 DEF Fifo!Next
<1>4. CASE DispatchBegin
  <2>1. HeldInv' /\ Fifo!Begin
    BY <1>1, <1>4, CallbackBegins
  <2>. QED BY <2>1 DEF Fifo!Next
<1>5. CASE \/ ReadEmpty \/ ReadFull \/ ReadEmptyAgain \/ Compare \/ Measure \/ PollReturns
           \/ DispatchWait \/ DispatchWake \/ DispatchMarkEmpty \/ UNCHANGED vars
  <2>1. HeldInv' /\ UNCHANGED Fifo!vars
    BY <1>1, <1>5, OthersStutter
  <2>. QED BY <2>1
<1>. QED BY <1>2, <1>3, <1>4, <1>5 DEF Next, PollStep, DispatchStep

\* The ring starts as the empty queue.
LEMMA StartImplements == Init => HeldInv /\ Fifo!Init
<1>. SUFFICES ASSUME Init PROVE HeldInv /\ Fifo!Init
  OBVIOUS
<1>1. Occupancy = 0
  BY DEF Init, Occupancy
<1>2. Waiting = << >>
  BY <1>1 DEF Waiting
<1>3. HeldInv /\ Handled = NoInd
  BY <1>1 DEF Init, HeldInv, Handled
<1>. QED BY <1>2, <1>3, FifoSteps

\* Slots are neither overwritten before or while they are handled, nor handled
\* twice or out of order, whatever the build loads: the ring of lines 98-285
\* is a FIFO.  (That every callback is reached is left to ImplementsFifo.)
THEOREM ImplementsFifoSafety == Spec => Fifo!Safety
<1>1. Init /\ [][Next]_vars => []HeldInv
  <2>1. Init /\ [][Next]_vars => []Inv
    BY InvInit, InvNext, PTL
  <2>. QED BY <2>1, StartImplements, StepImplements, PTL
<1>. QED BY <1>1, InvInit, InvNext, StartImplements, StepImplements, PTL DEF Spec, Fifo!Safety

----------------------------------------------------------------------------
(* Reassembly: the flag read by the poll thread                            *)

\* Every step that stores something finds the flag cleared, and every step
\* that sets it looks at the store it leaves.
LEMMA FlagNext == EmptyFlagIsTrue /\ [ReassemblyNext]_reassemblyVars => EmptyFlagIsTrue'
<1>. SUFFICES ASSUME EmptyFlagIsTrue, [ReassemblyNext]_reassemblyVars PROVE EmptyFlagIsTrue'
  OBVIOUS
<1>. USE DEF EmptyFlagIsTrue
<1>1. CASE UNCHANGED reassemblyVars
  BY <1>1 DEF reassemblyVars, store, handler
<1>2. CASE \E k \in Keys : NextMessage(k) \/ GrowsOld(k)
  BY <1>2 DEF NextMessage, GrowsOld, store, handler
<1>3. CASE \E k \in Keys : \E f \in Whole(k) : Receive(f)
  BY <1>3 DEF Receive
<1>4. CASE AllocationFails \/ DuplicateIgnored \/ StoreFragment
  BY <1>4 DEF AllocationFails, DuplicateIgnored, StoreFragment, store
<1>5. CASE Deliver
  BY <1>5 DEF Deliver, HandsOver
<1>6. CASE DeliverTooLong
  BY <1>6 DEF DeliverTooLong, HandsOver, store
<1>7. CASE Collect \/ IdleCollect
  BY <1>7 DEF Collect, IdleCollect, GarbageCollect, store, handler
<1>. QED BY <1>1, <1>2, <1>3, <1>4, <1>5, <1>6, <1>7 DEF ReassemblyNext, Handle

\* "True indicate that queue is empty" (lines 65-66): the poll thread, which
\* reads the flag at any moment, never ends while a fragment is stored.
THEOREM EmptyFlagHolds == ReassemblySpec => []EmptyFlagIsTrue
<1>1. ReassemblyInit => EmptyFlagIsTrue
  BY DEF ReassemblyInit, EmptyFlagIsTrue
<1>. QED BY <1>1, FlagNext, PTL DEF ReassemblySpec

----------------------------------------------------------------------------
(* Reassembly: packets                                                     *)

\* A packet holds different fragments of one message, and knows the length of
\* the message once its last fragment has come.
PacketInv(k, p) ==
  /\ p \in [frags : SUBSET Whole(k), rxSize : Nat, fullSize : {0, length[k]}, isFull : BOOLEAN]
  /\ p.rxSize = Cardinality(p.frags)
  /\ p.isFull => p.frags = Whole(k) /\ p.fullSize = length[k]
  /\ \A g \in p.frags : g.off = length[k] - 1 => p.fullSize = length[k]

\* A message has as many fragments as its length.
LEMMA WholeSize ==
  ASSUME NEW k \in Keys, length[k] \in Nat
  PROVE  IsFiniteSet(Whole(k)) /\ Cardinality(Whole(k)) = length[k]
<1>. DEFINE I == 0 .. length[k] - 1
            f == [i \in I |-> [key |-> k, msg |-> current[k], off |-> i]]
<1>1. IsFiniteSet(I) /\ Cardinality(I) = length[k]
  <2>1. PICK b \in Int : b = length[k] - 1
    OBVIOUS
  <2>2. IsFiniteSet(0 .. b) /\ Cardinality(0 .. b) = IF 0 > b THEN 0 ELSE b - 0 + 1
    BY FS_Interval
  <2>. QED BY <2>1, <2>2
<1>2. f \in Bijection(I, Whole(k))
  <2>1. f \in [I -> Whole(k)]
    BY DEF Whole
  <2>2. \A a, b \in I : f[a] = f[b] => a = b
    <3>. SUFFICES ASSUME NEW a \in I, NEW b \in I, f[a] = f[b] PROVE a = b
      OBVIOUS
    <3>1. f[a].off = a /\ f[b].off = b
      OBVIOUS
    <3>. QED BY <3>1
  <2>3. \A w \in Whole(k) : \E i \in I : f[i] = w
    BY DEF Whole
  <2>. HIDE DEF f
  <2>4. f \in Injection(I, Whole(k))
    BY <2>1, <2>2, Fun_IsInj
  <2>5. f \in Surjection(I, Whole(k))
    BY <2>1, <2>3, Fun_IsSurj
  <2>. QED BY <2>4, <2>5 DEF Bijection
<1>. QED BY <1>1, <1>2, FS_Bijection, Fun_ExistsBij

\* A new packet (lines 89-108).
LEMMA EmptyPacket ==
  ASSUME NEW k \in Keys
  PROVE  PacketInv(k, NoPacket)
  BY FS_EmptySet DEF PacketInv, NoPacket

\* The packet once a new fragment has been added to it (lines 110-206).
With(p, f) == [p EXCEPT !.frags = @ \cup {f}, !.rxSize = @ + 1,
                        !.fullSize = IF IsLast(f) THEN ToldSize(f) ELSE @]
Marked(p) == [p EXCEPT !.isFull = IsPacketFull(p)]

LEMMA FragmentAdded ==
  ASSUME NEW k \in Keys, length[k] \in Nat \ {0}, NEW p, PacketInv(k, p),
         NEW f \in Whole(k), \A g \in p.frags : g.off # f.off
  PROVE  /\ PacketInv(k, Marked(With(p, f)))
         /\ Marked(With(p, f)).isFull = IsPacketFull(With(p, f))
<1>. DEFINE q == With(p, f)
<1>1. f.key = k /\ f.off \in 0 .. length[k] - 1
  BY DEF Whole
<1>2. IsFiniteSet(p.frags) /\ p.frags \in SUBSET Whole(k) /\ f \notin p.frags
  BY WholeSize, FS_Subset DEF PacketInv
<1>3. /\ q.frags = p.frags \cup {f} /\ q.rxSize = p.rxSize + 1 /\ q.isFull = p.isFull
      /\ q.fullSize = IF IsLast(f) THEN ToldSize(f) ELSE p.fullSize
      /\ q \in [frags : SUBSET Whole(k), rxSize : Nat, fullSize : {0, length[k]}, isFull : BOOLEAN]
  <2>1. length[f.key] = length[k] /\ ToldSize(f) = f.off + 1
    BY <1>1 DEF ToldSize
  <2>2. IsLast(f) => ToldSize(f) = length[k]
    BY <1>1, <2>1 DEF IsLast
  <2>3. p.frags \cup {f} \in SUBSET Whole(k) /\ p.rxSize + 1 \in Nat
    BY <1>2 DEF PacketInv
  <2>. QED BY <2>2, <2>3 DEF With, PacketInv
<1>4. Cardinality(q.frags) = q.rxSize
  <2>1. Cardinality(p.frags \cup {f}) = Cardinality(p.frags) + 1
    BY <1>2, FS_AddElement
  <2>. QED BY <1>3, <2>1 DEF PacketInv
<1>5. ~p.isFull
  BY <1>2 DEF PacketInv
<1>6. ASSUME IsPacketFull(q)
      PROVE  q.frags = Whole(k) /\ q.fullSize = length[k]
  <2>1. q.fullSize = length[k] /\ Cardinality(q.frags) = Cardinality(Whole(k))
    BY <1>3, <1>4, <1>5, <1>6, WholeSize DEF IsPacketFull
  <2>. QED BY <1>3, <2>1, WholeSize, FS_Subset
<1>. HIDE DEF q
<1>7. IsPacketFull(q) \in BOOLEAN
  BY <1>3 DEF IsPacketFull
<1>8. /\ Marked(q).frags = q.frags /\ Marked(q).rxSize = q.rxSize
      /\ Marked(q).fullSize = q.fullSize /\ Marked(q).isFull = IsPacketFull(q)
      /\ Marked(q) \in [frags : SUBSET Whole(k), rxSize : Nat, fullSize : {0, length[k]},
                        isFull : BOOLEAN]
  BY <1>3, <1>7 DEF Marked
<1>9. ASSUME NEW g \in q.frags, g.off = length[k] - 1
      PROVE  q.fullSize = length[k]
  <2>1. CASE g = f
    BY <1>1, <1>3, <1>9, <2>1 DEF IsLast, ToldSize
  <2>2. CASE g \in p.frags
    <3>1. p.fullSize = length[k]
      BY <1>9, <2>2 DEF PacketInv
    <3>2. IsLast(f) => ToldSize(f) = length[k]
      BY <1>1 DEF IsLast, ToldSize
    <3>. QED BY <1>3, <3>1, <3>2
  <2>. QED BY <1>3, <1>9, <2>1, <2>2
<1>10. PacketInv(k, Marked(q))
  BY <1>4, <1>6, <1>8, <1>9 DEF PacketInv
<1>. QED BY <1>8, <1>10 DEF q

----------------------------------------------------------------------------
(* Reassembly: the store                                                   *)

\* Every packet of the store belongs to the message now sent under its key; so
\* does the fragment being handled, and a packet to deliver is complete.
StoreInv ==
  /\ length \in [Keys -> Lengths] /\ current \in [Keys -> 1 .. MaxSent]
  /\ handed = [k \in Keys |-> handed[k]]
  /\ DOMAIN packets \subseteq Keys
  /\ \A k \in DOMAIN packets : PacketInv(k, packets[k])
  /\ step # "idle" => fragment.key \in Keys /\ fragment \in Whole(fragment.key)
  /\ step = "deliver" => fragment.key \in DOMAIN packets /\ packets[fragment.key].isFull

MessageInv == StoreInv /\ WholeMessages

LEMMA LengthType ==
  ASSUME StoreInv, NEW k \in Keys
  PROVE  length[k] \in Nat \ {0}
  BY LengthsAssumption DEF StoreInv

\* A message is the same while its key is not used for another one.
LEMMA SameMessage ==
  ASSUME NEW k, current'[k] = current[k], length'[k] = length[k]
  PROVE  /\ Whole(k)' = Whole(k)
         /\ Fits(k)' = Fits(k)
  BY DEF Whole, Fits

LEMMA SamePacket ==
  ASSUME NEW k, current'[k] = current[k], length'[k] = length[k],
         packets'[k] = packets[k], PacketInv(k, packets[k])
  PROVE  PacketInv(k, packets[k])'
  BY SameMessage DEF PacketInv

\* A step that keeps the messages keeps the invariant of the packets it does
\* not touch; packets may also be dropped.
LEMMA PacketsKept ==
  ASSUME StoreInv, UNCHANGED network, DOMAIN packets' \subseteq DOMAIN packets,
         \A k \in DOMAIN packets' : packets'[k] = packets[k]
  PROVE  \A k \in DOMAIN packets' : PacketInv(k, packets[k])'
  BY SamePacket DEF StoreInv, network

\* The same when one packet is put into the store.
LEMMA PacketPut ==
  ASSUME StoreInv, UNCHANGED network, NEW k \in Keys, NEW p, PacketInv(k, p),
         packets' = Put(k, p)
  PROVE  /\ DOMAIN packets' = DOMAIN packets \cup {k} /\ packets'[k] = p
         /\ \A j \in DOMAIN packets' : PacketInv(j, packets[j])'
<1>1. /\ DOMAIN packets' = DOMAIN packets \cup {k}
      /\ \A j \in DOMAIN packets' : packets'[j] = IF j = k THEN p ELSE packets[j]
  BY DEF Put
<1>2. PacketInv(k, packets[k])'
  BY <1>1, SameMessage DEF PacketInv, network
<1>3. \A j \in DOMAIN packets' : j # k => PacketInv(j, packets[j])'
  BY <1>1, SamePacket DEF StoreInv, network
<1>. QED BY <1>1, <1>2, <1>3

\* What is handed over on delivery is the whole message.
LEMMA DeliverWhole ==
  ASSUME MessageInv, Deliver
  PROVE  /\ buffer' = Whole(fragment.key)
         /\ DOMAIN packets' \subseteq DOMAIN packets
         /\ \A k \in DOMAIN packets' : packets'[k] = packets[k]
  BY DEF MessageInv, StoreInv, PacketInv, Deliver, Without

\* A message that is too long is not one that fits.
LEMMA TooLong ==
  ASSUME MessageInv, DeliverTooLong
  PROVE  ~Fits(fragment.key)
  BY LengthType, BufferAssumption DEF MessageInv, StoreInv, PacketInv, DeliverTooLong, Fits

----------------------------------------------------------------------------
(* Reassembly: each step                                                   *)

\* The store starts empty.
LEMMA MessageInvInit == ReassemblyInit => MessageInv
<1>. SUFFICES ASSUME ReassemblyInit PROVE MessageInv
  OBVIOUS
<1>1. handed = [k \in Keys |-> handed[k]] /\ \A k \in Keys : handed[k] = {}
  BY DEF ReassemblyInit
<1>2. DOMAIN packets = {}
  BY DEF ReassemblyInit
<1>3. current \in [Keys -> 1 .. MaxSent]
  BY MaxSentAssumption DEF ReassemblyInit
<1>. QED BY <1>1, <1>2, <1>3 DEF ReassemblyInit, MessageInv, StoreInv, WholeMessages

\* A step that keeps messages, packets and what was handed over.
LEMMA InvUntouched ==
  ASSUME MessageInv, UNCHANGED <<network, packets, handed>>,
         \/ UNCHANGED handler
         \/ step' \in {"idle", "collect"} /\ fragment' \in {fragment, NoFragment} /\ step # "idle"
            /\ (step' # "idle" => fragment' = fragment)
  PROVE  MessageInv'
<1>1. \A k \in Keys : Whole(k)' = Whole(k) /\ Fits(k)' = Fits(k)
  BY SameMessage DEF network
<1>2. \A k \in DOMAIN packets' : PacketInv(k, packets[k])'
  BY PacketsKept DEF MessageInv
<1>3. WholeMessages'
  BY <1>1 DEF MessageInv, WholeMessages
<1>4. (step # "idle" => fragment.key \in Keys /\ fragment \in Whole(fragment.key))'
  BY <1>1 DEF MessageInv, StoreInv, handler
<1>. QED BY <1>2, <1>3, <1>4 DEF MessageInv, StoreInv, network, handler

\* A key is used again once nothing of its last message is left.
LEMMA InvNextMessage ==
  ASSUME Collecting, MessageInv, NEW k \in Keys, NextMessage(k)
  PROVE  MessageInv'
<1>1. /\ length' \in [Keys -> Lengths] /\ current' \in [Keys -> 1 .. MaxSent]
      /\ handed' = [handed EXCEPT ![k] = {}]
      /\ UNCHANGED <<packets, step, fragment>> /\ step = "idle" /\ k \notin DOMAIN packets
      /\ \A j \in Keys \ {k} : current'[j] = current[j] /\ length'[j] = length[j]
  <2>1. /\ UNCHANGED <<packets, step, fragment>> /\ step = "idle" /\ k \notin DOMAIN packets
        /\ handed' = [handed EXCEPT ![k] = {}]
    BY DEF NextMessage, store, handler
  <2>2. current[k] \in 1 .. MaxSent /\ current[k] < MaxSent
    BY DEF MessageInv, StoreInv, NextMessage
  <2>3. current' \in [Keys -> 1 .. MaxSent] /\ \A j \in Keys \ {k} : current'[j] = current[j]
    <3>1. current[k] + 1 \in 1 .. MaxSent
      BY <2>2, MaxSentAssumption
    <3>2. current' = [current EXCEPT ![k] = current[k] + 1]
      BY DEF NextMessage
    <3>. QED BY <3>1, <3>2 DEF MessageInv, StoreInv
  <2>4. length' \in [Keys -> Lengths] /\ \A j \in Keys \ {k} : length'[j] = length[j]
    <3>1. PICK l \in Lengths : length' = [length EXCEPT ![k] = l]
      BY DEF NextMessage
    <3>. QED BY <3>1 DEF MessageInv, StoreInv
  <2>. QED BY <2>1, <2>3, <2>4
<1>2. \A j \in DOMAIN packets' : PacketInv(j, packets[j])'
  BY <1>1, SamePacket DEF MessageInv, StoreInv
<1>3. \A j \in Keys \ {k} : Whole(j)' = Whole(j) /\ Fits(j)' = Fits(j)
  BY <1>1, SameMessage
<1>4. /\ handed' = [j \in Keys |-> handed'[j]]
      /\ handed'[k] = {} /\ \A j \in Keys \ {k} : handed'[j] = handed[j]
  BY <1>1 DEF MessageInv, StoreInv
<1>5. WholeMessages'
  BY <1>3, <1>4 DEF MessageInv, WholeMessages
<1>. QED BY <1>1, <1>2, <1>4, <1>5 DEF MessageInv, StoreInv

\* The fragment received is one of the message now sent.
LEMMA InvReceive ==
  ASSUME MessageInv, NEW k \in Keys, NEW f \in Whole(k), Receive(f)
  PROVE  MessageInv'
<1>1. \A j \in Keys : Whole(j)' = Whole(j) /\ Fits(j)' = Fits(j)
  BY SameMessage DEF Receive, network
<1>2. \A j \in DOMAIN packets' : PacketInv(j, packets[j])'
  BY PacketsKept DEF MessageInv, Receive
<1>3. WholeMessages'
  BY <1>1 DEF MessageInv, WholeMessages, Receive
<1>4. f.key = k
  BY DEF Whole
<1>. QED BY <1>1, <1>2, <1>3, <1>4 DEF MessageInv, StoreInv, Receive, network

\* A new packet, or the fragment, finds no memory.
LEMMA InvAllocationFails ==
  ASSUME MessageInv, AllocationFails
  PROVE  MessageInv'
<1>1. CASE UNCHANGED packets
  BY <1>1, InvUntouched DEF AllocationFails
<1>2. CASE packets' = Put(fragment.key, NoPacket)
  <2>1. fragment.key \in Keys
    BY DEF MessageInv, StoreInv, AllocationFails
  <2>2. /\ DOMAIN packets' = DOMAIN packets \cup {fragment.key}
        /\ \A j \in DOMAIN packets' : PacketInv(j, packets[j])'
    BY <1>2, <2>1, EmptyPacket, PacketPut DEF MessageInv, AllocationFails
  <2>3. \A j \in Keys : Whole(j)' = Whole(j) /\ Fits(j)' = Fits(j)
    BY SameMessage DEF AllocationFails, network
  <2>4. WholeMessages'
    BY <2>3 DEF MessageInv, WholeMessages, AllocationFails
  <2>. QED BY <2>1, <2>2, <2>3, <2>4 DEF MessageInv, StoreInv, AllocationFails, network
<1>. QED BY <1>1, <1>2 DEF AllocationFails

\* A new fragment is added to its packet.
LEMMA InvStoreFragment ==
  ASSUME MessageInv, StoreFragment
  PROVE  MessageInv'
<1>. DEFINE k == fragment.key
            p == Marked(With(Found(k), fragment))
<1>1. k \in Keys /\ fragment \in Whole(k) /\ PacketInv(k, Found(k))
  BY EmptyPacket DEF MessageInv, StoreInv, StoreFragment, Found
<1>2. \A g \in Found(k).frags : g.off # fragment.off
  BY DEF StoreFragment, Duplicate
<1>3. PacketInv(k, p) /\ p.isFull = IsPacketFull(With(Found(k), fragment))
  BY <1>1, <1>2, FragmentAdded, LengthType DEF MessageInv
<1>4. /\ packets' = Put(k, p) /\ UNCHANGED <<network, fragment, handed>>
      /\ step' = IF p.isFull THEN "deliver" ELSE "collect"
  BY <1>3 DEF StoreFragment, With, Marked
<1>. HIDE DEF p
<1>5. /\ DOMAIN packets' = DOMAIN packets \cup {k} /\ packets'[k] = p
      /\ \A j \in DOMAIN packets' : PacketInv(j, packets[j])'
  BY <1>1, <1>3, <1>4, PacketPut DEF MessageInv
<1>6. \A j \in Keys : Whole(j)' = Whole(j) /\ Fits(j)' = Fits(j)
  BY <1>4, SameMessage DEF network
<1>7. WholeMessages'
  BY <1>4, <1>6 DEF MessageInv, WholeMessages
<1>. QED BY <1>1, <1>4, <1>5, <1>6, <1>7 DEF MessageInv, StoreInv, network

\* A complete message is handed over, or there is nobody to take it.
LEMMA InvDeliver ==
  ASSUME MessageInv, Deliver \/ DeliverTooLong
  PROVE  MessageInv'
<1>. DEFINE k == fragment.key
<1>1. /\ UNCHANGED network /\ step' \in {"idle", "collect"}
      /\ step' # "idle" => fragment' = fragment
      /\ k \in Keys /\ fragment \in Whole(k)
  BY DEF Deliver, DeliverTooLong, HandsOver, MessageInv, StoreInv
<1>2. /\ DOMAIN packets' \subseteq DOMAIN packets
      /\ \A j \in DOMAIN packets' : packets'[j] = packets[j]
  BY DeliverWhole DEF DeliverTooLong, store
<1>3. \A j \in Keys : Whole(j)' = Whole(j) /\ Fits(j)' = Fits(j)
  BY <1>1, SameMessage DEF network
<1>4. /\ handed' = [j \in Keys |-> handed'[j]]
      /\ \A j \in Keys \ {k} : handed'[j] = handed[j]
      /\ Fits(k) => handed'[k] \subseteq handed[k] \cup {Whole(k)}
  <2>1. CASE UNCHANGED handed
    BY <2>1 DEF MessageInv, StoreInv
  <2>2. CASE Deliver /\ handed' = [handed EXCEPT ![k] = @ \cup {Whole(k)}]
    BY <2>2, <1>1 DEF MessageInv, StoreInv
  <2>3. CASE DeliverTooLong /\ handed' = [handed EXCEPT ![k] = @ \cup {buffer}]
    BY <2>3, <1>1, TooLong DEF MessageInv, StoreInv
  <2>. QED BY <2>1, <2>2, <2>3, DeliverWhole DEF Deliver, DeliverTooLong, HandsOver
<1>5. WholeMessages'
  BY <1>3, <1>4 DEF MessageInv, WholeMessages
<1>6. \A j \in DOMAIN packets' : PacketInv(j, packets[j])'
  BY <1>1, <1>2, PacketsKept DEF MessageInv
<1>. QED BY <1>1, <1>2, <1>3, <1>4, <1>5, <1>6 DEF MessageInv, StoreInv, network

\* Collecting drops packets and nothing else.
LEMMA InvCollect ==
  ASSUME MessageInv, Collect \/ IdleCollect
  PROVE  MessageInv'
<1>1. /\ UNCHANGED <<network, handed>>
      /\ UNCHANGED handler \/ step' = "idle"
  BY DEF Collect, IdleCollect
<1>2. /\ DOMAIN packets' \subseteq DOMAIN packets
      /\ \A j \in DOMAIN packets' : packets'[j] = packets[j]
  BY DEF Collect, IdleCollect, GarbageCollect, Without, store
<1>3. \A j \in Keys : Whole(j)' = Whole(j) /\ Fits(j)' = Fits(j)
  BY <1>1, SameMessage DEF network
<1>4. \A j \in DOMAIN packets' : PacketInv(j, packets[j])'
  BY <1>1, <1>2, PacketsKept DEF MessageInv
<1>5. WholeMessages'
  BY <1>1, <1>3 DEF MessageInv, WholeMessages
<1>6. step' = "idle"
  BY DEF Collect, IdleCollect, handler
<1>. QED BY <1>1, <1>2, <1>4, <1>5, <1>6 DEF MessageInv, StoreInv, network

\* Inv is inductive when packets are collected.
LEMMA MessageInvNext == Collecting /\ MessageInv /\ [ReassemblyNext]_reassemblyVars => MessageInv'
<1>. SUFFICES ASSUME Collecting, MessageInv, [ReassemblyNext]_reassemblyVars PROVE MessageInv'
  OBVIOUS
<1>1. CASE UNCHANGED reassemblyVars
  BY <1>1, InvUntouched DEF reassemblyVars, store
<1>2. CASE \E k \in Keys : NextMessage(k)
  BY <1>2, InvNextMessage
<1>3. CASE \E k \in Keys : GrowsOld(k)
  BY <1>3, InvUntouched DEF GrowsOld
<1>4. CASE \E k \in Keys : \E f \in Whole(k) : Receive(f)
  BY <1>4, InvReceive
<1>5. CASE DuplicateIgnored
  BY <1>5, InvUntouched DEF DuplicateIgnored, store
<1>. QED BY <1>1, <1>2, <1>3, <1>4, <1>5, InvAllocationFails, InvStoreFragment, InvDeliver,
     InvCollect DEF ReassemblyNext, Handle

\* What the data callback is given is one whole message, whatever the order and
\* the repetition of its fragments (lines 110-244), for messages that fit the
\* buffer and packets that are collected before their key is used again.
THEOREM WholeMessagesHold == Collecting => (ReassemblySpec => []WholeMessages)
<1>. SUFFICES ASSUME Collecting PROVE ReassemblySpec => []WholeMessages
  OBVIOUS
<1>1. MessageInv /\ [ReassemblyNext]_reassemblyVars => MessageInv'
  BY MessageInvNext
<1>2. MessageInv => WholeMessages
  BY DEF MessageInv
<1>. QED BY MessageInvInit, <1>1, <1>2, PTL DEF ReassemblySpec

----------------------------------------------------------------------------
(* Reassembly: nothing withheld                                            *)

\* What came of a message that nothing disturbed is in its packet, but for the
\* fragment being handled; and the packet is delivered as soon as it is whole.
Undisturbed(k) == Fits(k) /\ k \notin disturbed /\ handed[k] = {}

HeldAt(k) ==
  Undisturbed(k) =>
    /\ \A f \in Whole(k) \cap arrived :
         f \in Found(k).frags \/ (step = "store" /\ f = fragment)
    /\ Found(k).frags = Whole(k) => step = "deliver" /\ fragment.key = k

WithheldInv == \A k \in Keys : HeldAt(k)

LEMMA KeyOfFragment ==
  ASSUME NEW k, NEW f \in Whole(k)
  PROVE  f.key = k
  BY DEF Whole

\* Two fragments of a message with one offset are the same.
LEMMA SameOffset ==
  ASSUME NEW k, NEW f \in Whole(k), NEW g \in Whole(k), f.off = g.off
  PROVE  f = g
<1>1. PICK i : f = [key |-> k, msg |-> current[k], off |-> i]
  BY DEF Whole
<1>2. PICK j : g = [key |-> k, msg |-> current[k], off |-> j]
  BY DEF Whole
<1>3. i = j
  BY <1>1, <1>2
<1>. QED BY <1>1, <1>2, <1>3

\* A message that has its fragments has its last one.
LEMMA WholeHasLast ==
  ASSUME NEW k \in Keys, length[k] \in Nat \ {0}
  PROVE  /\ Whole(k) # {}
         /\ \E g \in Whole(k) : g.off = length[k] - 1
<1>. DEFINE g == [key |-> k, msg |-> current[k], off |-> length[k] - 1]
<1>1. length[k] - 1 \in 0 .. length[k] - 1
  OBVIOUS
<1>2. g \in Whole(k) /\ g.off = length[k] - 1
  BY <1>1 DEF Whole
<1>. QED BY <1>2

LEMMA FoundPacket ==
  ASSUME StoreInv, NEW k \in Keys
  PROVE  PacketInv(k, Found(k)) /\ Found(k).frags \in SUBSET Whole(k)
<1>1. PacketInv(k, Found(k))
  BY EmptyPacket DEF StoreInv, Found
<1>. QED BY <1>1 DEF PacketInv

\* A step that leaves what a key has, or disturbs it.
LEMMA HeldKept ==
  ASSUME NEW k \in Keys, HeldAt(k), UNCHANGED network, UNCHANGED arrived,
         Undisturbed(k)' => Undisturbed(k) /\ Found(k)' = Found(k),
         step = "store" /\ fragment \in Whole(k) => fragment \in Found(k).frags,
         Undisturbed(k)' /\ step = "deliver" => fragment.key # k
  PROVE  HeldAt(k)'
<1>1. Whole(k)' = Whole(k)
  BY SameMessage DEF network
<1>. SUFFICES ASSUME Undisturbed(k)'
              PROVE  /\ \A f \in Whole(k)' \cap arrived' : f \in (Found(k).frags)'
                     /\ (Found(k).frags)' # Whole(k)'
  BY DEF HeldAt
<1>2. Undisturbed(k) /\ (Found(k).frags)' = Found(k).frags
  OBVIOUS
<1>3. \A f \in Whole(k) \cap arrived : f \in Found(k).frags
  BY <1>2 DEF HeldAt
<1>4. Found(k).frags # Whole(k)
  BY <1>2 DEF HeldAt
<1>. QED BY <1>1, <1>2, <1>3, <1>4

LEMMA HeldNextMessage ==
  ASSUME Collecting, MessageInv, NEW j \in Keys, NextMessage(j), NEW k \in Keys, HeldAt(k)
  PROVE  HeldAt(k)'
<1>1. /\ step = "idle" /\ j \notin DOMAIN packets /\ UNCHANGED <<packets, step, fragment>>
      /\ arrived' = {f \in arrived : f.key # j} /\ disturbed' = disturbed \ {j}
      /\ handed' = [handed EXCEPT ![j] = {}]
      /\ k # j => current'[k] = current[k] /\ length'[k] = length[k]
  BY DEF NextMessage, store, handler, MessageInv, StoreInv
<1>2. CASE k = j
  <2>1. \A f \in Whole(k)' : f.key = k
    BY DEF Whole
  <2>2. Found(k)' = NoPacket /\ NoPacket.frags = {}
    BY <1>1, <1>2 DEF Found, NoPacket
  <2>3. length'[k] \in Nat \ {0}
    BY <1>2, InvNextMessage, LengthsAssumption DEF MessageInv, StoreInv
  <2>4. Whole(k)' # {}
    <3>1. 0 \in 0 .. length'[k] - 1
      BY <2>3
    <3>2. [key |-> k, msg |-> current'[k], off |-> 0] \in Whole(k)'
      BY <3>1, Zenon DEF Whole
    <3>. QED BY <3>2
  <2>. QED BY <1>1, <1>2, <2>1, <2>2, <2>4 DEF HeldAt
<1>3. CASE k # j
  <2>1. Whole(k)' = Whole(k) /\ Fits(k)' = Fits(k) /\ Found(k)' = Found(k)
    BY <1>1, <1>3, SameMessage DEF Found
  <2>2. handed'[k] = handed[k]
    BY <1>1, <1>3 DEF MessageInv, StoreInv
  <2>3. Undisturbed(k)' = Undisturbed(k)
    BY <1>1, <1>3, <2>1, <2>2 DEF Undisturbed
  <2>. QED BY <1>1, <2>1, <2>3 DEF HeldAt
<1>. QED BY <1>2, <1>3

LEMMA HeldReceive ==
  ASSUME NEW j \in Keys, NEW g \in Whole(j), Receive(g), NEW k \in Keys, HeldAt(k)
  PROVE  HeldAt(k)'
<1>1. /\ step = "idle" /\ step' = "store" /\ fragment' = g /\ arrived' = arrived \cup {g}
      /\ UNCHANGED <<network, packets, handed, disturbed>>
  BY DEF Receive
<1>2. Whole(k)' = Whole(k) /\ Fits(k)' = Fits(k) /\ Found(k)' = Found(k)
  BY <1>1, SameMessage DEF network, Found
<1>3. Undisturbed(k)' = Undisturbed(k)
  BY <1>1, <1>2 DEF Undisturbed
<1>. QED BY <1>1, <1>2, <1>3 DEF HeldAt

LEMMA HeldAllocationFails ==
  ASSUME MessageInv, AllocationFails, NEW k \in Keys, HeldAt(k)
  PROVE  HeldAt(k)'
<1>1. /\ step = "store" /\ disturbed' = disturbed \cup {fragment.key}
      /\ UNCHANGED <<network, arrived, handed>>
      /\ k # fragment.key => Found(k)' = Found(k)
  BY DEF AllocationFails, Found, Put
<1>2. Fits(k)' = Fits(k)
  BY <1>1, SameMessage DEF network
<1>3. Undisturbed(k)' => k # fragment.key /\ Undisturbed(k)
  BY <1>1, <1>2 DEF Undisturbed
<1>4. CASE k = fragment.key
  BY <1>3, <1>4 DEF HeldAt
<1>5. CASE k # fragment.key
  BY <1>1, <1>3, <1>5, KeyOfFragment, HeldKept
<1>. QED BY <1>4, <1>5

LEMMA HeldStoreFragment ==
  ASSUME MessageInv, StoreFragment, NEW k \in Keys, HeldAt(k)
  PROVE  HeldAt(k)'
<1>. DEFINE p == Marked(With(Found(k), fragment))
<1>1. /\ step = "store" /\ UNCHANGED <<network, fragment, arrived, handed, disturbed>>
      /\ k # fragment.key => Found(k)' = Found(k)
      /\ k = fragment.key =>
           /\ \A g \in Found(k).frags : g.off # fragment.off
           /\ packets' = Put(k, p)
           /\ step' = IF IsPacketFull(With(Found(k), fragment)) THEN "deliver" ELSE "collect"
  BY DEF StoreFragment, Duplicate, Found, Put, Marked, With
<1>2. Whole(k)' = Whole(k) /\ Fits(k)' = Fits(k)
  BY <1>1, SameMessage DEF network
<1>3. Undisturbed(k)' = Undisturbed(k)
  BY <1>1, <1>2 DEF Undisturbed
<1>4. CASE k # fragment.key
  BY <1>1, <1>3, <1>4, KeyOfFragment, HeldKept
<1>5. CASE k = fragment.key
  <2>1. fragment \in Whole(k) /\ PacketInv(k, Found(k)) /\ length[k] \in Nat \ {0}
    BY <1>1, <1>5, FoundPacket, LengthType DEF MessageInv, StoreInv
  <2>2. /\ PacketInv(k, p) /\ p.isFull = IsPacketFull(With(Found(k), fragment))
    BY <1>1, <1>5, <2>1, FragmentAdded
  <2>3. p.frags = Found(k).frags \cup {fragment}
    BY <2>1 DEF Marked, With, PacketInv
  <2>4. Found(k)' = p
    BY <1>1, <1>5 DEF Found, Put
  <2>5. ASSUME p.frags = Whole(k)
        PROVE  step' = "deliver"
    <3>1. p.fullSize = length[k] /\ p.rxSize = length[k]
      BY <2>1, <2>2, <2>5, WholeHasLast, WholeSize DEF PacketInv
    <3>2. IsPacketFull(With(Found(k), fragment))
      BY <2>1, <3>1 DEF Marked, With, IsPacketFull, PacketInv
    <3>. QED BY <1>1, <1>5, <3>2
  <2>. HIDE DEF p
  <2>6. \A f \in Whole(k) \cap arrived : Undisturbed(k) => f \in p.frags
    BY <2>3 DEF HeldAt
  <2>. QED BY <1>1, <1>2, <1>3, <1>5, <2>4, <2>5, <2>6 DEF HeldAt
<1>. QED BY <1>4, <1>5

LEMMA HeldDuplicate ==
  ASSUME MessageInv, DuplicateIgnored, NEW k \in Keys, HeldAt(k)
  PROVE  HeldAt(k)'
<1>1. /\ step = "store" /\ UNCHANGED <<network, packets, arrived, handed, disturbed>>
      /\ \E g \in Found(fragment.key).frags : g.off = fragment.off
  BY DEF DuplicateIgnored, Duplicate, store
<1>2. Undisturbed(k)' = Undisturbed(k) /\ Found(k)' = Found(k)
  BY <1>1, SameMessage DEF network, Undisturbed, Found
<1>3. ASSUME fragment \in Whole(k)
      PROVE  fragment \in Found(k).frags
  <2>1. fragment.key = k /\ Found(k).frags \in SUBSET Whole(k)
    BY <1>3, KeyOfFragment, FoundPacket DEF MessageInv
  <2>2. PICK g \in Found(k).frags : g.off = fragment.off
    BY <1>1, <2>1
  <2>. QED BY <1>3, <2>1, <2>2, SameOffset
<1>. QED BY <1>1, <1>2, <1>3, HeldKept

LEMMA HeldDeliver ==
  ASSUME MessageInv, Deliver \/ DeliverTooLong, NEW k \in Keys, HeldAt(k)
  PROVE  HeldAt(k)'
<1>1. /\ step = "deliver" /\ UNCHANGED <<network, arrived>>
      /\ k # fragment.key => Found(k)' = Found(k)
      /\ \/ \E content : handed' = [handed EXCEPT ![fragment.key] = @ \cup {content}]
                         /\ UNCHANGED disturbed
         \/ disturbed' = disturbed \cup {fragment.key} /\ UNCHANGED handed
  BY DEF Deliver, DeliverTooLong, HandsOver, Found, Without, store
<1>2. Fits(k)' = Fits(k)
  BY <1>1, SameMessage DEF network
<1>3. Undisturbed(k)' => k # fragment.key /\ Undisturbed(k)
  BY <1>1, <1>2 DEF Undisturbed, MessageInv, StoreInv
<1>. QED BY <1>1, <1>3, HeldKept

LEMMA HeldCollect ==
  ASSUME MessageInv, Collect \/ IdleCollect, NEW k \in Keys, HeldAt(k)
  PROVE  HeldAt(k)'
<1>1. /\ step \in {"idle", "collect"} /\ UNCHANGED <<network, arrived, handed>>
      /\ \/ UNCHANGED <<packets, disturbed>>
         \/ packets' = Without(old) /\ disturbed' = disturbed \cup old
  BY DEF Collect, IdleCollect, GarbageCollect, store
<1>2. Fits(k)' = Fits(k)
  BY <1>1, SameMessage DEF network
<1>3. k \notin disturbed' => k \notin disturbed /\ Found(k)' = Found(k)
  BY <1>1 DEF Found, Without
<1>4. Undisturbed(k)' => Undisturbed(k) /\ Found(k)' = Found(k)
  BY <1>1, <1>2, <1>3 DEF Undisturbed
<1>. QED BY <1>1, <1>4, HeldKept

LEMMA HeldNext ==
  ASSUME Collecting, MessageInv, WithheldInv, [ReassemblyNext]_reassemblyVars
  PROVE  WithheldInv'
<1>. SUFFICES ASSUME NEW k \in Keys, HeldAt(k) PROVE HeldAt(k)'
  BY DEF WithheldInv
<1>1. CASE UNCHANGED <<network, packets, handler, handed, arrived, disturbed>>
  <2>1. Whole(k)' = Whole(k) /\ Undisturbed(k)' = Undisturbed(k) /\ Found(k)' = Found(k)
    BY <1>1, SameMessage DEF network, Undisturbed, Found
  <2>. QED BY <1>1, <2>1 DEF HeldAt, handler
<1>2. CASE UNCHANGED reassemblyVars
  BY <1>1, <1>2 DEF reassemblyVars, store
<1>3. CASE \E j \in Keys : GrowsOld(j)
  BY <1>1, <1>3 DEF GrowsOld
<1>4. CASE \E j \in Keys : NextMessage(j)
  BY <1>4, HeldNextMessage
<1>5. CASE \E j \in Keys : \E f \in Whole(j) : Receive(f)
  BY <1>5, HeldReceive
<1>. QED BY <1>2, <1>3, <1>4, <1>5, HeldAllocationFails, HeldStoreFragment, HeldDuplicate,
     HeldDeliver, HeldCollect DEF ReassemblyNext, Handle

\* A message all of whose fragments came is handed over, unless the host ran out
\* of memory, collected it, or had no callback (lines 167-206); for packets that
\* are collected before their key is used again.
THEOREM NothingWithheldHolds == Collecting => (ReassemblySpec => []NothingWithheld)
<1>. SUFFICES ASSUME Collecting PROVE ReassemblySpec => []NothingWithheld
  OBVIOUS
<1>1. ReassemblyInit => WithheldInv
  <2>. SUFFICES ASSUME ReassemblyInit, NEW k \in Keys PROVE HeldAt(k)
    BY DEF WithheldInv
  <2>1. Found(k) = NoPacket /\ NoPacket.frags = {} /\ arrived = {}
    BY DEF ReassemblyInit, Found, NoPacket
  <2>2. Whole(k) # {}
    BY MessageInvInit, LengthType, WholeHasLast DEF MessageInv
  <2>. QED BY <2>1, <2>2 DEF HeldAt
<1>2. MessageInv /\ WithheldInv /\ [ReassemblyNext]_reassemblyVars => (MessageInv /\ WithheldInv)'
  BY MessageInvNext, HeldNext
<1>3. MessageInv /\ WithheldInv => NothingWithheld
  <2>. SUFFICES ASSUME MessageInv, WithheldInv, step = "idle", NEW k \in Keys,
                       Whole(k) \subseteq arrived, Undisturbed(k)
                PROVE  FALSE
    BY DEF NothingWithheld, Undisturbed
  <2>1. Found(k).frags \in SUBSET Whole(k) /\ HeldAt(k)
    BY FoundPacket DEF MessageInv, WithheldInv
  <2>. QED BY <2>1 DEF HeldAt
<1>. QED BY MessageInvInit, <1>1, <1>2, <1>3, PTL DEF ReassemblySpec
=============================================================================

-------------------------- MODULE IndicationQueue --------------------------
(***************************************************************************)
(* The ring between the poll thread and the dispatch thread of             *)
(* lib/platform/linux/platform.c: m_indications_queue with m_ind_queue_    *)
(* write (wr), m_ind_queue_read (rd) and m_queue_empty (empty).            *)
(*                                                                         *)
(* The poll thread measures the free room with unlocked reads and asks the *)
(* node for at most that many indications; every indication is inserted    *)
(* under m_queue_mutex.  The dispatch thread handles the oldest slot with  *)
(* the mutex released and frees it afterwards.  Each unlocked read of the  *)
(* poll thread is a step.  m_ind_queue_read is a plain variable read up to *)
(* three times: the build may load it again each time (reload = TRUE, what *)
(* the default build without optimisation does) or keep the first value in *)
(* a register (reload = FALSE).  Stopping is the subject of PlatformThreads*)
(***************************************************************************)
EXTENDS Integers, Sequences

CONSTANTS MaxInd,    \* MAX_NUMBER_INDICATION
          Ind,       \* the indications
          NoInd,     \* not an indication
          UIntSpan   \* 2^width of unsigned int

N == 2 * MaxInd      \* MAX_NUMBER_INDICATION_QUEUE

ASSUME MaxIndAssumption == MaxInd \in Nat \ {0}
ASSUME NoIndAssumption == NoInd \notin Ind
ASSUME SpanAssumption == UIntSpan \in Nat /\ UIntSpan > 2 * N

VARIABLES
  slots, wr, rd, empty,  \* the ring, shared by the two threads
  ppc,                   \* poll thread: the next step of its loop
  seen,                  \* poll thread: value of rd loaded at the full test
  budget,                \* poll thread: indications it may still be given
  dpc,                   \* dispatch thread
  overrun,               \* the "Must never happen!" branch was taken
  reload                 \* the build loads m_ind_queue_read at each use

ring == <<slots, wr, rd, empty>>
poll == <<ppc, seen, budget>>
vars == <<ring, poll, dpc, overrun, reload>>

Index == 0 .. N - 1

TypeOK ==
  /\ slots \in [Index -> Ind \cup {NoInd}]
  /\ wr \in Index /\ rd \in Index /\ seen \in Index
  /\ empty \in BOOLEAN
  /\ ppc \in {"sleep", "full?", "empty?", "compare", "above", "below", "get"}
  /\ budget \in 0 .. MaxInd
  /\ dpc \in {"top", "wait", "callback", "advanced"}
  /\ overrun \in BOOLEAN /\ reload \in BOOLEAN

Init ==
  /\ slots = [i \in Index |-> NoInd]
  /\ wr = 0 /\ rd = 0 /\ empty = TRUE
  /\ ppc = "sleep" /\ seen = 0 /\ budget = 0
  /\ dpc = "top"
  /\ overrun = FALSE
  /\ reload \in BOOLEAN

Succ(i) == (i + 1) % N

\* m_queue_mutex is held by the dispatch thread at its loop top and between
\* its two stores; the poll thread's critical section is a single step.
QueueFree == dpc \in {"wait", "callback"}

LoadRead == IF reload THEN rd ELSE seen

----------------------------------------------------------------------------
(* Poll thread, lines 194-280.                                             *)

\* First operand of line 221: `!m_queue_empty`.  When it is empty, line 230
\* sees the same, since only the poll thread makes the queue not empty.
ReadEmpty ==
  /\ ppc = "sleep"
  /\ \/ ~empty /\ ppc' = "full?" /\ UNCHANGED budget
     \/ empty /\ ppc' = "get" /\ budget' = MaxInd
  /\ UNCHANGED <<ring, seen, dpc, overrun, reload>>

\* Second operand of line 221; a full queue is not polled for (225-228).
ReadFull ==
  /\ ppc = "full?"
  /\ seen' = rd
  /\ ppc' = IF wr = rd THEN "sleep" ELSE "empty?"
  /\ UNCHANGED <<ring, budget, dpc, overrun, reload>>

\* Line 230 loads m_queue_empty a second time; in a register it is still FALSE.
ReadEmptyAgain ==
  /\ ppc = "empty?"
  /\ \/ reload /\ empty /\ ppc' = "get" /\ budget' = MaxInd
     \/ ~(reload /\ empty) /\ ppc' = "compare" /\ UNCHANGED budget
  /\ UNCHANGED <<ring, seen, dpc, overrun, reload>>

\* Line 238: on which side of the write index is the read index?
Compare ==
  /\ ppc = "compare"
  /\ ppc' = IF wr > LoadRead THEN "above" ELSE "below"
  /\ UNCHANGED <<ring, seen, budget, dpc, overrun, reload>>

Smaller(a, b) == IF a < b THEN a ELSE b

RoomAboveIgnoresUse(r) == N
RoomAbove(r) == N - (wr - r)                    \* line 240
RoomBelow(r) == (r - wr) % UIntSpan             \* line 245, unsigned

\* The room, and the budget of line 259.
Measure ==
  /\ ppc \in {"above", "below"}
  /\ ppc' = "get"
  /\ budget' = Smaller(MaxInd, IF ppc = "above" THEN RoomAbove(LoadRead)
                                                ELSE RoomBelow(LoadRead))
  /\ UNCHANGED <<ring, seen, dpc, overrun, reload>>

InsertUnchecked(x) ==
  /\ ppc = "get" /\ budget > 0 /\ QueueFree
  /\ budget' = budget - 1
  /\ slots' = [slots EXCEPT ![wr] = x]
  /\ wr' = Succ(wr)
  /\ empty' = FALSE
  /\ UNCHANGED <<rd, ppc, seen, dpc, overrun, reload>>

\* onIndicationReceivedLocked, called by m_get_indication_f for each
\* indication of the node; waking the dispatch thread is DispatchWake.
OnIndicationReceivedLocked(x) ==
  /\ ppc = "get" /\ budget > 0 /\ QueueFree
  /\ budget' = budget - 1
  /\ \/ /\ ~empty /\ wr = rd
        /\ overrun' = TRUE
        /\ UNCHANGED ring
     \/ /\ empty \/ wr # rd
        /\ slots' = [slots EXCEPT ![wr] = x]
        /\ wr' = Succ(wr)
        /\ empty' = FALSE
        /\ UNCHANGED <<rd, overrun>>
  /\ UNCHANGED <<ppc, seen, dpc, reload>>

\* m_get_indication_f returns: nothing (more) to fetch, budget used, or error.
PollReturns ==
  /\ ppc = "get"
  /\ ppc' = "sleep" /\ budget' = 0
  /\ UNCHANGED <<ring, seen, dpc, overrun, reload>>

----------------------------------------------------------------------------
(* Dispatch thread, lines 103-143.                                         *)

\* Lines 106-111: an empty queue is waited on, the mutex being released.
DispatchWait ==
  /\ dpc = "top" /\ empty
  /\ dpc' = "wait"
  /\ UNCHANGED <<ring, poll, overrun, reload>>

\* The wait ends by the signal of line 173, or after DISPATCH_WAKEUP_TIMEOUT_S.
DispatchWake ==
  /\ dpc = "wait"
  /\ dpc' = "top"
  /\ UNCHANGED <<ring, poll, overrun, reload>>

\* Lines 125-131: the oldest slot is handled in place, the mutex released.
DispatchBegin ==
  /\ dpc = "top" /\ ~empty
  /\ dpc' = "callback"
  /\ UNCHANGED <<ring, poll, overrun, reload>>

\* Lines 135-137: back under the mutex, the slot is freed.
DispatchAdvance ==
  /\ dpc = "callback"
  /\ rd' = Succ(rd)
  /\ dpc' = "advanced"
  /\ UNCHANGED <<slots, wr, empty, poll, overrun, reload>>

NeverMarksEmpty ==
  /\ dpc = "advanced"
  /\ dpc' = "top"
  /\ UNCHANGED <<ring, poll, overrun, reload>>

\* Lines 138-142: a store of its own, which the poll thread can precede.
DispatchMarkEmpty ==
  /\ dpc = "advanced"
  /\ empty' = (empty \/ rd = wr)
  /\ dpc' = "top"
  /\ UNCHANGED <<slots, wr, rd, poll, overrun, reload>>

PollStep == \/ ReadEmpty \/ ReadFull \/ ReadEmptyAgain \/ Compare \/ Measure
            \/ (\E x \in Ind : OnIndicationReceivedLocked(x))
            \/ PollReturns

DispatchStep == \/ DispatchWait \/ DispatchWake \/ DispatchBegin
                \/ DispatchAdvance \/ DispatchMarkEmpty

Next == PollStep \/ DispatchStep

\* Both threads are scheduled, and the callbacks return.
Fairness == WF_vars(PollStep) /\ WF_vars(DispatchStep)

Spec == Init /\ [][Next]_vars /\ Fairness

----------------------------------------------------------------------------
(* What the ring holds                                                     *)

OccupancyFrom(r) == IF wr > r THEN wr - r ELSE N - r + wr

\* Equal indexes mean full, unless the queue is or is about to be empty.
Occupancy == IF rd # wr THEN OccupancyFrom(rd)
             ELSE IF empty \/ dpc = "advanced" THEN 0 ELSE N

----------------------------------------------------------------------------
(* Properties                                                              *)

\* "No more room for indications! Must never happen!" (line 161): an
\* indication already acknowledged to the node is never dropped, provided the
\* room is computed from one value of m_ind_queue_read.
NoOverrun == ~reload => ~overrun

\* The same claim for every build the source can give (line 161).  It is false:
\* with several loads the room can be computed from two different values.
MustNeverHappen == ~overrun

\* Slots are neither overwritten before or while they are handled nor handled
\* twice or out of order, and every accepted one is handled: the ring is a
\* FIFO, whatever the build loads.
Fifo == INSTANCE IndicationFifo WITH
          Capacity <- N,
          fifo <- [i \in 1 .. Occupancy |-> slots[(rd + i - 1) % N]],
          current <- IF dpc = "callback" THEN slots[rd] ELSE NoInd

ImplementsFifo == Fifo!Spec

\* A queue found full, or taken for full, never stops the poll thread for
\* good: it comes back to asking the node for at least one indication.
PollResumes == (ppc = "full?") ~> (ppc = "get" /\ budget > 0)
============================================================================

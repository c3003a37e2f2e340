----------------------- MODULE PlatformThreadsProofs -----------------------
(***************************************************************************)
(* Proofs about PlatformThreads for every size of the ring, every number   *)
(* of indications per poll, every set of packets and every set of closers. *)
(***************************************************************************)
EXTENDS PlatformThreads, SequenceTheorems, TLAPS

----------------------------------------------------------------------------
(* The inductive invariant                                                 *)

Handling == {"callback", "lock", "request", "relock", "closing"}
Polling == {"lock", "request", "get", "insert"}

\* The poll thread holds an indication exactly where it inserts it; the
\* dispatch thread handles an indication that is still in the ring.
PlaceInv == /\ ppc = "insert" => fetched \in Ind
            /\ dpc \in Handling => queue # << >>

\* Measured before the mutex is taken, the room is still there when the last
\* indication of the poll is inserted.
RoomInv == ppc \in Polling =>
             Len(queue) + budget + (IF ppc = "insert" THEN 1 ELSE 0) <= Capacity

\* The flag of reassembly.c never hides a packet, and what the poll thread has
\* found empty stays so, because only the poll thread inserts.
DrainInv == /\ noPartial => partial = {}
            /\ ppc \in {"fragments?", "exited"} => queue = << >>
            /\ ppc = "exited" => noPartial

\* A thread that closes the platform does nothing else, and exit ends them all.
ClosingInv ==
  /\ exited => ppc = "dead" /\ dpc = "dead" /\ \A c \in Closers : cpc[c] = "dead"
  /\ ~exited => ppc # "dead" /\ dpc # "dead" /\ \A c \in Closers : cpc[c] # "dead"
  /\ "poll" \in Closers /\ cpc["poll"] \notin {"idle", "dead"} => ppc = "closing"
  /\ "dispatch" \in Closers /\ cpc["dispatch"] \notin {"idle", "dead"} => dpc = "closing"

\* The application gets past a join by the end of the thread it waits for, or
\* because a thread that is ending the process joins that one already.
JoinInv ==
  "app" \in Closers /\ ~exited /\ "closing" \notin {ppc, dpc} =>
    /\ cpc["app"] \in {"stopDispatch", "joinDispatch", "destroy", "done"} => ppc = "exited"
    /\ cpc["app"] \in {"destroy", "done"} => dpc = "exited"

Inv == TypeOK /\ PlaceInv /\ RoomInv /\ DrainInv /\ ClosingInv /\ JoinInv

----------------------------------------------------------------------------
(* The parts of the invariant are kept one by one                          *)

\* Both threads have just been created and nothing has been fetched.
LEMMA InvInit == Init => Inv
<1>. SUFFICES ASSUME Init PROVE Inv
  OBVIOUS
<1>1. queue \in Seq(Ind) /\ Len(queue) = 0
  BY EmptySeq DEF Init
<1>2. TypeOK
  <2>1. /\ running \in BOOLEAN /\ noPartial \in BOOLEAN /\ exited \in BOOLEAN
        /\ silent \in BOOLEAN /\ forever \in BOOLEAN
    BY Zenon DEF Init
  <2>. QED BY <1>1, <2>1, SizesAssumption DEF Init, TypeOK
<1>. QED BY <1>1, <1>2, ClosersAssumption
     DEF Init, Inv, PlaceInv, RoomInv, DrainInv, ClosingInv, JoinInv, Polling, Handling

\* The poll thread between its polls.
LEMMA InvPollIdle ==
  ASSUME Inv, PollStart \/ PollSleep \/ PollAwake \/ PollQueueCheck \/ PollFragmentsCheck
  PROVE  Inv'
<1>. USE DEF Inv, TypeOK, PlaceInv, RoomInv, DrainInv, ClosingInv, JoinInv, Polling, Handling,
             fetching, frags
<1>1. CASE PollStart
  BY <1>1 DEF PollStart
<1>2. CASE PollSleep
  BY <1>2 DEF PollSleep
<1>3. CASE PollAwake
  BY <1>3 DEF PollAwake
<1>4. CASE PollQueueCheck
  BY <1>4 DEF PollQueueCheck
<1>5. CASE PollFragmentsCheck
  BY <1>5 DEF PollFragmentsCheck
<1>. QED BY <1>1, <1>2, <1>3, <1>4, <1>5

\* A poll: what is inserted was measured to fit.
LEMMA InvPolling ==
  ASSUME Inv, \/ PollRoom \/ PollLock \/ PollConfirmed \/ PollInsert \/ PollReturns
              \/ \E x \in Ind : PollReceive(x)
  PROVE  Inv'
<1>. USE SizesAssumption
<1>. USE DEF Inv, TypeOK, PlaceInv, RoomInv, DrainInv, ClosingInv, JoinInv, Polling, Handling,
             frags
<1>1. CASE PollRoom
  <2>1. Len(queue) \in Nat
    BY LenProperties
  <2>2. CASE Len(queue) = Capacity
    BY <1>1, <2>1, <2>2 DEF PollRoom
  <2>3. CASE Len(queue) < Capacity
    <3>1. budget' \in 0 .. MaxInd /\ Len(queue) + budget' <= Capacity
      BY <1>1, <2>1, <2>3 DEF PollRoom, Smaller
    <3>2. /\ ppc = "room" /\ ppc' = "lock"
          /\ UNCHANGED <<req, fetched, silent, queue, dpc, running, sender, frags, cpc, exited>>
      BY <1>1, <2>3 DEF PollRoom
    <3>. QED BY <2>1, <3>1, <3>2
  <2>. QED BY <1>1, <2>2, <2>3 DEF PollRoom
<1>2. CASE PollLock
  BY <1>2 DEF PollLock, fetching, Threads
<1>3. CASE PollConfirmed
  BY <1>3 DEF PollConfirmed, fetching
<1>4. CASE PollInsert
  <2>1. queue' \in Seq(Ind) /\ Len(queue') = Len(queue) + 1 /\ queue' # << >>
    BY <1>4, AppendProperties DEF PollInsert
  <2>. QED BY <1>4, <2>1 DEF PollInsert
<1>5. CASE PollReturns
  BY <1>5 DEF PollReturns
<1>6. ASSUME NEW x \in Ind, PollReceive(x) PROVE Inv'
  BY <1>6 DEF PollReceive
<1>. QED BY <1>1, <1>2, <1>3, <1>4, <1>5, <1>6

\* Collecting keeps the flag honest.
FragsOK == noPartial \in BOOLEAN /\ partial \subseteq Packets /\ forever \in BOOLEAN
           /\ (noPartial => partial = {})

LEMMA Collected ==
  ASSUME Inv, NEW left \in SUBSET partial, GarbageCollect(left)
  PROVE  FragsOK' /\ (noPartial => noPartial')
<1>. FragsOK
  BY DEF Inv, TypeOK, DrainInv, FragsOK
<1>1. CASE ~forever /\ partial' = left /\ noPartial' = (left = {}) /\ UNCHANGED forever
  <2>1. (left = {}) \in BOOLEAN /\ noPartial' \in BOOLEAN
    BY <1>1
  <2>. QED BY <1>1, <2>1 DEF FragsOK
<1>2. CASE UNCHANGED frags
  BY <1>2 DEF FragsOK, frags
<1>. QED BY <1>1, <1>2 DEF GarbageCollect

\* The dispatch thread handles and removes the oldest indication.
LEMMA InvDispatch ==
  ASSUME Inv, \/ DispatchExits \/ DispatchTop \/ DispatchHandle \/ DispatchLock \/ DispatchUnlock
              \/ \E left \in SUBSET partial : DispatchWake(left) \/ DispatchDone(left)
  PROVE  Inv'
<1>. USE DEF Inv, TypeOK, PlaceInv, RoomInv, DrainInv, ClosingInv, JoinInv, Polling, Handling,
             fetching, pollVars, frags
<1>1. CASE DispatchExits
  BY <1>1 DEF DispatchExits
<1>2. CASE DispatchTop
  BY <1>2 DEF DispatchTop
<1>3. CASE DispatchHandle
  <2>1. FragsOK'
    <3>0. FragsOK
      BY DEF FragsOK
    <3>1. Head(queue) \in Ind
      BY <1>3, HeadTailProperties DEF DispatchHandle
    <3>2. CASE UNCHANGED frags
      BY <3>0, <3>2 DEF FragsOK
    <3>3. CASE Head(queue)[1] # "data" /\ HandleFragment(Head(queue)[1], Head(queue)[2])
      <4>1. Head(queue)[2] \in Packets
        BY <3>1, <3>3 DEF Ind
      <4>2. UNCHANGED forever
        BY <3>3 DEF HandleFragment
      <4>3. noPartial' \in BOOLEAN /\ partial' \subseteq Packets /\ (noPartial' => partial' = {})
        BY <3>3, <4>1 DEF HandleFragment
      <4>. QED BY <3>0, <4>2, <4>3 DEF FragsOK
    <3>. QED BY <1>3, <3>2, <3>3 DEF DispatchHandle
  <2>2. /\ dpc = "callback" /\ dpc' \in {"lock", "relock"}
        /\ UNCHANGED <<req, pollVars, queue, running, sender, cpc, exited>>
    BY <1>3 DEF DispatchHandle
  <2>. QED BY <2>1, <2>2 DEF FragsOK
<1>4. CASE DispatchLock
  BY <1>4 DEF DispatchLock, Threads
<1>5. CASE DispatchUnlock
  BY <1>5 DEF DispatchUnlock
<1>6. ASSUME NEW left \in SUBSET partial, DispatchWake(left) PROVE Inv'
  <2>1. FragsOK' /\ (noPartial => noPartial')
    BY <1>6, Collected DEF DispatchWake
  <2>2. /\ dpc = "wait" /\ dpc' = IF queue = << >> THEN "top" ELSE "callback"
        /\ UNCHANGED <<req, pollVars, queue, running, sender, cpc, exited>>
    BY <1>6 DEF DispatchWake
  <2>3. dpc' \in {"top", "callback"} /\ (dpc' = "callback" => queue # << >>)
    BY <2>2
  <2>4. TypeOK'
    BY <2>1, <2>2, <2>3 DEF FragsOK
  <2>5. PlaceInv' /\ RoomInv'
    BY <2>2, <2>3
  <2>6. DrainInv'
    BY <2>1, <2>2 DEF FragsOK
  <2>7. ClosingInv' /\ JoinInv'
    BY <2>2, <2>3
  <2>. QED BY <2>4, <2>5, <2>6, <2>7
<1>7. ASSUME NEW left \in SUBSET partial, DispatchDone(left) PROVE Inv'
  <2>1. queue # << >> /\ queue' = Tail(queue)
    BY <1>7 DEF DispatchDone
  <2>2. queue' \in Seq(Ind) /\ Len(queue') <= Len(queue)
    BY <2>1, HeadTailProperties, LenProperties
  <2>3. FragsOK'
    <3>1. CASE UNCHANGED frags
      BY <3>1 DEF FragsOK
    <3>2. CASE GarbageCollect(left)
      BY <3>2, Collected
    <3>. QED BY <1>7, <3>1, <3>2 DEF DispatchDone
  <2>4. /\ dpc = "relock" /\ dpc' = "top"
        /\ UNCHANGED <<req, pollVars, running, sender, cpc, exited>>
    BY <1>7 DEF DispatchDone
  <2>5. Len(queue) \in Nat /\ Len(queue') \in Nat
    BY <2>2, LenProperties
  <2>6. TypeOK'
    BY <2>2, <2>3, <2>4, <2>5, SizesAssumption DEF FragsOK
  <2>7. PlaceInv' /\ RoomInv' /\ ClosingInv' /\ JoinInv'
    BY <2>2, <2>4, <2>5, SizesAssumption
  <2>8. DrainInv'
    BY <2>1, <2>3, <2>4 DEF FragsOK
  <2>. QED BY <2>6, <2>7, <2>8
<1>. QED BY <1>1, <1>2, <1>3, <1>4, <1>5, <1>6, <1>7

\* Closing, by whoever does it.
LEMMA InvClose ==
  ASSUME Inv, AppCloses \/ PollFatal \/ DispatchFatal \/ \E c \in Closers : CloseStep(c)
  PROVE  Inv'
<1>. USE ClosersAssumption
<1>. USE DEF Inv, TypeOK, PlaceInv, RoomInv, DrainInv, ClosingInv, JoinInv, Polling, Handling,
             fetching, pollVars, frags
<1>1. CASE AppCloses
  BY <1>1 DEF AppCloses, BeginClose
<1>2. CASE PollFatal
  BY <1>2 DEF PollFatal, BeginClose
<1>3. CASE DispatchFatal
  BY <1>3 DEF DispatchFatal, BeginClose
<1>4. ASSUME NEW c \in Closers, JoinPoll(c) PROVE Inv'
  BY <1>4 DEF JoinPoll, Joinable, Threads
<1>5. ASSUME NEW c \in Closers, StopDispatch(c) PROVE Inv'
  <2>1. TypeOK'
    <3>1. running' \in BOOLEAN
      BY <1>5, Zenon DEF StopDispatch
    <3>. QED BY <1>5, <3>1 DEF StopDispatch
  <2>2. PlaceInv' /\ RoomInv' /\ DrainInv' /\ ClosingInv' /\ JoinInv'
    BY <1>5 DEF StopDispatch
  <2>. QED BY <2>1, <2>2
<1>6. ASSUME NEW c \in Closers, JoinDispatch(c) PROVE Inv'
  BY <1>6 DEF JoinDispatch, Joinable, Threads
<1>7. ASSUME NEW c \in Closers, EndClose(c) PROVE Inv'
  <2>1. CASE c = "app"
    BY <1>7, <2>1 DEF EndClose
  <2>2. CASE c # "app"
    <3>1. /\ exited' = TRUE /\ ppc' = "dead" /\ dpc' = "dead" /\ cpc' = [d \in Closers |-> "dead"]
          /\ UNCHANGED <<req, fetching, queue, running, sender, frags>>
      BY <1>7, <2>2 DEF EndClose
    <3>2. exited' \in BOOLEAN
      BY <3>1, Zenon
    <3>3. TypeOK'
      BY <3>1, <3>2
    <3>4. PlaceInv' /\ RoomInv' /\ DrainInv' /\ ClosingInv' /\ JoinInv'
      BY <3>1
    <3>. QED BY <3>3, <3>4
  <2>. QED BY <2>1, <2>2
<1>. QED BY <1>1, <1>2, <1>3, <1>4, <1>5, <1>6, <1>7 DEF CloseStep

LEMMA InvNext == Inv /\ [Next]_vars => Inv'
<1>. SUFFICES ASSUME Inv, [Next]_vars PROVE Inv'
  OBVIOUS
<1>1. CASE UNCHANGED vars
  BY <1>1 DEF Inv, TypeOK, PlaceInv, RoomInv, DrainInv, ClosingInv, JoinInv, vars, pollVars,
              fetching, frags
<1>5. CASE NodeFallsSilent
  <2>1. silent' \in BOOLEAN
    BY <1>5, Zenon DEF NodeFallsSilent
  <2>. QED BY <1>5, <2>1 DEF NodeFallsSilent, Inv, TypeOK, PlaceInv, RoomInv, DrainInv, ClosingInv,
                             JoinInv, frags
<1>2. CASE PollStep \/ PollLock
  BY <1>2, InvPollIdle, InvPolling DEF PollStep
<1>3. CASE DispatchStep \/ DispatchLock
  BY <1>3, InvDispatch DEF DispatchStep
<1>4. CASE AppCloses \/ PollFatal \/ DispatchFatal \/ \E c \in Closers : CloseStep(c)
  BY <1>4, InvClose
<1>. QED BY <1>1, <1>2, <1>3, <1>4, <1>5 DEF Next, Stopped

----------------------------------------------------------------------------
(* Theorems                                                                *)

\* The inductive invariant of both threads and of every caller of
\* Platform_close (lines 98-333 and 401-434).
THEOREM Invariance == Spec => []Inv
<1>. QED BY InvInit, InvNext, PTL DEF Spec

\* The threads keep their types; in particular the ring never holds more than
\* MAX_NUMBER_INDICATION_QUEUE indications.
THEOREM TypeCorrect == Spec => []TypeOK
<1>1. Inv => TypeOK
  BY DEF Inv
<1>. QED BY <1>1, Invariance, PTL

\* Lines 198-213 and 412-431: the poll thread ends only when everything it took
\* from the node has been handled, and WPC_close returns only after both
\* threads have ended, unless the process is ending.
THEOREM DrainedHolds == Spec => []DrainedWhenPollingEnds
<1>1. Inv => DrainedWhenPollingEnds
  BY ClosersAssumption DEF Inv, DrainInv, JoinInv, DrainedWhenPollingEnds, AppClosed
<1>. QED BY <1>1, Invariance, PTL
============================================================================

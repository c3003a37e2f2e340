-------------------------- MODULE PlatformThreads --------------------------
(***************************************************************************)
(* Life and death of the two threads of lib/platform/linux/platform.c.     *)
(*                                                                         *)
(* The poll thread fetches indications from the node under sending_mutex   *)
(* and inserts them under m_queue_mutex; the dispatch thread handles them, *)
(* collecting fragments (lib/wpc/reassembly) and possibly sending requests *)
(* of its own.  Platform_close, called by the application or by whichever  *)
(* thread finds the node silent for too long, asks the poll thread to      *)
(* drain everything, joins it, then stops and joins the dispatch thread.   *)
(* The ring is a sequence here: IndicationQueue studies it in detail.      *)
(***************************************************************************)
EXTENDS Integers, Sequences, FiniteSets

CONSTANTS
  Closers,      \* who may call Platform_close: "app", "poll", "dispatch"
  Packets,      \* keys of fragmented packets
  Capacity,     \* MAX_NUMBER_INDICATION_QUEUE
  MaxInd        \* MAX_NUMBER_INDICATION

ASSUME ClosersAssumption == Closers \subseteq {"app", "poll", "dispatch"}
ASSUME SizesAssumption == Capacity \in Nat /\ MaxInd \in Nat \ {0}

VARIABLES
  req,       \* m_polling_thread_state_request
  ppc,       \* poll thread
  budget,    \* poll thread: indications it may still fetch in this poll
  queue,     \* the indications in the ring; the one being handled is first
  fetched,   \* poll thread: received and acknowledged, not yet inserted
  silent,    \* the node has given its last indication
  dpc,       \* dispatch thread
  running,   \* m_dispatch_thread_running
  sender,    \* holder of sending_mutex
  partial,   \* packets of m_packets
  noPartial, \* m_is_queue_empty of reassembly.c
  forever,   \* m_fragment_max_duration_s is 0: "Zero equals forever"
  cpc,       \* progress of each caller in Platform_close
  exited     \* the process has called exit

fetching == <<budget, fetched, silent>>
pollVars == <<ppc, fetching>>
frags == <<partial, noPartial, forever>>
vars == <<req, pollVars, queue, dpc, running, sender, frags, cpc, exited>>

Threads == {"poll", "dispatch"}
Ind == {<<"data">>} \cup ({"first", "last"} \X Packets)
NoInd == << >>

TypeOK ==
  /\ req \in {"RUN", "STOP", "STOP_REQUESTED"}
  /\ ppc \in {"start", "loop", "awake", "queue?", "fragments?", "room", "lock", "request",
              "get", "insert", "closing", "exited", "dead"}
  /\ fetched \in Ind \cup {NoInd}
  /\ budget \in 0 .. MaxInd
  /\ queue \in Seq(Ind) /\ Len(queue) <= Capacity
  /\ dpc \in {"top", "wait", "callback", "lock", "request", "relock", "closing", "exited", "dead"}
  /\ running \in BOOLEAN /\ noPartial \in BOOLEAN /\ exited \in BOOLEAN
  /\ silent \in BOOLEAN /\ forever \in BOOLEAN
  /\ sender \in Threads \cup {"none"}
  /\ partial \subseteq Packets
  /\ cpc \in [Closers -> {"idle", "joinPoll", "stopDispatch", "joinDispatch",
                          "destroy", "done", "dead"}]

\* Platform_init has just created both threads (lines 381-395).
Init ==
  /\ req = "STOP"
  /\ ppc = "start" /\ budget = 0 /\ fetched = NoInd /\ silent = FALSE
  /\ queue = << >>
  /\ dpc = "top" /\ running = TRUE
  /\ sender = "none"
  /\ partial = {} /\ noPartial = TRUE /\ forever \in BOOLEAN
  /\ cpc = [c \in Closers |-> "idle"]
  /\ exited = FALSE

Smaller(a, b) == IF a < b THEN a ELSE b

\* m_queue_mutex is the dispatch thread's from its loop top to its callback or
\* wait, and stays locked when the thread ends (line 146 does not unlock it).
FreeBetweenIndications == dpc \in {"wait", "relock", "closing"}
QueueMutexFree == dpc \notin {"top", "exited"}

----------------------------------------------------------------------------
(* Poll thread                                                             *)

\* Line 192: whatever the request was, it becomes RUN.
PollStart ==
  /\ ppc = "start"
  /\ req' = "RUN"
  /\ ppc' = "loop"
  /\ UNCHANGED <<fetching, queue, dpc, running, sender, frags, cpc, exited>>

\* Lines 194-198: the loop condition, the sleep, and the stop test.
PollSleep ==
  /\ ppc = "loop" /\ req # "STOP"
  /\ ppc' = "awake"
  /\ UNCHANGED <<req, fetching, queue, dpc, running, sender, frags, cpc, exited>>

PollAwake ==
  /\ ppc = "awake"
  /\ ppc' = IF req = "STOP_REQUESTED" THEN "queue?" ELSE "room"
  /\ UNCHANGED <<req, fetching, queue, dpc, running, sender, frags, cpc, exited>>

PollQueueUnchecked ==
  /\ ppc = "queue?"
  /\ ppc' = "fragments?"
  /\ UNCHANGED <<req, fetching, queue, dpc, running, sender, frags, cpc, exited>>

\* Lines 200-205: what is in the ring must be handled first.
PollQueueCheck ==
  /\ ppc = "queue?"
  /\ ppc' = IF queue = << >> THEN "fragments?" ELSE "loop"
  /\ UNCHANGED <<req, fetching, queue, dpc, running, sender, frags, cpc, exited>>

\* Lines 207-212: an incomplete packet makes the thread poll on.
PollFragmentsCheck ==
  /\ ppc = "fragments?"
  /\ \/ noPartial /\ req' = "STOP" /\ ppc' = "exited"
     \/ ~noPartial /\ ppc' = "room" /\ UNCHANGED req
  /\ UNCHANGED <<fetching, queue, dpc, running, sender, frags, cpc, exited>>

\* Lines 221-260: one by one once a stop is requested.
PollRoom ==
  /\ ppc = "room"
  /\ \/ /\ Len(queue) = Capacity
        /\ ppc' = "loop"
        /\ UNCHANGED budget
     \/ /\ Len(queue) < Capacity
        /\ ppc' = "lock"
        /\ budget' = IF req = "STOP_REQUESTED" THEN 1
                     ELSE Smaller(MaxInd, Capacity - Len(queue))
  /\ UNCHANGED <<req, fetched, silent, queue, dpc, running, sender, frags, cpc, exited>>

\* get_indication of wpc_internal.c, line 373: the poll request is sent.
PollLock ==
  /\ ppc = "lock" /\ sender = "none"
  /\ sender' = "poll"
  /\ ppc' = "request"
  /\ UNCHANGED <<req, fetching, queue, dpc, running, frags, cpc, exited>>

\* The node has confirmed that it has indications.
PollConfirmed ==
  /\ ppc = "request"
  /\ ppc' = "get"
  /\ UNCHANGED <<req, fetching, queue, dpc, running, sender, frags, cpc, exited>>

\* handle_indication: the node's indication is received and acknowledged.
PollReceive(x) ==
  /\ ppc = "get" /\ budget > 0 /\ ~silent
  /\ fetched' = x
  /\ budget' = budget - 1
  /\ ppc' = "insert"
  /\ UNCHANGED <<req, silent, queue, dpc, running, sender, frags, cpc, exited>>

\* onIndicationReceivedLocked, under both mutexes.
PollInsert ==
  /\ ppc = "insert" /\ QueueMutexFree
  /\ queue' = Append(queue, fetched)
  /\ fetched' = NoInd
  /\ ppc' = "get"
  /\ UNCHANGED <<req, budget, silent, dpc, running, sender, frags, cpc, exited>>

\* No confirm, nothing (more) to give, or the budget is used.
PollReturns ==
  /\ ppc \in {"request", "get"}
  /\ sender' = "none"
  /\ ppc' = "loop" /\ budget' = 0
  /\ UNCHANGED <<req, fetched, silent, queue, dpc, running, frags, cpc, exited>>

----------------------------------------------------------------------------
(* Dispatch thread                                                         *)

DispatchExits ==
  /\ dpc = "top" /\ ~running
  /\ dpc' = "exited"
  /\ UNCHANGED <<req, pollVars, queue, running, sender, frags, cpc, exited>>

DispatchTop ==
  /\ dpc = "top" /\ running
  /\ dpc' = IF queue = << >> THEN "wait" ELSE "callback"
  /\ UNCHANGED <<req, pollVars, queue, running, sender, frags, cpc, exited>>

ForgetsFlag(left) == /\ left = partial \/ ~forever
                     /\ partial' = left
                     /\ UNCHANGED <<noPartial, forever>>

\* reassembly_garbage_collect: some packets are too old, or it is too early to
\* look, or packets are kept for ever.
GarbageCollect(left) ==
  \/ /\ ~forever
     /\ partial' = left
     /\ noPartial' = (left = {})
     /\ UNCHANGED forever
  \/ left = partial /\ UNCHANGED frags

\* Lines 111-122: signalled or after 5 s; the queue is looked at again, the
\* stop condition only if there is nothing in it.
DispatchWake(left) ==
  /\ dpc = "wait"
  /\ left \subseteq partial
  /\ GarbageCollect(left)
  /\ dpc' = IF queue = << >> THEN "top" ELSE "callback"
  /\ UNCHANGED <<req, pollVars, queue, running, sender, cpc, exited>>

\* The handler of the oldest indication.  A fragment that cannot be stored for
\* want of memory has still cleared m_is_queue_empty; it may have created its
\* packet or not.  The callback of the application may send a request.
HandleFragment(kind, p) ==
  /\ \/ /\ kind = "last" /\ p \in partial          \* the packet is complete
        /\ partial' = partial \ {p}
        /\ noPartial' = (partial' = {})
     \/ /\ kind = "first" \/ p \notin partial      \* stored, or the store failed
        /\ partial' \in {partial, partial \cup {p}}
        /\ noPartial' = FALSE
  /\ UNCHANGED forever

DispatchHandle ==
  /\ dpc = "callback"
  /\ LET ind == Head(queue)
     IN  \/ ind[1] = "data" /\ UNCHANGED frags
         \/ ind[1] # "data" /\ HandleFragment(ind[1], ind[2])
  /\ dpc' \in {"lock", "relock"}
  /\ UNCHANGED <<req, pollVars, queue, running, sender, cpc, exited>>

DispatchLock ==
  /\ dpc = "lock" /\ sender = "none"
  /\ sender' = "dispatch"
  /\ dpc' = "request"
  /\ UNCHANGED <<req, pollVars, queue, running, frags, cpc, exited>>

DispatchUnlock ==
  /\ dpc = "request"
  /\ sender' = "none"
  /\ dpc' = "relock"
  /\ UNCHANGED <<req, pollVars, queue, running, frags, cpc, exited>>

DispatchDone(left) ==
  /\ dpc = "relock"
  /\ left \subseteq partial
  /\ \/ Head(queue)[1] = "data" /\ UNCHANGED frags
     \/ Head(queue)[1] # "data" /\ GarbageCollect(left)
  /\ queue' = Tail(queue)
  /\ dpc' = "top"
  /\ UNCHANGED <<req, pollVars, running, sender, cpc, exited>>

----------------------------------------------------------------------------
(* Platform_close                                                          *)

BeginClose(c) ==
  /\ cpc[c] = "idle"
  /\ req' = "STOP_REQUESTED"
  /\ cpc' = [cpc EXCEPT ![c] = IF c = "poll" THEN "stopDispatch" ELSE "joinPoll"]

\* WPC_close.
AppCloses ==
  /\ "app" \in Closers
  /\ BeginClose("app")
  /\ UNCHANGED <<pollVars, queue, dpc, running, sender, frags, exited>>

\* check_if_timeout_reached_locked: the mutex is released, then the platform
\* closed, by the thread whose request found the node silent for too long.
PollFatal ==
  /\ "poll" \in Closers
  /\ ppc = "request"
  /\ ppc' = "closing"
  /\ sender' = "none"
  /\ BeginClose("poll")
  /\ UNCHANGED <<fetching, queue, dpc, running, frags, exited>>

DispatchFatal ==
  /\ "dispatch" \in Closers
  /\ dpc = "request"
  /\ dpc' = "closing"
  /\ sender' = "none"
  /\ BeginClose("dispatch")
  /\ UNCHANGED <<pollVars, queue, running, frags, exited>>

\* pthread_join returns when the thread has ended, at once when that thread is
\* joining the caller (EDEADLK) or is already being joined (EINVAL).
Joinable(c, thread, pc) ==
  \/ thread = "poll" /\ ppc = "exited"
  \/ thread = "dispatch" /\ dpc = "exited"
  \/ thread \in Closers /\ cpc[thread] \in {"joinPoll", "joinDispatch"} /\ c \in Threads
  \/ \E other \in Closers \ {c} : cpc[other] = pc

JoinPoll(c) ==
  /\ cpc[c] = "joinPoll"
  /\ Joinable(c, "poll", "joinPoll")
  /\ cpc' = [cpc EXCEPT ![c] = "stopDispatch"]
  /\ UNCHANGED <<req, pollVars, queue, dpc, running, sender, frags, exited>>

StopDispatch(c) ==
  /\ cpc[c] = "stopDispatch"
  /\ running' = FALSE
  /\ cpc' = [cpc EXCEPT ![c] = IF c = "dispatch" THEN "destroy" ELSE "joinDispatch"]
  /\ UNCHANGED <<req, pollVars, queue, dpc, sender, frags, exited>>

JoinDispatch(c) ==
  /\ cpc[c] = "joinDispatch"
  /\ Joinable(c, "dispatch", "joinDispatch")
  /\ cpc' = [cpc EXCEPT ![c] = "destroy"]
  /\ UNCHANGED <<req, pollVars, queue, dpc, running, sender, frags, exited>>

\* The mutexes are destroyed; after a fatal error the process ends, and every
\* thread with it.
EndClose(c) ==
  /\ cpc[c] = "destroy"
  /\ \/ /\ c = "app"
        /\ cpc' = [cpc EXCEPT ![c] = "done"]
        /\ UNCHANGED <<ppc, dpc, exited>>
     \/ /\ c # "app"
        /\ exited' = TRUE
        /\ ppc' = "dead" /\ dpc' = "dead"
        /\ cpc' = [d \in Closers |-> "dead"]
  /\ UNCHANGED <<req, fetching, queue, running, sender, frags>>

----------------------------------------------------------------------------
AppClosed == "app" \in Closers /\ cpc["app"] = "done"

\* Nothing happens after exit or once WPC_close has returned.
Over == exited \/ AppClosed

\* External: the node has nothing more to give.
NodeFallsSilent ==
  /\ ~silent /\ ~Over
  /\ silent' = TRUE
  /\ UNCHANGED <<req, ppc, budget, fetched, queue, dpc, running, sender, frags, cpc, exited>>

PollStep == \/ PollStart \/ PollSleep \/ PollAwake \/ PollQueueCheck
            \/ PollFragmentsCheck \/ PollRoom \/ PollConfirmed
            \/ (\E x \in Ind : PollReceive(x)) \/ PollInsert \/ PollReturns

DispatchStep == \/ DispatchExits \/ DispatchTop \/ DispatchHandle \/ DispatchUnlock
                \/ (\E left \in SUBSET partial : DispatchWake(left) \/ DispatchDone(left))

CloseStep(c) == JoinPoll(c) \/ StopDispatch(c) \/ JoinDispatch(c) \/ EndClose(c)

Stopped == Over /\ UNCHANGED vars

Next == \/ PollStep \/ PollLock
        \/ DispatchStep \/ DispatchLock
        \/ NodeFallsSilent
        \/ AppCloses \/ PollFatal \/ DispatchFatal
        \/ \E c \in Closers : CloseStep(c)
        \/ Stopped

\* Threads are scheduled and callbacks return; the poll thread sleeps between
\* polls, so that a thread waiting for a mutex gets it; and when the node gives
\* nothing more, packets become old enough to be collected.  Nothing is assumed
\* of a node that goes on sending fragments.
Collects == silent /\ DispatchWake({}) /\ partial' = {} /\ noPartial'

Fairness ==
  /\ WF_vars(PollStep) /\ SF_vars(PollLock) /\ SF_vars(PollInsert)
  /\ WF_vars(DispatchStep) /\ SF_vars(DispatchLock)
  /\ \A c \in Closers : WF_vars(CloseStep(c))
  /\ SF_vars(Collects)

Spec == Init /\ [][Next]_vars /\ Fairness

----------------------------------------------------------------------------
(* Properties                                                              *)

\* Lines 198-213: the poll thread ends only when every indication it took
\* from the node has been handled and no packet waits for fragments.  Lines
\* 412-431: so when WPC_close returns both threads have ended, no callback can
\* run any more, and no acknowledged indication was left behind, unless a
\* thread found the link broken meanwhile and is ending the process.
DrainedWhenPollingEnds ==
  /\ ppc = "exited" => queue = << >> /\ partial = {} /\ noPartial
  /\ AppClosed /\ ~exited /\ "closing" \notin {ppc, dpc} =>
       ppc = "exited" /\ dpc = "exited" /\ queue = << >>

\* A stop request that the poll thread is there to see makes Platform_close
\* return (or the process exit) when two more conditions are met: the node falls
\* silent sooner or later, since each new fragment makes the thread poll on
\* (lines 207-260), and fragments are not kept for ever.  Then whatever is
\* pending and whichever thread holds a mutex (lines 198-213 and 412-431) it
\* ends, unless the dispatch thread itself is busy closing (FatalExits).  A
\* request made before the first statement of the poll thread (line 192) is
\* overwritten, and the call waits for ever.
CloseTerminates ==
  ("app" \in Closers /\ cpc["app"] = "joinPoll" /\ req = "STOP_REQUESTED" /\ ppc # "start"
     /\ silent /\ ~forever)
    ~> (Over \/ dpc = "closing")

\* "we are exiting anyway" (wpc_internal.c line 111): a thread that found the
\* link broken ends the process.
FatalExits == (ppc = "closing" \/ dpc = "closing") ~> exited

\* Lines 125-135 and 155: a callback may send requests because m_queue_mutex
\* is free meanwhile, and the poll thread inserts under both mutexes.  They are
\* never waited for in a circle: however much the node sends, the oldest
\* indication in the ring is handled and removed, and one fetched is inserted.
QueueMoves ==
  /\ queue # << >> ~> (dpc = "relock" \/ Over \/ dpc = "closing")
  /\ dpc = "relock" ~> (dpc = "top" \/ Over)
  /\ ppc = "insert" ~> (ppc = "get" \/ Over \/ dpc = "closing")
============================================================================

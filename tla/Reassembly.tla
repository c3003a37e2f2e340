----------------------------- MODULE Reassembly -----------------------------
(***************************************************************************)
(* Receiving fragmented messages: the store of lib/wpc/reassembly and the  *)
(* indication handler of lib/wpc/dsap.c that feeds it, on the dispatch     *)
(* thread.  The poll thread reads m_is_queue_empty at any moment, so the   *)
(* handler's early store to it is a step of its own.                       *)
(* Fragments come in any order and any number of times, or never; every    *)
(* allocation may fail.  A fragment stands for its bytes, all of one       *)
(* length, and is identified by its message and its offset; rxSize is the  *)
(* total size of the list of fragments, repeats included.                  *)
(***************************************************************************)
EXTENDS Naturals, FiniteSets

CONSTANTS
  Keys,        \* pairs of source address and packet id
  Lengths,     \* possible numbers of fragments of a message
  BufferSize,  \* MAX_FULL_PACKET_SIZE, in fragments
  Collecting,  \* m_fragment_max_duration_s > 0
  MaxSent,     \* bound: messages sent under one key
  MaxReceived, \* bound: fragment indications
  MaxFailures  \* bound: failed allocations

ASSUME LengthsAssumption == Lengths \subseteq Nat \ {0, 1} /\ IsFiniteSet(Lengths)
ASSUME BufferAssumption == BufferSize \in Nat
ASSUME MaxSentAssumption == MaxSent \in Nat \ {0}
ASSUME CollectingAssumption == Collecting \in BOOLEAN

VARIABLES
  current,   \* number of the message being sent under each key
  length,    \* its length
  packets,   \* m_packets
  old,       \* packets without a fragment for more than the maximum duration
  flag,      \* m_is_queue_empty
  step,      \* dispatch thread: "idle", "store", "deliver" or "collect"
  fragment,  \* the fragment being handled
  buffer,    \* reassembly_buffer
  handed,    \* what the data callback was given for each key's current message
  arrived,   \* fragments received of each key's current message
  disturbed, \* keys whose current message lost something to the host
  received, failures

handler == <<step, fragment>>
store == <<packets, old, flag>>
network == <<length, current>>
counters == <<received, failures>>
reassemblyVars == <<network, store, handler, buffer, handed, arrived, disturbed, counters>>

MaxLength == CHOOSE l \in Lengths : \A k \in Lengths : k <= l
Fragments == [key : Keys, msg : 1 .. MaxSent, off : 0 .. MaxLength - 1]
NoFragment == << >>
Whole(k) == {[key |-> k, msg |-> current[k], off |-> i] : i \in 0 .. length[k] - 1}
Packet == [frags : SUBSET Fragments, rxSize : 0 .. MaxReceived, fullSize : 0 .. MaxLength,
           isFull : BOOLEAN]
NoPacket == [frags |-> {}, rxSize |-> 0, fullSize |-> 0, isFull |-> FALSE]

ReassemblyTypeOK ==
  /\ current \in [Keys -> 1 .. MaxSent] /\ length \in [Keys -> Lengths]
  /\ DOMAIN packets \subseteq Keys
  /\ \A k \in DOMAIN packets : packets[k] \in Packet
  /\ old \subseteq DOMAIN packets
  /\ flag \in BOOLEAN
  /\ step \in {"idle", "store", "deliver", "collect"}
  /\ fragment \in Fragments \cup {NoFragment} /\ (fragment = NoFragment <=> step = "idle")
  /\ buffer \subseteq Fragments
  /\ handed \in [Keys -> SUBSET SUBSET Fragments]
  /\ arrived \subseteq Fragments /\ disturbed \subseteq Keys
  /\ received \in 0 .. MaxReceived /\ failures \in 0 .. MaxFailures

ReassemblyInit ==
  /\ current = [k \in Keys |-> 1] /\ length \in [Keys -> Lengths]
  /\ packets = << >> /\ old = {} /\ flag = TRUE
  /\ step = "idle" /\ fragment = NoFragment
  /\ buffer = {} /\ handed = [k \in Keys |-> {}] /\ arrived = {} /\ disturbed = {}
  /\ received = 0 /\ failures = 0

Put(k, p) == [j \in DOMAIN packets \cup {k} |-> IF j = k THEN p ELSE packets[j]]
Without(S) == [j \in DOMAIN packets \ S |-> packets[j]]
Found(k) == IF k \in DOMAIN packets THEN packets[k] ELSE NoPacket

----------------------------------------------------------------------------
(* The network and time (external)                                         *)

\* A sender comes back to a packet id after 4096 messages: when packets are
\* collected at all, what the host kept of the earlier message is gone by then.
NextMessage(k) ==
  /\ step = "idle" /\ current[k] < MaxSent
  /\ Collecting => k \notin DOMAIN packets
  /\ current' = [current EXCEPT ![k] = @ + 1]
  /\ \E l \in Lengths : length' = [length EXCEPT ![k] = l]
  /\ handed' = [handed EXCEPT ![k] = {}]
  /\ arrived' = {f \in arrived : f.key # k}
  /\ disturbed' = disturbed \ {k}
  /\ UNCHANGED <<store, handler, buffer, counters>>

\* More than m_fragment_max_duration_s passes without a fragment.
GrowsOld(k) ==
  /\ step = "idle" /\ k \in DOMAIN packets \ old
  /\ old' = old \cup {k}
  /\ UNCHANGED <<network, packets, flag, handler, buffer, handed, arrived, disturbed, counters>>

----------------------------------------------------------------------------
(* dsap_data_rx_frag_indication_handler                                    *)

ReceiveWithoutMark(f) ==
  /\ step = "idle" /\ received < MaxReceived
  /\ received' = received + 1
  /\ fragment' = f /\ step' = "store"
  /\ arrived' = arrived \cup {f}
  /\ UNCHANGED <<network, store, buffer, handed, disturbed, failures>>

\* The handler begins; line 263 of reassembly.c clears the flag in advance.
Receive(f) ==
  /\ step = "idle" /\ received < MaxReceived
  /\ received' = received + 1
  /\ fragment' = f /\ step' = "store"
  /\ arrived' = arrived \cup {f}
  /\ flag' = FALSE
  /\ UNCHANGED <<network, packets, old, buffer, handed, disturbed, failures>>

\* No memory for the packet, or for the fragment: then the packet, when it is
\* new, stays in the store with no fragment and a timestamp of 0 (98-107).
AllocationFails ==
  /\ step = "store" /\ failures < MaxFailures
  /\ LET k == fragment.key
     IN  \/ k \notin DOMAIN packets /\ UNCHANGED <<packets, old>>
         \/ /\ k \notin DOMAIN packets
            /\ packets' = Put(k, NoPacket) /\ old' = old \cup {k}
         \/ /\ k \in DOMAIN packets
            /\ ~\E g \in packets[k].frags : g.off = fragment.off
            /\ UNCHANGED <<packets, old>>
  /\ failures' = failures + 1
  /\ disturbed' = disturbed \cup {fragment.key}
  /\ step' = "collect"
  /\ UNCHANGED <<network, flag, fragment, buffer, handed, arrived, received>>

NoDuplicate(k, off) == FALSE
\* LL_SEARCH_SCALAR on the offset (lines 119-127).
Duplicate(k, off) == \E g \in Found(k).frags : g.off = off

DuplicateIgnored ==
  /\ step = "store"
  /\ Duplicate(fragment.key, fragment.off)
  /\ step' = "collect"
  /\ UNCHANGED <<network, store, fragment, buffer, handed, arrived, disturbed, counters>>

FullOnLastOnly(p) == p.isFull \/ (fragment.off = p.fullSize - 1 /\ p.rxSize = p.fullSize)
\* is_packet_full: the sizes received add up to the size the last one told.
IsPacketFull(p) == p.isFull \/ (p.fullSize # 0 /\ p.rxSize = p.fullSize)

\* Line 157: the last fragment tells the size of the message.
ToldSize(f) == f.off + 1
IsLast(f) == f.off = length[f.key] - 1

\* add_fragment_to_full_packet and is_packet_full, lines 265-295.
StoreFragment ==
  /\ step = "store"
  /\ ~Duplicate(fragment.key, fragment.off)
  /\ LET k == fragment.key
         p == [Found(k) EXCEPT !.frags = @ \cup {fragment}, !.rxSize = @ + 1,
                               !.fullSize = IF IsLast(fragment) THEN ToldSize(fragment) ELSE @]
     IN  /\ packets' = Put(k, [p EXCEPT !.isFull = IsPacketFull(p)])
         /\ old' = old \ {k}
         /\ step' = IF IsPacketFull(p) THEN "deliver" ELSE "collect"
  /\ UNCHANGED <<network, flag, fragment, buffer, handed, arrived, disturbed, counters>>

\* The callback gets the static buffer; without a callback the handler returns
\* at once (355-359) and collects nothing.
HandsOver(content) ==
  \/ /\ handed' = [handed EXCEPT ![fragment.key] = @ \cup {content}]
     /\ step' = "collect"
     /\ UNCHANGED <<fragment, disturbed>>
  \/ /\ disturbed' = disturbed \cup {fragment.key}
     /\ step' = "idle" /\ fragment' = NoFragment
     /\ UNCHANGED handed

\* The message is copied into the buffer, and the packet released.
Deliver ==
  /\ step = "deliver"
  /\ LET k == fragment.key
     IN  /\ packets[k].fullSize <= BufferSize
         /\ buffer' = packets[k].frags
         /\ packets' = Without({k}) /\ old' = old \ {k}
         /\ flag' = (DOMAIN packets' = {})
         /\ HandsOver(buffer')
  /\ UNCHANGED <<network, arrived, counters>>

\* Too long for the buffer: the packet stays, and the callback is nevertheless
\* given what the buffer holds (lines 220-224, and 342-345 of dsap.c).
DeliverTooLong ==
  /\ step = "deliver"
  /\ packets[fragment.key].fullSize > BufferSize
  /\ HandsOver(buffer)
  /\ UNCHANGED <<network, store, buffer, arrived, counters>>

CollectTouchesFlagIfAnyIsOld ==
  /\ packets' = Without(old) /\ old' = {}
  /\ flag' = IF old = {} THEN flag ELSE DOMAIN packets' = {}
  /\ disturbed' = disturbed \cup old

\* reassembly_garbage_collect, when it is due: packets that are too old go.
GarbageCollect ==
  /\ packets' = Without(old) /\ old' = {}
  /\ flag' = (DOMAIN packets' = {})
  /\ disturbed' = disturbed \cup old

\* At the end of the handler, at most every 5 seconds.
Collect ==
  /\ step = "collect"
  /\ step' = "idle" /\ fragment' = NoFragment
  /\ \/ Collecting /\ GarbageCollect
     \/ UNCHANGED <<store, disturbed>>
  /\ UNCHANGED <<network, buffer, handed, arrived, counters>>

\* Every 5 s without an indication (lines 115-116 of platform.c).
IdleCollect ==
  /\ step = "idle" /\ Collecting
  /\ GarbageCollect
  /\ UNCHANGED <<network, handler, buffer, handed, arrived, counters>>

----------------------------------------------------------------------------
Handle == AllocationFails \/ DuplicateIgnored \/ StoreFragment \/ Deliver
          \/ DeliverTooLong \/ Collect

ReassemblyNext ==
  \/ \E k \in Keys : NextMessage(k) \/ GrowsOld(k)
  \/ \E k \in Keys : \E f \in Whole(k) : Receive(f)
  \/ Handle
  \/ IdleCollect

\* The dispatch thread runs, time passes, and it collects when it is idle.
ReassemblySpec == /\ ReassemblyInit /\ [][ReassemblyNext]_reassemblyVars
        /\ WF_reassemblyVars(Handle) /\ WF_reassemblyVars(IdleCollect)
        /\ \A k \in Keys : WF_reassemblyVars(GrowsOld(k))

----------------------------------------------------------------------------
(* Properties                                                              *)

\* "True indicate that queue is empty" (lines 65-66): whenever the poll thread
\* sees the flag set, no fragment is stored or about to be.
EmptyFlagIsTrue == flag => DOMAIN packets = {} /\ step \notin {"store", "deliver"}

Fits(k) == length[k] <= BufferSize

\* Lines 110-244: what the callback is given is the whole of one message, in
\* whatever order its fragments came and however often, if it fits.
WholeMessages == \A k \in Keys : Fits(k) => handed[k] \subseteq {Whole(k)}

\* Lines 167-206: a message all of whose fragments came has been handed over,
\* unless the host ran out of memory, collected it, or had no callback.
NothingWithheld ==
  step = "idle" =>
    \A k \in Keys : Whole(k) \subseteq arrived /\ Fits(k) /\ k \notin disturbed => handed[k] # {}

\* Lines 313-350: when no more fragments come the flag is set again, whatever
\* was left incomplete and whichever allocation failed, so that polling can end.
FlagComesBack == ~flag ~> flag
============================================================================

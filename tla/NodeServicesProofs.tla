------------------------- MODULE NodeServicesProofs -------------------------
(***************************************************************************)
(* Proofs about NodeServices for every set of threads, every scratchpad,    *)
(* block size, duration and timeout, and any number of lost requests and    *)
(* of reboots.                                                             *)
(***************************************************************************)
EXTENDS NodeServices, SequenceTheorems, TLAPS

----------------------------------------------------------------------------
(* The inductive invariant.  Its parts about a call are predicates of the    *)
(* call and of the state it depends on: the node n, the silence s and the    *)
(* timeout T.                                                              *)

MtuPlaces == {"mtu", "store"}
Loading == {"max", "block"}
BlockTransfers == {"upload", "blocks", "download"}

\* Which call can be at which place, and what it has got there.
Shape(c) ==
  /\ c.at = "start" => c.op \in {"begin", "upload"}
  /\ c.at \in Loading => c.op \in BlockTransfers /\ Len(c.got) <= Len(c.data)
  /\ c.at \in {"start", "max", "mtu"} => c.got = << >>
  /\ c.at = "version" => c.op = "version" /\ Len(c.got) < 4
  /\ c.at \in MtuPlaces => c.op \in {"init", "state"}
  /\ c.at \in {"stop", "wait", "end"} => c.op = "stop"
  /\ c.at = "status" => c.op \in {"start", "stop"}

\* got is what whole has from base on.
Agree(got, whole, base) ==
  \A i \in 1..Len(got) : base + i <= Len(whole) /\ got[i] = whole[base + i]

\* What was moved so far is in its place.
TransferGood(c, n) == c.clean =>
  /\ c.op = "upload" /\ c.at \in Loading =>
       n.pad = [size |-> Len(c.data), octets |-> c.got] /\ Agree(c.got, c.data, 0)
  /\ c.op = "blocks" /\ c.at \in Loading =>
       /\ Agree(c.got, c.data, 0) /\ Agree(c.got, n.pad.octets, c.base)
       /\ c.got # << >> => Len(n.pad.octets) = c.base + Len(c.got)
  /\ c.op = "download" /\ c.at \in Loading => n.running \/ Agree(c.got, n.pad.octets, c.base)
  /\ c.at = "version" => Agree(c.got, Version(n.firmware), 0)

\* The time the node was silent and the time it will be do not exceed its
\* reboot, of c.base; and the status is not given up before the timeout.
Tolerated(T) == T \in 1..(DurationSpan - 1)
StopGood(c, n, s, T) == c.op = "stop" /\ c.clean =>
  /\ c.at = "stop" => s = 0 /\ n.down = 0
  /\ c.at \in {"wait", "status"} /\ n.down > 0 => s + n.down <= c.base
  /\ c.at = "status" /\ Tolerated(T) =>
       /\ c.left = T \/ c.base + c.left > T
       /\ n.down > 0 => s + c.left > T
  /\ c.at = "end" /\ c.res = "INTERNAL_ERROR" /\ Tolerated(T) => c.base > T

GoodCall(c, n, s, T) == Shape(c) /\ TransferGood(c, n) /\ StopGood(c, n, s, T)

\* The properties of what is returned, of an answer.
GoodAnswer(a, n, T) ==
  LET c == a.c
      last == c.base + Len(c.data)
      there == IF Len(n.pad.octets) < last THEN << >> ELSE SubSeq(n.pad.octets, c.base + 1, last)
  IN  /\ a.res = "OK" /\ c.clean =>
           CASE c.op = "upload"   -> n.pad = [size |-> Len(c.data), octets |-> c.data]
             [] c.op = "blocks"   -> there = c.data
             [] c.op = "download" -> n.running \/ there = c.got
             [] c.op = "version"  -> c.got = Version(n.firmware)
             [] OTHER             -> TRUE
      /\ c.op = "stop" /\ c.clean /\ a.res = "INTERNAL_ERROR" /\ Tolerated(T) => c.base > T

OpenInv == open \/ \A t \in Callers : call[t] = Idle
CallsInv == \A t \in Callers : GoodCall(call[t], node, silence, m_timeout_after_stop_task_s)
ExitInv == exited => \A t \in Callers :
  call[t].op = "stop" /\ call[t].clean => call[t].base > m_timeout_after_stop_task_s
AnswerInv == GoodAnswer(answer, node, m_timeout_after_stop_task_s)

\* No caller is about to read the MTU: it is stored, or one caller is about to
\* store it.
MtuInv ==
  /\ ~stale => \A u, v \in Callers : At(u, "store") /\ At(v, "store") => u = v
  /\ open /\ ~stale /\ node.told /\ (\A u \in Callers : ~At(u, "mtu")) =>
       \/ \E u \in Callers : At(u, "store") /\ call[u].got = <<Mtu(node.firmware)>>
       \/ (\A u \in Callers : ~At(u, "store")) /\ m_mtu = Mtu(node.firmware)

Inv == TypeOK /\ OpenInv /\ CallsInv /\ ExitInv /\ AnswerInv /\ MtuInv

----------------------------------------------------------------------------
(* Types                                                                   *)

LEMMA Times == /\ DurationSpan \in Nat \ {0} /\ StartWait \in 0..(DurationSpan - 1)
               /\ ScratchpadStartTimeout \in Nat \ {0} /\ ScratchpadBlockTimeout \in Nat \ {0}
               /\ MaxDown \in Nat
               /\ Durations \subseteq Nat
  BY TimesAssumption

\* How a request or a step of the host goes on.
Outcomes == [c : Calls, ends : BOOLEAN, res : Results]

LEMMA CallType ==
  ASSUME NEW op \in Ops, NEW at \in Places, NEW data \in Seq(Octet), NEW base \in Nat
  PROVE  /\ Call(op, at, data, base) \in Calls
         /\ Call(op, at, data, base).op = op /\ Call(op, at, data, base).at = at
         /\ Call(op, at, data, base).data = data /\ Call(op, at, data, base).base = base
         /\ Call(op, at, data, base).got = << >>
<1>1. << >> \in Seq(Octet)
  BY EmptySeq
<1>2. "" \in Results /\ 0 \in 0..(DurationSpan - 1) /\ 0 \in Nat
  BY Times DEF Results
<1>. QED BY <1>1, <1>2 DEF Call, Calls

LEMMA IdleType == /\ Idle \in Calls /\ Idle.op = "idle" /\ Idle.at = "" /\ Idle.got = << >>
                  /\ None \in [c : Calls, res : Results] /\ None.c = Idle /\ None.res = ""
<1>1. << >> \in Seq(Octet)
  BY EmptySeq
<1>2. Idle \in Calls /\ Idle.op = "idle" /\ Idle.at = "" /\ Idle.got = << >>
  <2>1. Call("idle", "", << >>, 0) \in Calls
    BY <1>1, Times DEF Call, Calls, Ops, Places, Results
  <2>. QED BY <2>1 DEF Idle, Call
<1>. QED BY <1>2 DEF None, Results

LEMMA GoesType ==
  ASSUME NEW c \in Calls
  PROVE  Goes(c) \in Outcomes /\ Goes(c).c = c /\ ~Goes(c).ends
  BY DEF Goes, Outcomes, Results

LEMMA ReturnsType ==
  ASSUME NEW c \in Calls, NEW res \in app_res_e
  PROVE  Returns(c, res) \in Outcomes /\ Returns(c, res).c = c /\ Returns(c, res).ends
         /\ Returns(c, res).res = res
  BY DEF Returns, Outcomes, Results

LEMMA DownType ==
  ASSUME NEW n \in Nat, NEW cost \in Nat
  PROVE  /\ Down(n, cost) \in Nat /\ Down(n, cost) <= n /\ Down(n, 0) = n
         /\ Down(n, cost) > 0 => Down(n, cost) + cost = n
         /\ n <= Down(n, cost) + cost
  BY DEF Down

----------------------------------------------------------------------------
(* Calls and outcomes, whatever the state                                  *)

\* A caller that does nothing shows nothing.
LEMMA IdleGood ==
  ASSUME NEW n, NEW s, NEW T
  PROVE  GoodCall(Idle, n, s, T)
  BY IdleType DEF GoodCall, Shape, TransferGood, StopGood, Loading, MtuPlaces

LEMMA NoneGood ==
  ASSUME NEW n, NEW T
  PROVE  GoodAnswer(None, n, T)
<1>1. None.res # "OK" /\ None.c.op # "stop"
  BY IdleType
<1>. QED BY <1>1 DEF GoodAnswer

\* The shape and the progress of a transfer do not depend on the time.
LEMMA ShapeSame ==
  ASSUME NEW c, NEW d, Shape(c), d.op = c.op, d.at = c.at, d.data = c.data, d.got = c.got
  PROVE  Shape(d)
  BY DEF Shape

LEMMA TransferSame ==
  ASSUME NEW c, NEW d, NEW n, NEW m, TransferGood(c, n), d.clean => c.clean,
         d.op = c.op, d.at = c.at, d.data = c.data, d.got = c.got, d.base = c.base,
         d.clean => m.pad = n.pad /\ m.firmware = n.firmware /\ (n.running => m.running)
  PROVE  TransferGood(d, m)
  BY DEF TransferGood

\* What Proceeds makes of another caller.
Watches(c, cost, disturbs) ==
  [c EXCEPT !.left = Down(@, cost),
            !.clean = @ /\ ~disturbs /\ (c.op = "stop" => cost = 0)]

LEMMA WatchesType ==
  ASSUME NEW c \in Calls, NEW cost \in Nat, NEW disturbs \in BOOLEAN
  PROVE  LET d == Watches(c, cost, disturbs)
         IN  /\ d \in Calls
             /\ d.op = c.op /\ d.at = c.at /\ d.data = c.data /\ d.got = c.got /\ d.base = c.base
             /\ d.res = c.res /\ d.left = Down(c.left, cost)
             /\ d.clean => c.clean /\ ~disturbs /\ (c.op = "stop" => cost = 0)
<1>1. c.left \in Nat /\ c.left < DurationSpan
  BY Times DEF Calls
<1>2. Down(c.left, cost) \in 0..(DurationSpan - 1)
  BY <1>1, Times DEF Down
<1>3. (c.clean /\ ~disturbs /\ (c.op = "stop" => cost = 0)) \in BOOLEAN
  OBVIOUS
<1>. QED BY <1>2, <1>3 DEF Watches, Calls

\* A stop that stays clean sees another caller's request only as an answer of
\* a node that is up, which takes no time.
LEMMA WatchesGood ==
  ASSUME NEW c \in Calls, NEW cost \in Nat, NEW disturbs \in BOOLEAN,
         NEW n \in Nodes, NEW m \in Nodes, NEW s \in Nat, NEW z \in Nat, NEW T \in Nat,
         GoodCall(c, n, s, T),
         disturbs \/ (/\ m.pad = n.pad /\ m.firmware = n.firmware /\ m.down <= n.down
                      /\ n.running => m.running),
         cost = 0 => (z = s /\ (disturbs \/ m.down = n.down)) \/ (z = 0 /\ n.down = 0)
  PROVE  GoodCall(Watches(c, cost, disturbs), m, z, T)
<1>. DEFINE d == Watches(c, cost, disturbs)
<1>1. /\ d.op = c.op /\ d.at = c.at /\ d.data = c.data /\ d.got = c.got /\ d.base = c.base
      /\ d.res = c.res /\ d.left = Down(c.left, cost)
      /\ d.clean => c.clean /\ ~disturbs /\ (c.op = "stop" => cost = 0)
  BY WatchesType
<1>. HIDE DEF d
<1>2. Shape(d) /\ TransferGood(d, m)
  BY <1>1, ShapeSame, TransferSame DEF GoodCall
<1>3. StopGood(d, m, z, T)
  <2>1. SUFFICES ASSUME d.op = "stop", d.clean PROVE StopGood(d, m, z, T)
    BY DEF StopGood
  <2>2. c.clean /\ c.op = "stop" /\ cost = 0 /\ ~disturbs
    BY <1>1, <2>1
  <2>3. d.left = c.left
    BY <1>1, <2>2, Times, DownType DEF Calls
  <2>4. m.down \in Nat /\ n.down \in Nat /\ m.down <= n.down
    BY <2>2 DEF Nodes
  <2>5. (z = s /\ m.down = n.down) \/ (z = 0 /\ n.down = 0 /\ m.down = 0)
    BY <2>2, <2>4
  <2>. QED BY <1>1, <2>2, <2>3, <2>4, <2>5 DEF GoodCall, StopGood
<1>. QED BY <1>2, <1>3 DEF GoodCall, d

GoodOutcome(r, n, s, T) ==
  IF r.ends THEN GoodAnswer([c |-> r.c, res |-> r.res], n, T) ELSE GoodCall(r.c, n, s, T)

\* A step after which caller t goes on as r says keeps what is known of every
\* call, and returns what may be returned.
LEMMA ProceedsKeeps ==
  ASSUME NEW t \in Callers, NEW r \in Outcomes, NEW cost \in Nat, NEW disturbs \in BOOLEAN,
         TypeOK, CallsInv, ~exited, Proceeds(t, r, cost, disturbs),
         node' \in Nodes, silence' \in Nat, exited' \in BOOLEAN,
         UNCHANGED m_timeout_after_stop_task_s,
         disturbs \/ (/\ node'.pad = node.pad /\ node'.firmware = node.firmware
                      /\ node'.down <= node.down /\ (node.running => node'.running)),
         cost = 0 => \/ silence' = silence /\ (disturbs \/ node'.down = node.down)
                     \/ silence' = 0 /\ node.down = 0,
         exited' => cost > 0 /\ (~r.ends /\ r.c.op = "stop" /\ r.c.clean
                                    => r.c.base > m_timeout_after_stop_task_s),
         GoodOutcome(r, node', silence', m_timeout_after_stop_task_s)
  PROVE  /\ call' \in [Callers -> Calls] /\ answer' \in [c : Calls, res : Results]
         /\ CallsInv' /\ ExitInv' /\ AnswerInv'
<1>. DEFINE T == m_timeout_after_stop_task_s
<1>1. T \in Nat /\ T' = T /\ call \in [Callers -> Calls] /\ node \in Nodes /\ silence \in Nat
  BY Times DEF TypeOK
<1>2. r.c \in Calls /\ r.res \in Results /\ r.ends \in BOOLEAN
  BY DEF Outcomes
<1>3. call'[t] = (IF r.ends THEN Idle ELSE r.c) /\ call'[t] \in Calls
  BY <1>2, IdleType DEF Proceeds
<1>4. ASSUME NEW u \in Callers, u # t
      PROVE  call'[u] = (IF call[u] = Idle THEN Idle ELSE Watches(call[u], cost, disturbs))
  BY <1>4 DEF Proceeds, Watches
<1>5. ASSUME NEW u \in Callers, u # t PROVE call'[u] \in Calls
  <2>1. PICK c \in Calls : c = call[u]
    BY <1>1
  <2>2. Watches(c, cost, disturbs) \in Calls
    BY WatchesType
  <2>3. call'[u] = (IF c = Idle THEN Idle ELSE Watches(c, cost, disturbs))
    BY <1>4, <1>5, <2>1
  <2>. QED BY <2>2, <2>3, IdleType
<1>6. call' \in [Callers -> Calls]
  <2>1. \A u \in Callers : call'[u] \in Calls
    BY <1>3, <1>5
  <2>2. call' = [u \in Callers |-> call'[u]]
    BY DEF Proceeds
  <2>. HIDE DEF Proceeds
  <2>. QED BY <2>1, <2>2
<1>7. answer' = (IF r.ends THEN [c |-> r.c, res |-> r.res] ELSE None)
  BY DEF Proceeds
<1>8. answer' \in [c : Calls, res : Results]
  BY <1>2, <1>7, IdleType
<1>9. GoodAnswer(answer', node', T)
  BY <1>2, <1>7, NoneGood DEF GoodOutcome
<1>10. GoodCall(call'[t], node', silence', T)
  BY <1>2, <1>3, IdleGood DEF GoodOutcome
<1>11. ASSUME NEW u \in Callers, u # t PROVE GoodCall(call'[u], node', silence', T)
  <2>1. CASE call[u] = Idle
    BY <2>1, <1>4, <1>11, IdleGood
  <2>2. CASE call[u] # Idle
    <3>1. call[u] \in Calls /\ GoodCall(call[u], node, silence, T)
      BY <1>1 DEF CallsInv
    <3>2. PICK c \in Calls, n \in Nodes, m \in Nodes, s \in Nat, z \in Nat, T0 \in Nat :
            c = call[u] /\ n = node /\ m = node' /\ s = silence /\ z = silence' /\ T0 = T
      BY <1>1, <3>1
    <3>3. GoodCall(c, n, s, T0)
      BY <3>1, <3>2
    <3>4. disturbs \/ (/\ m.pad = n.pad /\ m.firmware = n.firmware /\ m.down <= n.down
                       /\ n.running => m.running)
      BY <3>2
    <3>5. cost = 0 => (z = s /\ (disturbs \/ m.down = n.down)) \/ (z = 0 /\ n.down = 0)
      BY <3>2
    <3>6. GoodCall(Watches(c, cost, disturbs), m, z, T0)
      BY <3>3, <3>4, <3>5, WatchesGood
    <3>7. call'[u] = Watches(c, cost, disturbs)
      BY <2>2, <1>4, <1>11, <3>2
    <3>. QED BY <3>2, <3>6, <3>7
  <2>. QED BY <2>1, <2>2
<1>12. \A u \in Callers : GoodCall(call'[u], node', silence', T')
  BY <1>1, <1>10, <1>11
<1>13. AnswerInv'
  BY <1>1, <1>9 DEF AnswerInv
<1>14. CallsInv'
  BY <1>12 DEF CallsInv
<1>15. ExitInv'
  <2>1. ASSUME exited', NEW u \in Callers, call'[u].op = "stop", call'[u].clean
        PROVE  call'[u].base > T
    <3>1. cost > 0
      BY <2>1
    <3>2. CASE u = t
      BY <2>1, <3>2, <1>3, IdleType
    <3>3. CASE u # t
      <4>1. PICK c \in Calls : c = call[u]
        BY <1>1
      <4>2. call'[u] = Watches(c, cost, disturbs)
        BY <1>4, <2>1, <3>3, <4>1, IdleType
      <4>. QED BY <2>1, <3>1, <4>2, WatchesType
    <3>. QED BY <3>2, <3>3
  <2>. QED BY <1>1, <2>1 DEF ExitInv
<1>. QED BY <1>6, <1>8, <1>13, <1>14, <1>15

----------------------------------------------------------------------------
(* Requests                                                                *)

\* How the caller of a lost request goes on.
Late(b, cost, tidy) ==
  [b EXCEPT !.c = IF b.c = Idle THEN Idle ELSE Spent(b.c, cost, tidy)]

LEMMA LateType ==
  ASSUME NEW b \in Outcomes, NEW cost \in Nat, NEW tidy \in BOOLEAN
  PROVE  LET r == Late(b, cost, tidy)
         IN  /\ r \in Outcomes /\ r.ends = b.ends /\ r.res = b.res
             /\ r.c.op = b.c.op /\ r.c.at = b.c.at /\ r.c.data = b.c.data /\ r.c.got = b.c.got
             /\ r.c.base = b.c.base /\ r.c.res = b.c.res
             /\ b.c # Idle => r.c.left = Down(b.c.left, cost) /\ (r.c.clean => b.c.clean /\ tidy)
<1>1. b.c \in Calls
  BY DEF Outcomes
<1>2. Down(b.c.left, cost) \in 0..(DurationSpan - 1)
  <2>1. b.c.left \in 0..(DurationSpan - 1)
    BY <1>1 DEF Calls
  <2>. QED BY <2>1, Times DEF Down
<1>3. (b.c.clean /\ tidy) \in BOOLEAN
  OBVIOUS
<1>4. LET d == Spent(b.c, cost, tidy)
      IN  /\ d \in Calls /\ d.op = b.c.op /\ d.at = b.c.at /\ d.data = b.c.data /\ d.got = b.c.got
          /\ d.base = b.c.base /\ d.res = b.c.res
          /\ d.left = Down(b.c.left, cost) /\ (d.clean => b.c.clean /\ tidy)
  BY <1>1, <1>2, <1>3 DEF Spent, Calls
<1>. QED BY <1>4, IdleType DEF Late, Outcomes

\* What is right after the request was lost, if the node has become n.
Loss(b, cost, n) ==
  LET T == m_timeout_after_stop_task_s
      r == Late(b, cost, n # node \/ node.down > 0)
  IN  /\ GoodOutcome(r, [n EXCEPT !.down = Down(@, cost)], silence + cost, T)
      /\ T > 0 /\ silence + cost > T /\ ~r.ends /\ r.c.op = "stop" /\ r.c.clean => r.c.base > T

\* A request that is no part of a stop ends in an error or leaves the call
\* where nothing depends on what the node did.
Lossy(b) ==
  \/ b.ends /\ b.res # "OK" /\ b.c.op # "stop"
  \/ ~b.ends /\ Shape(b.c) /\ b.c.op \notin BlockTransfers \cup {"version", "stop"}

LEMMA LossyGood ==
  ASSUME NEW b \in Outcomes, Lossy(b), NEW cost \in Nat, NEW n \in Nodes
  PROVE  Loss(b, cost, n)
<1>. DEFINE tidy == n # node \/ node.down > 0
            r == Late(b, cost, tidy)
            m == [n EXCEPT !.down = Down(@, cost)]
<1>1. PICK q \in Outcomes : /\ q = r /\ q.ends = b.ends /\ q.res = b.res
         /\ q.c.op = b.c.op /\ q.c.at = b.c.at /\ q.c.data = b.c.data /\ q.c.got = b.c.got
  <2>1. PICK v \in BOOLEAN : v = tidy
    BY Zenon
  <2>2. Late(b, cost, v) = r
    BY <2>1
  <2>. HIDE DEF r, tidy
  <2>. QED BY <2>2, LateType
<1>. HIDE DEF r
<1>2. PICK m0 : m0 = m
  OBVIOUS
<1>3. PICK z : z = silence + cost
  OBVIOUS
<1>4. PICK T : T = m_timeout_after_stop_task_s
  OBVIOUS
<1>5. GoodOutcome(q, m0, z, T)
  <2>1. CASE b.ends
    <3>1. q.res # "OK" /\ q.c.op # "stop" /\ q.ends
      BY <1>1, <2>1 DEF Lossy
    <3>. QED BY <3>1 DEF GoodOutcome, GoodAnswer
  <2>2. CASE ~b.ends
    <3>1. ~q.ends /\ Shape(q.c) /\ q.c.op \notin BlockTransfers \cup {"version", "stop"}
      BY <1>1, <2>2, ShapeSame DEF Lossy
    <3>2. GoodCall(q.c, m0, z, T)
      BY <3>1 DEF GoodCall, Shape, TransferGood, StopGood, BlockTransfers
    <3>. QED BY <3>1, <3>2 DEF GoodOutcome
  <2>. QED BY <2>1, <2>2
<1>6. ~r.ends => r.c.op # "stop"
  BY <1>1 DEF Lossy
<1>7. GoodOutcome(r, m, silence + cost, m_timeout_after_stop_task_s)
  BY <1>1, <1>2, <1>3, <1>4, <1>5
<1>. QED BY <1>6, <1>7 DEF Loss, r

\* A request keeps what is known of every call if both its outcomes do.
LEMMA RequestKeeps ==
  ASSUME NEW t \in Callers, NEW cost \in Nat \ {0}, NEW after \in Nodes,
         NEW a \in Outcomes, NEW b \in Outcomes, Inv, Request(t, cost, after, a, b),
         node.down = 0 => GoodOutcome(a, after, 0, m_timeout_after_stop_task_s),
         Loss(b, cost, node), node.down = 0 => Loss(b, cost, after)
  PROVE  /\ node' \in Nodes /\ silence' \in Nat /\ lost' \in Nat /\ exited' \in BOOLEAN
         /\ call' \in [Callers -> Calls] /\ answer' \in [c : Calls, res : Results]
         /\ CallsInv' /\ ExitInv' /\ AnswerInv'
<1>1. /\ TypeOK /\ CallsInv /\ ~exited /\ UNCHANGED m_timeout_after_stop_task_s
      /\ node \in Nodes /\ silence \in Nat /\ lost \in Nat
  BY DEF Request, Inv, TypeOK
<1>2. CASE Answered(t, after, a)
  <2>1. /\ node' = after /\ silence' = 0 /\ node.down = 0 /\ UNCHANGED <<exited, lost>>
        /\ Proceeds(t, a, 0, Disturbs(after))
    BY <1>2 DEF Answered
  <2>2. PICK d \in BOOLEAN : d = Disturbs(after)
    BY Zenon DEF Disturbs
  <2>3. Proceeds(t, a, 0, d)
    BY <2>1, <2>2
  <2>4. d \/ (/\ node'.pad = node.pad /\ node'.firmware = node.firmware /\ node'.down <= node.down
              /\ node.running => node'.running)
    <3>1. ~d => ~Disturbs(after)
      BY <2>2, Zenon
    <3>2. ~Disturbs(after) => after.pad = node.pad /\ after.firmware = node.firmware
                              /\ after.down <= node.down /\ (node.running => after.running)
      BY <1>1 DEF Disturbs, Nodes
    <3>. QED BY <2>1, <3>1, <3>2
  <2>5. ~exited' /\ exited' \in BOOLEAN
    BY <1>1, <2>1, Zenon DEF TypeOK
  <2>6. GoodOutcome(a, node', silence', m_timeout_after_stop_task_s)
    BY <2>1
  <2>. QED BY <1>1, <2>1, <2>3, <2>4, <2>5, <2>6, ProceedsKeeps
<1>3. ASSUME NEW n \in Nodes, Lost(t, cost, n, b), Loss(b, cost, n)
      PROVE  /\ node' \in Nodes /\ silence' \in Nat /\ lost' \in Nat /\ exited' \in BOOLEAN
             /\ call' \in [Callers -> Calls] /\ answer' \in [c : Calls, res : Results]
             /\ CallsInv' /\ ExitInv' /\ AnswerInv'
  <2>. DEFINE T == m_timeout_after_stop_task_s
  <2>1. PICK v \in BOOLEAN : v = (n # node \/ node.down > 0)
    BY Zenon
  <2>2. PICK d \in BOOLEAN : d = Disturbs(n)
    BY Zenon DEF Disturbs
  <2>3. PICK r \in Outcomes : r = Late(b, cost, v)
    BY LateType
  <2>4. Proceeds(t, r, cost, d)
    BY <1>3, <2>1, <2>2, <2>3 DEF Lost, Late
  <2>5. /\ node' = [n EXCEPT !.down = Down(@, cost)] /\ silence' = silence + cost
        /\ lost' = lost + (IF node.down > 0 THEN 0 ELSE 1)
        /\ exited' = (T > 0 /\ silence' > T)
    BY <1>3 DEF Lost
  <2>6. n.down \in Nat /\ Down(n.down, cost) \in Nat /\ Down(n.down, cost) <= n.down
    BY DownType DEF Nodes
  <2>7. /\ node' \in Nodes /\ node'.pad = n.pad /\ node'.firmware = n.firmware
        /\ node'.down <= n.down /\ node'.running = n.running
    BY <2>5, <2>6 DEF Nodes
  <2>8. silence' \in Nat /\ lost' \in Nat
    BY <1>1, <2>5
  <2>9. exited' \in BOOLEAN
    BY <2>5
  <2>10. d \/ (/\ node'.pad = node.pad /\ node'.firmware = node.firmware /\ node'.down <= node.down
               /\ node.running => node'.running)
    <3>1. ~d => ~Disturbs(n)
      BY <2>2, Zenon
    <3>2. ~Disturbs(n) => /\ n.pad = node.pad /\ n.firmware = node.firmware /\ n.down <= node.down
                          /\ node.running => n.running
      BY <1>1 DEF Disturbs, Nodes
    <3>3. node.down \in Nat /\ node'.down \in Nat
      BY <1>1, <2>7 DEF Nodes
    <3>. QED BY <2>6, <2>7, <3>1, <3>2, <3>3
  <2>11. GoodOutcome(r, node', silence', T)
    BY <1>3, <2>1, <2>3, <2>5 DEF Loss
  <2>12. exited' => cost > 0 /\ (~r.ends /\ r.c.op = "stop" /\ r.c.clean => r.c.base > T)
    <3>1. exited' => T > 0 /\ silence + cost > T
      BY <2>5
    <3>2. T > 0 /\ silence + cost > T /\ ~r.ends /\ r.c.op = "stop" /\ r.c.clean => r.c.base > T
      BY <1>3, <2>1, <2>3 DEF Loss
    <3>. QED BY <3>1, <3>2
  <2>. QED BY <1>1, <2>4, <2>7, <2>8, <2>9, <2>10, <2>11, <2>12, ProceedsKeeps
<1>4. CASE Lost(t, cost, node, b)
  <2>1. PICK n \in Nodes : n = node
    BY <1>1
  <2>2. Lost(t, cost, n, b) /\ Loss(b, cost, n)
    BY <1>4, <2>1
  <2>. QED BY <1>3, <2>2
<1>5. CASE node.down = 0 /\ Lost(t, cost, after, b)
  BY <1>3, <1>5
<1>. QED BY <1>2, <1>4, <1>5 DEF Request

\* Where each caller is after one of them went on as r says.
LEMMA ProceedsPlaces ==
  ASSUME NEW t \in Callers, NEW r \in Outcomes, NEW cost \in Nat, NEW disturbs \in BOOLEAN,
         TypeOK, Proceeds(t, r, cost, disturbs)
  PROVE  /\ call'[t] = (IF r.ends THEN Idle ELSE r.c)
         /\ \A u \in Callers \ {t} : call'[u].at = call[u].at /\ call'[u].got = call[u].got
<1>1. call'[t] = (IF r.ends THEN Idle ELSE r.c)
  BY DEF Proceeds
<1>2. ASSUME NEW u \in Callers \ {t}
      PROVE  call'[u].at = call[u].at /\ call'[u].got = call[u].got
  <2>1. PICK c \in Calls : c = call[u]
    BY DEF TypeOK
  <2>2. call'[u] = (IF c = Idle THEN Idle ELSE Watches(c, cost, disturbs))
    BY <2>1 DEF Proceeds, Watches
  <2>. QED BY <2>1, <2>2, WatchesType
<1>. QED BY <1>1, <1>2

\* The same of a request.
LEMMA RequestPlaces ==
  ASSUME NEW t \in Callers, NEW cost \in Nat \ {0}, NEW after \in Nodes,
         NEW a \in Outcomes, NEW b \in Outcomes, Inv, Request(t, cost, after, a, b)
  PROVE  /\ \/ call'[t] = (IF a.ends THEN Idle ELSE a.c)
            \/ /\ call'[t].at = (IF b.ends THEN "" ELSE b.c.at)
               /\ call'[t].got = (IF b.ends THEN << >> ELSE b.c.got)
         /\ \A u \in Callers \ {t} : call'[u].at = call[u].at /\ call'[u].got = call[u].got
         /\ \/ node'.told = node.told /\ node'.firmware = node.firmware
            \/ node'.told = after.told /\ node'.firmware = after.firmware
<1>1. TypeOK
  BY DEF Inv
<1>2. CASE Answered(t, after, a)
  <2>1. node' = after /\ Proceeds(t, a, 0, Disturbs(after))
    BY <1>2 DEF Answered
  <2>2. PICK d \in BOOLEAN : d = Disturbs(after)
    BY Zenon DEF Disturbs
  <2>3. Proceeds(t, a, 0, d)
    BY <2>1, <2>2
  <2>. QED BY <1>1, <2>1, <2>3, ProceedsPlaces
<1>3. ASSUME NEW n, n = node \/ n = after, Lost(t, cost, n, b)
      PROVE  /\ call'[t].at = (IF b.ends THEN "" ELSE b.c.at)
             /\ call'[t].got = (IF b.ends THEN << >> ELSE b.c.got)
             /\ \A u \in Callers \ {t} : call'[u].at = call[u].at /\ call'[u].got = call[u].got
             /\ node'.told = n.told /\ node'.firmware = n.firmware
  <2>1. PICK v \in BOOLEAN : v = (n # node \/ node.down > 0)
    BY Zenon
  <2>2. PICK d \in BOOLEAN : d = Disturbs(n)
    BY Zenon DEF Disturbs
  <2>3. PICK r \in Outcomes : r = Late(b, cost, v)
    BY LateType
  <2>4. Proceeds(t, r, cost, d)
    BY <1>3, <2>1, <2>2, <2>3 DEF Lost, Late
  <2>5. r.ends = b.ends /\ r.c.at = b.c.at /\ r.c.got = b.c.got
    BY <2>3, LateType
  <2>6. n \in Nodes
    BY <1>1, <1>3 DEF TypeOK
  <2>7. node'.told = n.told /\ node'.firmware = n.firmware
    BY <1>3, <2>6 DEF Lost, Nodes
  <2>8. /\ call'[t] = (IF r.ends THEN Idle ELSE r.c)
        /\ \A u \in Callers \ {t} : call'[u].at = call[u].at /\ call'[u].got = call[u].got
    BY <1>1, <2>4, ProceedsPlaces
  <2>. QED BY <2>5, <2>7, <2>8, IdleType
<1>4. CASE Lost(t, cost, node, b)
  <2>1. PICK n : n = node
    OBVIOUS
  <2>2. Lost(t, cost, n, b)
    BY <1>4, <2>1
  <2>. QED BY <1>3, <2>1, <2>2
<1>5. CASE node.down = 0 /\ Lost(t, cost, after, b)
  BY <1>3, <1>5
<1>. QED BY <1>2, <1>4, <1>5 DEF Request

\* Nobody has read the MTU or comes to it, and nothing it depends on changes.
LEMMA MtuKept ==
  ASSUME MtuInv, open' => open, UNCHANGED <<m_mtu, stale>>,
         node'.told => node.told /\ node'.firmware = node.firmware,
         \A u \in Callers : \/ call'[u].at = call[u].at /\ call'[u].got = call[u].got
                            \/ {call'[u].at, call[u].at} \cap MtuPlaces = {}
  PROVE  MtuInv'
<1>1. \A u \in Callers : /\ At(u, "store")' <=> At(u, "store")
                         /\ At(u, "mtu")' <=> At(u, "mtu")
                         /\ At(u, "store") => call'[u].got = call[u].got
  BY DEF At, MtuPlaces
<1>. QED BY <1>1 DEF MtuInv

\* A request of a call that is not about the MTU.
LEMMA RequestsKeep ==
  ASSUME NEW t \in Callers, NEW cost \in Nat \ {0}, NEW after \in Nodes,
         NEW a \in Outcomes, NEW b \in Outcomes, Inv, Requests(t, cost, after, a, b),
         node.down = 0 => GoodOutcome(a, after, 0, m_timeout_after_stop_task_s),
         Loss(b, cost, node), node.down = 0 => Loss(b, cost, after),
         call[t].at \notin MtuPlaces,
         a.ends \/ a.c.at \notin MtuPlaces, b.ends \/ b.c.at \notin MtuPlaces,
         after.told => node.told /\ after.firmware = node.firmware
  PROVE  Inv'
<1>1. Request(t, cost, after, a, b) /\ UNCHANGED <<m_mtu, m_disabled_poll_request, stale>>
  BY DEF Requests
<1>2. UNCHANGED <<boots, m_timeout_after_stop_task_s, open>> /\ open
  BY <1>1 DEF Request
<1>3. /\ node' \in Nodes /\ silence' \in Nat /\ lost' \in Nat /\ exited' \in BOOLEAN
      /\ call' \in [Callers -> Calls] /\ answer' \in [c : Calls, res : Results]
      /\ CallsInv' /\ ExitInv' /\ AnswerInv'
  BY <1>1, RequestKeeps
<1>4. MtuInv'
  <2>1. call'[t].at \notin MtuPlaces
    <3>1. \/ call'[t] = (IF a.ends THEN Idle ELSE a.c)
          \/ call'[t].at = (IF b.ends THEN "" ELSE b.c.at)
      BY <1>1, RequestPlaces, ZenonT(40)
    <3>. QED BY <3>1, IdleType DEF MtuPlaces
  <2>2. node'.told => node.told /\ node'.firmware = node.firmware
    BY <1>1, RequestPlaces
  <2>3. \A u \in Callers : \/ call'[u].at = call[u].at /\ call'[u].got = call[u].got
                           \/ {call'[u].at, call[u].at} \cap MtuPlaces = {}
    <3>1. \A u \in Callers \ {t} : call'[u].at = call[u].at /\ call'[u].got = call[u].got
      BY <1>1, RequestPlaces
    <3>. QED BY <2>1, <3>1
  <2>. QED BY <1>1, <1>2, <2>2, <2>3, MtuKept DEF Inv
<1>5. TypeOK'
  BY <1>1, <1>2, <1>3 DEF Inv, TypeOK
<1>6. OpenInv'
  BY <1>2 DEF OpenInv
<1>. QED BY <1>3, <1>4, <1>5, <1>6 DEF Inv

----------------------------------------------------------------------------
(* Result codes                                                            *)

\* A table has its own entry for each code, and none for a request that was
\* not answered.
LEMMA StartCodes ==
  /\ convert_error_code(SCRATCHPAD_LOCAL_START, 0) = "OK"
  /\ convert_error_code(SCRATCHPAD_LOCAL_START, 1) = "STACK_NOT_STOPPED"
  /\ convert_error_code(SCRATCHPAD_LOCAL_START, TIMEOUT) = "INTERNAL_ERROR"
  BY DEF convert_error_code, SCRATCHPAD_LOCAL_START, TIMEOUT

LEMMA BlockCodes ==
  ASSUME NEW code \in {2, 3, 4, 5, 6, TIMEOUT}
  PROVE  convert_error_code(SCRATCHPAD_LOCAL_BLOCK, code) \in app_res_e \ {"OK"}
<1>1. /\ SCRATCHPAD_LOCAL_BLOCK[3] = "DATA_ERROR" /\ SCRATCHPAD_LOCAL_BLOCK[4] = "STACK_NOT_STOPPED"
      /\ SCRATCHPAD_LOCAL_BLOCK[5] = "NO_SCRATCHPAD_START"
      /\ SCRATCHPAD_LOCAL_BLOCK[6] = "INVALID_START_ADDRESS"
      /\ SCRATCHPAD_LOCAL_BLOCK[7] = "INVALID_NUMBER_OF_BYTES" /\ Len(SCRATCHPAD_LOCAL_BLOCK) = 8
  BY DEF SCRATCHPAD_LOCAL_BLOCK
<1>. QED BY <1>1 DEF convert_error_code, TIMEOUT, app_res_e

LEMMA BlockReadCodes ==
  ASSUME NEW code \in {2, 3, 4, 6, TIMEOUT}
  PROVE  convert_error_code(SCRATCHPAD_LOCAL_BLOCK_READ, code) \in app_res_e \ {"OK"}
<1>1. /\ SCRATCHPAD_LOCAL_BLOCK_READ[3] = "INVALID_START_ADDRESS"
      /\ SCRATCHPAD_LOCAL_BLOCK_READ[4] = "INVALID_NUMBER_OF_BYTES"
      /\ SCRATCHPAD_LOCAL_BLOCK_READ[5] = "NO_VALID_SCRATCHPAD"
      /\ Len(SCRATCHPAD_LOCAL_BLOCK_READ) = 6
  BY DEF SCRATCHPAD_LOCAL_BLOCK_READ
<1>. QED BY <1>1 DEF convert_error_code, TIMEOUT, app_res_e

LEMMA OtherCodes ==
  /\ convert_error_code(ATT_READ, TIMEOUT) = "INTERNAL_ERROR"
  /\ convert_error_code(SCRATCHPAD_CLEAR_LOCAL, TIMEOUT) = "INTERNAL_ERROR"
  /\ convert_error_code(SCRATCHPAD_CLEAR_LOCAL, 0) = "OK"
  /\ convert_error_code(SCRATCHPAD_CLEAR_LOCAL, 1) = "STACK_NOT_STOPPED"
  /\ convert_error_code(SCRATCHPAD_UPDATE_LOCAL, TIMEOUT) = "INTERNAL_ERROR"
  /\ convert_error_code(SCRATCHPAD_UPDATE_LOCAL, 0) = "OK"
  /\ convert_error_code(SCRATCHPAD_UPDATE_LOCAL, 1) = "STACK_NOT_STOPPED"
  /\ convert_error_code(SCRATCHPAD_UPDATE_LOCAL, 2) = "NO_VALID_SCRATCHPAD"
  /\ convert_error_code(SCAN_NEIGHBORS, TIMEOUT) = "INTERNAL_ERROR"
  /\ convert_error_code(SCAN_NEIGHBORS, 0) = "OK"
  /\ convert_error_code(SCAN_NEIGHBORS, 1) = "STACK_IS_STOPPED"
  BY DEF convert_error_code, TIMEOUT, ATT_READ, SCRATCHPAD_CLEAR_LOCAL, SCRATCHPAD_UPDATE_LOCAL,
         SCAN_NEIGHBORS

LEMMA ErrorTypes ==
  {"OK", "INTERNAL_ERROR", "STACK_NOT_STOPPED", "NO_VALID_SCRATCHPAD", "STACK_IS_STOPPED",
   "STACK_ALREADY_STARTED", "STACK_ALREADY_STOPPED", "ACCESS_DENIED", "NET_ADD_NOT_SET",
   "NODE_ADD_NOT_SET", "ROLE_NOT_SET"} \subseteq app_res_e
  BY DEF app_res_e

----------------------------------------------------------------------------
(* Calls of one request                                                    *)

\* What a call that is no transfer and no stop returns promises nothing, what
\* it goes on with is kept.
Plain(op) == op \notin BlockTransfers \cup {"version", "stop"}

LEMMA PlainReturns ==
  ASSUME NEW c \in Calls, NEW res \in app_res_e, Plain(c.op), NEW n, NEW s, NEW T
  PROVE  /\ Returns(c, res) \in Outcomes /\ GoodOutcome(Returns(c, res), n, s, T)
         /\ res # "OK" => Lossy(Returns(c, res))
<1>1. Returns(c, res) \in Outcomes
  BY ReturnsType
<1>2. c.op \notin {"upload", "blocks", "download", "version", "stop"}
  BY DEF Plain, BlockTransfers
<1>3. GoodAnswer([c |-> c, res |-> res], n, T)
  BY <1>1, <1>2 DEF GoodAnswer
<1>. QED BY <1>1, <1>2, <1>3 DEF GoodOutcome, Returns, Lossy

LEMMA PlainGoes ==
  ASSUME NEW c \in Calls, Plain(c.op), Shape(c), NEW n, NEW s, NEW T
  PROVE  Goes(c) \in Outcomes /\ GoodOutcome(Goes(c), n, s, T) /\ Lossy(Goes(c))
<1>1. Goes(c) \in Outcomes
  BY GoesType
<1>2. GoodCall(c, n, s, T)
  BY DEF GoodCall, TransferGood, StopGood, Shape, Plain, BlockTransfers
<1>. QED BY <1>1, <1>2 DEF GoodOutcome, Goes, Lossy, Plain

LEMMA NodeType ==
  ASSUME NEW n \in Nodes
  PROVE  /\ [n EXCEPT !.running = TRUE] \in Nodes /\ [n EXCEPT !.marked = TRUE] \in Nodes
         /\ [n EXCEPT !.told = TRUE] \in Nodes
         /\ [n EXCEPT !.pad = NoPad, !.marked = FALSE] \in Nodes
         /\ \A d \in Nat : [n EXCEPT !.down = d] \in Nodes
         /\ \A size \in Nat, o \in Seq(Octet) :
              [n EXCEPT !.pad = [size |-> size, octets |-> o]] \in Nodes
         /\ \A o \in Seq(Octet) : [n EXCEPT !.pad.octets = o] \in Nodes
<1>1. << >> \in Seq(Octet)
  BY EmptySeq
<1>. QED BY <1>1 DEF Nodes, NoPad

LEMMA BareCall ==
  ASSUME NEW op \in Ops, NEW at \in Places
  PROVE  /\ Call(op, at, << >>, 0) \in Calls
         /\ Call(op, at, << >>, 0).op = op /\ Call(op, at, << >>, 0).at = at
         /\ Call(op, at, << >>, 0).got = << >>
<1>1. PICK data \in Seq(Octet) : data = << >>
  BY EmptySeq
<1>2. PICK base \in Nat : base = 0
  OBVIOUS
<1>3. PICK c \in Calls : c = Call(op, at, data, base) /\ c.op = op /\ c.at = at /\ c.got = << >>
  BY CallType
<1>. QED BY <1>1, <1>2, <1>3

\* A plain request: all it needs is that each outcome is a plain one.
LEMMA PlainRequest ==
  ASSUME NEW t \in Callers, NEW cost \in Nat \ {0}, NEW after \in Nodes,
         NEW a \in Outcomes, NEW b \in Outcomes, Inv, Requests(t, cost, after, a, b),
         GoodOutcome(a, after, 0, m_timeout_after_stop_task_s), Lossy(b),
         call[t].at \notin MtuPlaces,
         a.ends \/ a.c.at \notin MtuPlaces, b.ends \/ b.c.at \notin MtuPlaces,
         after.told => node.told /\ after.firmware = node.firmware
  PROVE  Inv'
<1>1. Loss(b, cost, node) /\ Loss(b, cost, after)
  <2>1. PICK n \in Nodes : n = node
    BY DEF Inv, TypeOK
  <2>2. Loss(b, cost, n) /\ Loss(b, cost, after)
    BY LossyGood
  <2>. QED BY <2>1, <2>2
<1>. QED BY <1>1, RequestsKeep

\* One that ends the call.
LEMMA PlainService ==
  ASSUME NEW t \in Callers, NEW cost \in Nat \ {0}, NEW after \in Nodes, NEW c \in Calls,
         NEW res \in app_res_e, NEW err \in app_res_e \ {"OK"}, Plain(c.op), Inv,
         Requests(t, cost, after, Returns(c, res), Returns(c, err)), call[t].at \notin MtuPlaces,
         after.told = node.told, after.firmware = node.firmware
  PROVE  Inv'
<1>1. PICK a \in Outcomes : a = Returns(c, res) /\ a.ends
  BY ReturnsType
<1>2. PICK b \in Outcomes : b = Returns(c, err) /\ b.ends
  BY ReturnsType
<1>3. PICK T : T = m_timeout_after_stop_task_s
  OBVIOUS
<1>4. GoodOutcome(a, after, 0, T)
  BY <1>1, PlainReturns
<1>5. GoodOutcome(a, after, 0, m_timeout_after_stop_task_s)
  BY <1>3, <1>4
<1>6. Lossy(b)
  BY <1>2, PlainReturns
<1>7. Requests(t, cost, after, a, b)
  BY <1>1, <1>2
<1>. QED BY <1>1, <1>2, <1>5, <1>6, <1>7, PlainRequest

\* What a thread that does nothing is to these lemmas.
LEMMA IdleThread ==
  ASSUME Inv, NEW t \in Threads
  PROVE  /\ t \in Callers /\ node \in Nodes
         /\ call[t] = Idle => call[t].at \notin MtuPlaces
  BY IdleType DEF Callers, Inv, TypeOK, MtuPlaces

LEMMA InvClear ==
  ASSUME Inv, NEW t \in Threads, ClearLocalScratchpad(t)
  PROVE  Inv'
<1>1. t \in Callers /\ node \in Nodes /\ call[t].at \notin MtuPlaces
  BY IdleThread DEF ClearLocalScratchpad
<1>2. PICK c \in Calls : c = Call("clear", "", << >>, 0) /\ Plain(c.op)
  <2>1. PICK op \in Ops, at \in Places : op = "clear" /\ at = ""
    BY DEF Ops, Places
  <2>2. PICK c \in Calls : c = Call(op, at, << >>, 0) /\ c.op = op
    BY BareCall
  <2>. QED BY <2>1, <2>2 DEF Plain, BlockTransfers
<1>3. PICK after \in Nodes, res \in app_res_e, err \in app_res_e \ {"OK"} :
        /\ after.told = node.told /\ after.firmware = node.firmware
        /\ Requests(t, ScratchpadStartTimeout, after, Returns(c, res), Returns(c, err))
  <2>1. PICK err \in app_res_e \ {"OK"} :
          err = convert_error_code(SCRATCHPAD_CLEAR_LOCAL, TIMEOUT)
    BY OtherCodes, ErrorTypes
  <2>2. CASE node.running
    <3>1. PICK res \in app_res_e : res = convert_error_code(SCRATCHPAD_CLEAR_LOCAL, 1)
      BY OtherCodes, ErrorTypes
    <3>2. PICK n \in Nodes : n = node
      BY <1>1
    <3>3. Requests(t, ScratchpadStartTimeout, n, Returns(c, res), Returns(c, err))
      BY <1>2, <2>1, <2>2, <3>1, <3>2 DEF ClearLocalScratchpad
    <3>. QED BY <3>2, <3>3
  <2>3. CASE ~node.running
    <3>1. PICK res \in app_res_e : res = convert_error_code(SCRATCHPAD_CLEAR_LOCAL, 0)
      BY OtherCodes, ErrorTypes
    <3>2. PICK n \in Nodes : /\ n = [node EXCEPT !.pad = NoPad, !.marked = FALSE]
                             /\ n.told = node.told /\ n.firmware = node.firmware
      <4>1. [node EXCEPT !.pad = NoPad, !.marked = FALSE] \in Nodes
        BY <1>1, NodeType
      <4>. QED BY <1>1, <4>1 DEF Nodes
    <3>3. Requests(t, ScratchpadStartTimeout, n, Returns(c, res), Returns(c, err))
      BY <1>2, <2>1, <2>3, <3>1, <3>2 DEF ClearLocalScratchpad, OK
    <3>. QED BY <3>2, <3>3
  <2>. QED BY <2>2, <2>3
<1>. QED BY <1>1, <1>2, <1>3, Times, PlainService

LEMMA InvUpdate ==
  ASSUME Inv, NEW t \in Threads, UpdateLocalScratchpad(t)
  PROVE  Inv'
<1>1. t \in Callers /\ node \in Nodes /\ call[t].at \notin MtuPlaces
  BY IdleThread DEF UpdateLocalScratchpad
<1>2. PICK c \in Calls : c = Call("update", "", << >>, 0) /\ Plain(c.op)
  <2>1. PICK op \in Ops, at \in Places : op = "update" /\ at = ""
    BY DEF Ops, Places
  <2>2. PICK c \in Calls : c = Call(op, at, << >>, 0) /\ c.op = op
    BY BareCall
  <2>. QED BY <2>1, <2>2 DEF Plain, BlockTransfers
<1>3. PICK code \in {0, 1, 2} :
        code = IF node.running THEN 1 ELSE IF Complete(node.pad) THEN 0 ELSE 2
  OBVIOUS
<1>4. PICK res \in app_res_e : res = convert_error_code(SCRATCHPAD_UPDATE_LOCAL, code)
  BY OtherCodes, ErrorTypes
<1>5. PICK err \in app_res_e \ {"OK"} : err = convert_error_code(SCRATCHPAD_UPDATE_LOCAL, TIMEOUT)
  BY OtherCodes, ErrorTypes
<1>6. PICK after \in Nodes : /\ after = IF code = 0 THEN [node EXCEPT !.marked = TRUE] ELSE node
                             /\ after.told = node.told /\ after.firmware = node.firmware
  <2>1. [node EXCEPT !.marked = TRUE] \in Nodes
    BY <1>1, NodeType
  <2>. QED BY <1>1, <2>1 DEF Nodes
<1>7. PICK cost \in Nat \ {0} : cost = 1
  OBVIOUS
<1>8. Requests(t, cost, after, Returns(c, res), Returns(c, err))
  BY <1>2, <1>3, <1>4, <1>5, <1>6, <1>7 DEF UpdateLocalScratchpad
<1>. QED BY <1>1, <1>2, <1>6, <1>8, PlainService

LEMMA InvScan ==
  ASSUME Inv, NEW t \in Threads, StartScanNeighbors(t)
  PROVE  Inv'
<1>1. t \in Callers /\ node \in Nodes /\ call[t].at \notin MtuPlaces
  BY IdleThread DEF StartScanNeighbors
<1>2. PICK c \in Calls : c = Call("scan", "", << >>, 0) /\ Plain(c.op)
  <2>1. PICK op \in Ops, at \in Places : op = "scan" /\ at = ""
    BY DEF Ops, Places
  <2>2. PICK c \in Calls : c = Call(op, at, << >>, 0) /\ c.op = op
    BY BareCall
  <2>. QED BY <2>1, <2>2 DEF Plain, BlockTransfers
<1>3. PICK code \in {0, 1} : code = IF node.running THEN 0 ELSE 1
  OBVIOUS
<1>4. PICK res \in app_res_e : res = convert_error_code(SCAN_NEIGHBORS, code)
  BY OtherCodes, ErrorTypes
<1>5. PICK err \in app_res_e \ {"OK"} : err = convert_error_code(SCAN_NEIGHBORS, TIMEOUT)
  BY OtherCodes, ErrorTypes
<1>6. PICK after \in Nodes : after = node
  BY <1>1
<1>7. PICK cost \in Nat \ {0} : cost = 1
  OBVIOUS
<1>8. Requests(t, cost, after, Returns(c, res), Returns(c, err))
  BY <1>2, <1>3, <1>4, <1>5, <1>6, <1>7 DEF StartScanNeighbors
<1>. QED BY <1>1, <1>2, <1>6, <1>8, PlainService

----------------------------------------------------------------------------
(* Start and stop                                                          *)

LEMMA InvStart ==
  ASSUME Inv, NEW t \in Threads, StartStack(t)
  PROVE  Inv'
<1>1. t \in Callers /\ node \in Nodes /\ call[t].at \notin MtuPlaces
  BY IdleThread DEF StartStack
<1>2. PICK c \in Calls : c = Call("start", "", << >>, 0) /\ c.op = "start" /\ c.at = "" /\ Plain(c.op)
  <2>1. PICK op \in Ops, at \in Places : op = "start" /\ at = ""
    BY DEF Ops, Places
  <2>2. PICK c \in Calls : c = Call(op, at, << >>, 0) /\ c.op = op /\ c.at = at
    BY BareCall
  <2>. QED BY <2>1, <2>2 DEF Plain, BlockTransfers
<1>3. PICK code \in (IF node.running THEN {1} ELSE {0} \cup Missing) :
        Requests(t, 1, IF code = 0 THEN [node EXCEPT !.running = TRUE] ELSE node,
                 StartResult(c, code), StartResult(c, TIMEOUT))
  BY <1>2 DEF StartStack
<1>4. PICK after \in Nodes :
        /\ after = IF code = 0 THEN [node EXCEPT !.running = TRUE] ELSE node
        /\ after.told = node.told /\ after.firmware = node.firmware
  <2>1. [node EXCEPT !.running = TRUE] \in Nodes
    BY <1>1, NodeType
  <2>. QED BY <1>1, <2>1 DEF Nodes
<1>5. PICK d \in Calls : /\ d = [c EXCEPT !.at = "status", !.left = StartWait]
                         /\ d.op = "start" /\ d.at = "status"
  <2>1. "status" \in Places /\ StartWait \in 0..(DurationSpan - 1)
    BY Times DEF Places
  <2>2. [c EXCEPT !.at = "status", !.left = StartWait] \in Calls
    BY <2>1 DEF Calls
  <2>. QED BY <1>2, <2>2 DEF Calls
<1>6. \E res \in app_res_e : StartResult(c, code) = Returns(c, res) \/ StartResult(c, code) = Goes(d)
  BY <1>5, ErrorTypes DEF StartResult
<1>7. StartResult(c, TIMEOUT) = Returns(c, "INTERNAL_ERROR")
  BY DEF StartResult, TIMEOUT
<1>8. PICK T : T = m_timeout_after_stop_task_s
  OBVIOUS
<1>9. PICK a \in Outcomes : /\ a = StartResult(c, code) /\ GoodOutcome(a, after, 0, T)
                            /\ a.ends \/ a.c.at \notin MtuPlaces
  <2>1. Plain(d.op) /\ Shape(d) /\ d.at \notin MtuPlaces
    BY <1>5 DEF Plain, Shape, BlockTransfers, Loading, MtuPlaces
  <2>2. PICK g \in Outcomes : g = Goes(d) /\ GoodOutcome(g, after, 0, T) /\ g.c = d
    BY <2>1, PlainGoes, GoesType
  <2>3. ASSUME NEW res \in app_res_e
        PROVE  \E q \in Outcomes : q = Returns(c, res) /\ GoodOutcome(q, after, 0, T) /\ q.ends
    BY <1>2, PlainReturns, ReturnsType
  <2>. QED BY <1>6, <2>1, <2>2, <2>3
<1>10. PICK b \in Outcomes : b = StartResult(c, TIMEOUT) /\ Lossy(b) /\ b.ends
  <2>1. PICK err \in app_res_e : err = "INTERNAL_ERROR"
    BY ErrorTypes
  <2>2. Returns(c, err) \in Outcomes /\ Lossy(Returns(c, err)) /\ Returns(c, err).ends
    BY <1>2, <2>1, PlainReturns, ReturnsType
  <2>. QED BY <1>7, <2>1, <2>2
<1>11. GoodOutcome(a, after, 0, m_timeout_after_stop_task_s)
  BY <1>8, <1>9
<1>12. PICK cost \in Nat \ {0} : cost = 1
  OBVIOUS
<1>13. Requests(t, cost, after, a, b)
  BY <1>3, <1>4, <1>9, <1>10, <1>12
<1>. QED BY <1>1, <1>4, <1>9, <1>10, <1>11, <1>13, PlainRequest

\* A status that is not answered while the node reboots: its silence grows as
\* its reboot shrinks, and so does what is left of the timeout.
LEMMA StatusLost ==
  ASSUME NEW c \in Calls, NEW n \in Nodes, NEW m \in Nodes, NEW s \in Nat, NEW T \in Nat, NEW d \in Calls,
         c.op = "stop", c.at = "status", c.left > 0, StopGood(c, n, s, T), n.down > 0,
         m.down = Down(n.down, 1), c.clean,
         d.op = c.op, d.at = c.at, d.base = c.base, d.left = Down(c.left, 1)
  PROVE  StopGood(d, m, s + 1, T) /\ (s + 1 > T /\ T > 0 => d.base > T)
<1>1. /\ n.down \in Nat /\ c.base \in Nat /\ c.left \in Nat
      /\ m.down = n.down - 1 /\ d.left = c.left - 1
  <2>1. n.down \in Nat /\ c.base \in Nat /\ c.left \in Nat
    BY Times DEF Nodes, Calls
  <2>. QED BY <2>1 DEF Down
<1>2. s + n.down <= c.base
  BY DEF StopGood
<1>3. Tolerated(T) => (c.left = T \/ c.base + c.left > T) /\ s + c.left > T
  BY DEF StopGood
<1>. QED BY <1>1, <1>2, <1>3 DEF StopGood

\* A lost request of a stop, from what it leaves of the call.
LEMMA StopLost ==
  ASSUME NEW d \in Calls, d.op = "stop", Shape(d), NEW cost \in Nat \ {0}, NEW n \in Nodes, NEW m \in Nodes,
         m = [n EXCEPT !.down = Down(@, cost)],
         \A q \in Calls :
           /\ q.clean /\ q.op = d.op /\ q.at = d.at /\ q.base = d.base /\ q.res = d.res
           /\ q.left = Down(d.left, cost) /\ d.clean /\ (n # node \/ node.down > 0)
           => /\ StopGood(q, m, silence + cost, m_timeout_after_stop_task_s)
              /\ m_timeout_after_stop_task_s > 0 /\ silence + cost > m_timeout_after_stop_task_s
                   => q.base > m_timeout_after_stop_task_s
  PROVE  Loss(Goes(d), cost, n)
<1>1. PICK v \in BOOLEAN : v = (n # node \/ node.down > 0)
  BY Zenon
<1>2. PICK b \in Outcomes : b = Goes(d) /\ b.c = d /\ ~b.ends
  BY GoesType
<1>3. PICK r \in Outcomes :
        /\ r = Late(b, cost, v) /\ ~r.ends
        /\ r.c.op = d.op /\ r.c.at = d.at /\ r.c.data = d.data /\ r.c.got = d.got
        /\ r.c.base = d.base /\ r.c.res = d.res
        /\ r.c.left = Down(d.left, cost) /\ (r.c.clean => d.clean /\ v)
  <2>1. d # Idle
    BY IdleType
  <2>. QED BY <1>2, <2>1, LateType
<1>4. PICK q \in Calls : q = r.c
  BY <1>3 DEF Outcomes
<1>5. PICK T : T = m_timeout_after_stop_task_s
  OBVIOUS
<1>6. PICK z : z = silence + cost
  OBVIOUS
<1>7. q.clean => v /\ StopGood(q, m, z, T) /\ (T > 0 /\ z > T => q.base > T)
  BY <1>1, <1>3, <1>4, <1>5, <1>6
<1>8. Shape(q) /\ q.op = "stop"
  BY <1>3, <1>4, ShapeSame
<1>9. TransferGood(q, m)
  BY <1>8 DEF TransferGood, Shape, Loading, BlockTransfers
<1>10. StopGood(q, m, z, T)
  BY <1>7 DEF StopGood
<1>11. GoodOutcome(r, m, z, T)
  BY <1>3, <1>4, <1>8, <1>9, <1>10 DEF GoodOutcome, GoodCall
<1>12. r = Late(Goes(d), cost, n # node \/ node.down > 0)
  BY <1>1, <1>2, <1>3
<1>. QED BY <1>3, <1>4, <1>5, <1>6, <1>7, <1>11, <1>12 DEF Loss

LEMMA InvReadStatus ==
  ASSUME Inv, NEW t \in Threads, ReadStatus(t)
  PROVE  Inv'
<1>1. t \in Callers /\ node \in Nodes /\ silence \in Nat /\ m_timeout_after_stop_task_s \in Nat
      /\ call \in [Callers -> Calls]
  BY Times DEF Callers, Inv, TypeOK
<1>2. PICK c \in Calls, n \in Nodes, s \in Nat, T \in Nat :
        c = call[t] /\ n = node /\ s = silence /\ T = m_timeout_after_stop_task_s
  BY <1>1
<1>3. c.at = "status" /\ c.left > 0 /\ c.op \in {"start", "stop"} /\ Shape(c) /\ StopGood(c, n, s, T)
  <2>1. GoodCall(c, n, s, T)
    BY <1>1, <1>2 DEF Inv, CallsInv
  <2>. QED BY <1>2, <2>1 DEF ReadStatus, At, GoodCall, Shape
<1>4. PICK cost \in Nat \ {0} : cost = 1
  OBVIOUS
<1>5. Requests(t, cost, n, StatusEnds(c, "OK"), Goes(c))
  BY <1>2, <1>4 DEF ReadStatus, OK, TIMEOUT
<1>6. PICK b \in Outcomes : b = Goes(c) /\ b.c = c /\ ~b.ends
  BY GoesType
<1>7. c.at \notin MtuPlaces
  BY <1>3 DEF MtuPlaces
<1>8. CASE c.op = "start"
  <2>1. Plain(c.op)
    BY <1>8 DEF Plain, BlockTransfers
  <2>2. PICK res \in app_res_e : res = "OK"
    BY ErrorTypes
  <2>3. PICK a \in Outcomes : a = Returns(c, res) /\ a.ends
    BY ReturnsType
  <2>4. GoodOutcome(a, n, 0, T) /\ Lossy(b)
    BY <1>3, <1>6, <2>1, <2>3, PlainReturns, PlainGoes
  <2>5. Requests(t, cost, n, a, b)
    BY <1>5, <1>6, <1>8, <2>2, <2>3 DEF StatusEnds
  <2>. QED BY <1>1, <1>2, <1>6, <1>7, <2>3, <2>4, <2>5, PlainRequest
<1>9. CASE c.op = "stop"
  <2>1. PICK d \in Calls : d = [c EXCEPT !.at = "end", !.res = "OK"] /\ d.op = "stop" /\ d.at = "end"
                           /\ d.res = "OK"
    <3>1. "end" \in Places /\ "OK" \in Results
      BY DEF Places, Results, app_res_e
    <3>2. [c EXCEPT !.at = "end", !.res = "OK"] \in Calls
      BY <3>1 DEF Calls
    <3>. QED BY <1>9, <3>2 DEF Calls
  <2>2. PICK a \in Outcomes : a = Goes(d) /\ a.c = d /\ ~a.ends
    BY GoesType
  <2>3. GoodOutcome(a, n, 0, T) /\ a.c.at \notin MtuPlaces
    <3>1. GoodCall(d, n, 0, T)
      BY <2>1 DEF GoodCall, Shape, TransferGood, StopGood, Loading, MtuPlaces, BlockTransfers
    <3>. QED BY <2>1, <2>2, <3>1 DEF GoodOutcome, MtuPlaces
  <2>4. Requests(t, cost, n, a, b)
    BY <1>5, <1>6, <1>9, <2>1, <2>2 DEF StatusEnds
  <2>5. PICK m \in Nodes : m = [n EXCEPT !.down = Down(@, cost)] /\ m.down = Down(n.down, 1)
    <3>1. n.down \in Nat /\ Down(n.down, cost) \in Nat
      BY DownType DEF Nodes
    <3>2. [n EXCEPT !.down = Down(@, cost)] \in Nodes
      BY <3>1 DEF Nodes
    <3>3. [n EXCEPT !.down = Down(@, cost)].down = Down(n.down, 1)
      BY <1>4 DEF Nodes
    <3>. QED BY <3>2, <3>3
  <2>6. ASSUME NEW q \in Calls,
               q.clean, q.op = c.op, q.at = c.at, q.base = c.base, q.left = Down(c.left, cost),
               c.clean, n.down > 0
        PROVE  StopGood(q, m, s + cost, T) /\ (T > 0 /\ s + cost > T => q.base > T)
    <3>1. q.left = Down(c.left, 1)
      BY <1>4, <2>6
    <3>2. StopGood(q, m, s + 1, T) /\ (s + 1 > T /\ T > 0 => q.base > T)
      BY <1>3, <1>9, <2>5, <2>6, <3>1, StatusLost
    <3>. QED BY <1>4, <3>2
  <2>7. Loss(Goes(c), cost, n)
    BY <1>2, <1>3, <1>9, <2>5, <2>6, StopLost
  <2>. QED BY <1>1, <1>2, <1>6, <1>7, <2>2, <2>3, <2>4, <2>7, RequestsKeep
<1>. QED BY <1>3, <1>8, <1>9

LEMMA RebootType ==
  ASSUME NEW r \in Nat, node \in Nodes
  PROVE  /\ Rebooted(r) \in Nodes /\ Rebooted(r).down = r /\ Rebooted(r).told = FALSE
         /\ ~Rebooted(r).running
<1>1. NoPad \in [size : Nat, octets : Seq(Octet)]
  BY EmptySeq DEF NoPad
<1>2. (IF Complete(node.pad) THEN node.pad ELSE NoPad) \in [size : Nat, octets : Seq(Octet)]
  BY <1>1 DEF Nodes
<1>3. (IF node.marked THEN 1 - node.firmware ELSE node.firmware) \in {0, 1}
  BY DEF Nodes
<1>. QED BY <1>2, <1>3 DEF Rebooted, Nodes

\* A stop whose request was executed waits for its own reboot; one that was
\* refused ends with what the node said.
LEMMA InvRequestStop ==
  ASSUME Inv, NEW t \in Threads, RequestStop(t)
  PROVE  Inv'
<1>1. t \in Callers /\ node \in Nodes /\ silence \in Nat /\ m_timeout_after_stop_task_s \in Nat
      /\ call \in [Callers -> Calls]
  BY Times DEF Callers, Inv, TypeOK
<1>2. PICK c \in Calls, n \in Nodes, s \in Nat, T \in Nat :
        c = call[t] /\ n = node /\ s = silence /\ T = m_timeout_after_stop_task_s
  BY <1>1
<1>3. c.at = "stop" /\ c.op = "stop" /\ (c.clean => s = 0 /\ n.down = 0)
  <2>1. GoodCall(c, n, s, T)
    BY <1>1, <1>2 DEF Inv, CallsInv
  <2>. QED BY <1>2, <2>1 DEF RequestStop, At, GoodCall, Shape, StopGood
<1>4. PICK cost \in Nat \ {0} : cost = 1
  OBVIOUS
<1>5. PICK r \in 1..MaxDown :
        LET Then(res) == StopResult([c EXCEPT !.base = r], res)
        IN  \/ Requests(t, 1, Rebooted(r), Then(0), Then(TIMEOUT))
            \/ r = 1 /\ Requests(t, 1, node, Then(1), Then(TIMEOUT))
            \/ r = 1 /\ Requests(t, 1, node, Then(128), Then(TIMEOUT))
  BY <1>2 DEF RequestStop, OK
<1>6. r \in Nat
  BY Times
<1>7. PICK e \in Calls : e = [c EXCEPT !.base = r] /\ e.op = "stop" /\ e.base = r /\ (e.clean => c.clean)
  <2>1. [c EXCEPT !.base = r] \in Calls
    BY <1>6 DEF Calls
  <2>. QED BY <1>3, <2>1 DEF Calls
<1>8. PICK d \in Calls : /\ d = [e EXCEPT !.at = "wait"] /\ d.op = "stop" /\ d.at = "wait" /\ d.base = r
                         /\ d.clean => c.clean
  <2>1. "wait" \in Places
    BY DEF Places
  <2>2. [e EXCEPT !.at = "wait"] \in Calls
    BY <2>1 DEF Calls
  <2>. QED BY <1>7, <2>2 DEF Calls
<1>9. StopResult(e, 0) = Goes(d) /\ StopResult(e, TIMEOUT) = Goes(d)
  BY <1>8 DEF StopResult, TIMEOUT
<1>10. PICK b \in Outcomes : b = Goes(d) /\ b.c = d /\ ~b.ends /\ b.c.at \notin MtuPlaces
  BY <1>8, GoesType DEF MtuPlaces
<1>11. Shape(d)
  BY <1>8 DEF Shape, Loading, MtuPlaces
<1>12. c.at \notin MtuPlaces
  BY <1>3 DEF MtuPlaces
<1>13. Loss(b, cost, n)
  <2>1. PICK m \in Nodes : m = [n EXCEPT !.down = Down(@, cost)]
    <3>1. n.down \in Nat /\ Down(n.down, cost) \in Nat
      BY DownType DEF Nodes
    <3>. QED BY <3>1 DEF Nodes
  <2>2. ~(d.clean /\ (n # node \/ node.down > 0))
    BY <1>2, <1>3, <1>8
  <2>3. Loss(Goes(d), cost, n)
    BY <1>8, <1>11, <2>1, <2>2, StopLost
  <2>. QED BY <1>10, <2>3
<1>14. CASE Requests(t, 1, Rebooted(r), StopResult(e, 0), StopResult(e, TIMEOUT))
  <2>1. PICK after \in Nodes : after = Rebooted(r) /\ after.down = r /\ after.told = FALSE
    BY <1>1, <1>6, RebootType
  <2>2. GoodOutcome(b, after, 0, T)
    <3>1. GoodCall(d, after, 0, T)
      BY <1>6, <1>8, <1>11, <2>1
         DEF GoodCall, Shape, TransferGood, StopGood, Loading, BlockTransfers
    <3>. QED BY <1>10, <3>1 DEF GoodOutcome
  <2>3. Loss(b, cost, after)
    <3>1. PICK m \in Nodes : m = [after EXCEPT !.down = Down(@, cost)] /\ m.down = Down(r, 1)
      <4>1. after.down \in Nat /\ Down(after.down, cost) \in Nat
        BY DownType DEF Nodes
      <4>2. [after EXCEPT !.down = Down(@, cost)] \in Nodes
        BY <4>1 DEF Nodes
      <4>3. [after EXCEPT !.down = Down(@, cost)].down = Down(r, 1)
        BY <1>4, <2>1 DEF Nodes
      <4>. QED BY <4>2, <4>3
    <3>2. ASSUME NEW q \in Calls, q.op = d.op, q.at = d.at, q.base = d.base, d.clean
          PROVE  StopGood(q, m, s + cost, T) /\ (T > 0 /\ s + cost > T => q.base > T)
      <4>1. s = 0 /\ m.down + 1 <= r + 1 /\ (m.down > 0 => m.down + 1 = r)
        BY <1>3, <1>6, <1>8, <3>1, <3>2 DEF Down
      <4>2. m.down \in Nat
        BY DEF Nodes
      <4>3. s + cost = 1
        BY <1>4, <4>1
      <4>4. StopGood(q, m, 1, T)
        BY <1>6, <1>8, <3>2, <4>1, <4>2 DEF StopGood
      <4>. QED BY <4>3, <4>4
    <3>3. Loss(Goes(d), cost, after)
      BY <1>2, <1>8, <1>11, <3>1, <3>2, StopLost
    <3>. QED BY <1>10, <3>3
  <2>4. Requests(t, cost, after, b, b)
    BY <1>4, <1>9, <1>10, <1>14, <2>1
  <2>. QED BY <1>1, <1>2, <1>10, <1>12, <1>13, <2>1, <2>2, <2>3, <2>4, RequestsKeep
<1>15. ASSUME NEW code \in {1, 128},
              Requests(t, 1, node, StopResult(e, code), StopResult(e, TIMEOUT))
       PROVE  Inv'
  <2>1. PICK res \in {"STACK_ALREADY_STOPPED", "ACCESS_DENIED"} :
          StopResult(e, code) = Goes([e EXCEPT !.at = "end", !.res = res])
    BY DEF StopResult
  <2>2. PICK f \in Calls : /\ f = [e EXCEPT !.at = "end", !.res = res]
                           /\ f.op = "stop" /\ f.at = "end" /\ f.res = res
    <3>1. "end" \in Places /\ res \in Results
      BY DEF Places, Results, app_res_e
    <3>2. [e EXCEPT !.at = "end", !.res = res] \in Calls
      BY <3>1 DEF Calls
    <3>. QED BY <1>7, <3>2 DEF Calls
  <2>3. PICK a \in Outcomes : a = Goes(f) /\ a.c = f /\ ~a.ends
    BY GoesType
  <2>4. GoodOutcome(a, n, 0, T) /\ a.c.at \notin MtuPlaces
    <3>1. GoodCall(f, n, 0, T)
      BY <2>2 DEF GoodCall, Shape, TransferGood, StopGood, Loading, MtuPlaces, BlockTransfers
    <3>. QED BY <2>2, <2>3, <3>1 DEF GoodOutcome, MtuPlaces
  <2>5. Requests(t, cost, n, a, b)
    BY <1>2, <1>4, <1>9, <1>10, <1>15, <2>1, <2>2, <2>3
  <2>. QED BY <1>1, <1>2, <1>10, <1>12, <1>13, <2>3, <2>4, <2>5, RequestsKeep
<1>. QED BY <1>5, <1>7, <1>14, <1>15

\* A step of the host that is no request and not about the MTU: waiting takes
\* time, everything else takes none.
LEMMA HostKeeps ==
  ASSUME Inv, NEW t \in Callers, NEW r \in Outcomes, NEW cost \in Nat, NEW d \in BOOLEAN,
         Proceeds(t, r, cost, d),
         UNCHANGED <<open, m_mtu, m_timeout_after_stop_task_s, exited, lost, stale, boots>>,
         m_disabled_poll_request' \in BOOLEAN, ~exited,
         node' \in Nodes, node'.pad = node.pad, node'.firmware = node.firmware,
         node'.running = node.running, node'.told = node.told, node'.down = Down(node.down, cost), silence' = silence + cost,
         GoodOutcome(r, node', silence', m_timeout_after_stop_task_s),
         call[t].at \notin MtuPlaces, call[t] # Idle, r.c.at \notin MtuPlaces
  PROVE  Inv'
<1>1. TypeOK /\ CallsInv /\ OpenInv /\ node \in Nodes /\ silence \in Nat
  BY DEF Inv, TypeOK
<1>2. open
  BY <1>1 DEF OpenInv
<1>3. node'.down <= node.down /\ (cost = 0 => node'.down = node.down /\ silence' = silence)
  <2>1. PICK k \in Nat : k = node.down
    BY <1>1 DEF Nodes
  <2>2. Down(k, cost) <= k /\ Down(k, 0) = k
    BY DownType
  <2>. QED BY <1>1, <2>1, <2>2
<1>4. silence' \in Nat /\ exited' \in BOOLEAN /\ ~exited'
  <2>1. silence' \in Nat
    BY <1>1
  <2>2. exited' \in BOOLEAN /\ ~exited'
    BY <1>1, Zenon DEF TypeOK
  <2>. QED BY <2>1, <2>2
<1>5. /\ call' \in [Callers -> Calls] /\ answer' \in [c : Calls, res : Results]
      /\ CallsInv' /\ ExitInv' /\ AnswerInv'
  BY <1>1, <1>3, <1>4, ProceedsKeeps
<1>6. MtuInv'
  <2>1. /\ call'[t] = (IF r.ends THEN Idle ELSE r.c)
        /\ \A u \in Callers \ {t} : call'[u].at = call[u].at /\ call'[u].got = call[u].got
    BY <1>1, ProceedsPlaces
  <2>2. call'[t].at \notin MtuPlaces
    BY <2>1, IdleType DEF MtuPlaces
  <2>3. \A u \in Callers : \/ call'[u].at = call[u].at /\ call'[u].got = call[u].got
                           \/ {call'[u].at, call[u].at} \cap MtuPlaces = {}
    BY <2>1, <2>2
  <2>. QED BY <1>2, <2>3, MtuKept DEF Inv
<1>7. TypeOK'
  BY <1>1, <1>4, <1>5 DEF TypeOK
<1>8. OpenInv'
  BY <1>2 DEF OpenInv
<1>. QED BY <1>5, <1>6, <1>7, <1>8 DEF Inv

\* A call that begins.
LEMMA BeginKeeps ==
  ASSUME Inv, NEW t \in Callers, NEW c \in Calls, Begins(t, c),
         UNCHANGED <<node, open, m_mtu, m_timeout_after_stop_task_s, line, stale, boots>>,
         m_disabled_poll_request' \in BOOLEAN,
         GoodCall(c, node, silence, m_timeout_after_stop_task_s), c.at \notin MtuPlaces
  PROVE  Inv'
<1>1. /\ open /\ ~exited /\ call[t] = Idle /\ answer' = None
      /\ TypeOK /\ call \in [Callers -> Calls] /\ UNCHANGED <<silence, exited, lost>>
  BY DEF Begins, Inv, TypeOK, line
<1>2. call' \in [Callers -> Calls] /\ call'[t] = c /\ \A u \in Callers \ {t} : call'[u] = call[u]
  BY <1>1 DEF Begins
<1>3. CallsInv'
  <2>1. \A u \in Callers : GoodCall(call[u], node, silence, m_timeout_after_stop_task_s)
    BY DEF Inv, CallsInv
  <2>2. \A u \in Callers : GoodCall(call'[u], node, silence, m_timeout_after_stop_task_s)
    BY <1>2, <2>1
  <2>. QED BY <1>1, <2>2 DEF CallsInv
<1>4. AnswerInv'
  BY <1>1, NoneGood DEF AnswerInv
<1>5. ExitInv'
  BY <1>1 DEF ExitInv
<1>6. MtuInv'
  <2>1. \A u \in Callers : \/ call'[u].at = call[u].at /\ call'[u].got = call[u].got
                           \/ {call'[u].at, call[u].at} \cap MtuPlaces = {}
    BY <1>1, <1>2, IdleType DEF MtuPlaces
  <2>. QED BY <1>1, <2>1, MtuKept DEF Inv
<1>7. TypeOK'
  BY <1>1, <1>2, IdleType DEF TypeOK
<1>8. OpenInv'
  BY <1>1 DEF OpenInv
<1>. QED BY <1>3, <1>4, <1>5, <1>6, <1>7, <1>8 DEF Inv

LEMMA InvStopStack ==
  ASSUME Inv, NEW t \in Threads, StopStack(t)
  PROVE  Inv'
<1>1. t \in Callers /\ node \in Nodes /\ silence \in Nat
  BY DEF Callers, Inv, TypeOK
<1>2. PICK e \in Calls : e = Call("stop", "stop", << >>, 0) /\ e.op = "stop" /\ e.at = "stop"
  <2>1. PICK op \in Ops, at \in Places : op = "stop" /\ at = "stop"
    BY DEF Ops, Places
  <2>2. PICK c \in Calls : c = Call(op, at, << >>, 0) /\ c.op = op /\ c.at = at
    BY BareCall
  <2>. QED BY <2>1, <2>2
<1>3. PICK v \in BOOLEAN : v = (silence = 0 /\ node.down = 0)
  BY Zenon
<1>4. PICK c \in Calls : /\ c = [e EXCEPT !.clean = v] /\ c.op = "stop" /\ c.at = "stop" /\ c.clean = v
  <2>1. [e EXCEPT !.clean = v] \in Calls
    BY DEF Calls
  <2>. QED BY <1>2, <2>1 DEF Calls
<1>5. Begins(t, c)
  BY <1>2, <1>3, <1>4 DEF StopStack
<1>6. PICK n, s, T : n = node /\ s = silence /\ T = m_timeout_after_stop_task_s
  OBVIOUS
<1>7. GoodCall(c, n, s, T)
  BY <1>3, <1>4, <1>6 DEF GoodCall, Shape, TransferGood, StopGood, Loading, MtuPlaces, BlockTransfers
<1>. QED BY <1>1, <1>4, <1>5, <1>6, <1>7, BeginKeeps DEF StopStack, MtuPlaces

\* The timeout is whole if it fits the counter.
LEMMA Whole ==
  ASSUME NEW T \in Nat
  PROVE  timeout_s(T) \in 0..(DurationSpan - 1) /\ (Tolerated(T) => timeout_s(T) = T)
<1>1. PICK D \in Nat \ {0} : D = DurationSpan
  BY Times
<1>2. T % D \in 0..(D - 1) /\ (T \in 1..(D - 1) => T % D = T)
  OBVIOUS
<1>. QED BY <1>1, <1>2 DEF timeout_s, Tolerated

LEMMA InvWaitAfterStop ==
  ASSUME Inv, NEW t \in Threads, WaitAfterStop(t)
  PROVE  Inv'
<1>1. t \in Callers /\ node \in Nodes /\ silence \in Nat /\ m_timeout_after_stop_task_s \in Nat
      /\ call \in [Callers -> Calls] /\ m_disabled_poll_request \in BOOLEAN
  BY Times DEF Callers, Inv, TypeOK
<1>2. PICK c \in Calls, n \in Nodes, s \in Nat, T \in Nat :
        c = call[t] /\ n = node /\ s = silence /\ T = m_timeout_after_stop_task_s
  BY <1>1
<1>3. c.at = "wait" /\ c.op = "stop" /\ StopGood(c, n, s, T)
  <2>1. GoodCall(c, n, s, T)
    BY <1>1, <1>2 DEF Inv, CallsInv
  <2>. QED BY <1>2, <2>1 DEF WaitAfterStop, At, GoodCall, Shape
<1>4. PICK d \in Calls : /\ d = [c EXCEPT !.at = "status", !.left = timeout_s(T)]
                         /\ d.op = "stop" /\ d.at = "status" /\ d.left = timeout_s(T)
                         /\ d.base = c.base /\ d.clean = c.clean
  <2>1. "status" \in Places /\ timeout_s(T) \in 0..(DurationSpan - 1)
    BY Whole DEF Places
  <2>2. [c EXCEPT !.at = "status", !.left = timeout_s(T)] \in Calls
    BY <2>1 DEF Calls
  <2>. QED BY <1>3, <2>2 DEF Calls
<1>5. PICK r \in Outcomes : r = Goes(d) /\ r.c = d /\ ~r.ends
  BY GoesType
<1>6. PICK cost \in Nat : cost = 1
  OBVIOUS
<1>7. PICK v \in BOOLEAN : Proceeds(t, r, cost, v)
  BY <1>2, <1>4, <1>5, <1>6 DEF WaitAfterStop
<1>8. PICK m \in Nodes : /\ m = node' /\ m.down = Down(n.down, 1) /\ m.pad = n.pad
                         /\ m.firmware = n.firmware /\ m.told = n.told /\ m.running = n.running
  <2>1. n.down \in Nat /\ Down(n.down, 1) \in Nat
    BY DownType DEF Nodes
  <2>2. [n EXCEPT !.down = Down(@, 1)] \in Nodes
    BY <2>1 DEF Nodes
  <2>. QED BY <1>2, <2>2 DEF WaitAfterStop, Nodes
<1>9. GoodCall(d, m, s + 1, T)
  <2>1. n.down \in Nat /\ m.down \in Nat /\ c.base \in Nat /\ (m.down > 0 => m.down + 1 = n.down)
    BY <1>8 DEF Down, Nodes, Calls
  <2>2. Tolerated(T) => d.left = T
    BY <1>4, Whole
  <2>3. StopGood(d, m, s + 1, T)
    BY <1>3, <1>4, <2>1, <2>2 DEF StopGood
  <2>. QED BY <1>4, <2>3 DEF GoodCall, Shape, TransferGood, Loading, MtuPlaces, BlockTransfers
<1>10. silence' = s + cost /\ s + cost = s + 1 /\ m.down = Down(n.down, cost)
  BY <1>2, <1>6, <1>8 DEF WaitAfterStop
<1>11. GoodOutcome(r, node', silence', m_timeout_after_stop_task_s)
  BY <1>2, <1>5, <1>8, <1>9, <1>10 DEF GoodOutcome
<1>12. UNCHANGED <<open, m_mtu, m_timeout_after_stop_task_s, exited, lost, stale, boots, m_disabled_poll_request>>
       /\ ~exited
  BY DEF WaitAfterStop, host
<1>13. call[t].at \notin MtuPlaces /\ call[t] # Idle /\ r.c.at \notin MtuPlaces
  BY <1>2, <1>3, <1>4, <1>5, IdleType DEF MtuPlaces
<1>. QED BY <1>1, <1>2, <1>7, <1>8, <1>10, <1>11, <1>12, <1>13, HostKeeps

\* One that takes no time.
LEMMA InstantKeeps ==
  ASSUME Inv, NEW t \in Callers, NEW r \in Outcomes, Proceeds(t, r, 0, FALSE),
         UNCHANGED <<node, open, m_mtu, m_timeout_after_stop_task_s, line, stale, boots>>,
         m_disabled_poll_request' \in BOOLEAN, ~exited,
         GoodOutcome(r, node, silence, m_timeout_after_stop_task_s),
         call[t].at \notin MtuPlaces, call[t] # Idle, r.c.at \notin MtuPlaces
  PROVE  Inv'
<1>1. PICK cost \in Nat : cost = 0
  OBVIOUS
<1>2. PICK d \in BOOLEAN : Proceeds(t, r, cost, d)
  BY <1>1
<1>3. node \in Nodes /\ silence \in Nat
  BY DEF Inv, TypeOK
<1>4. Down(node.down, cost) = node.down
  <2>1. PICK k \in Nat : k = node.down
    BY <1>3 DEF Nodes
  <2>2. Down(k, 0) = k
    BY DownType
  <2>. QED BY <1>1, <2>1, <2>2
<1>5. silence + cost = silence
  BY <1>1, <1>3
<1>6. /\ UNCHANGED <<open, m_mtu, m_timeout_after_stop_task_s, exited, lost, stale, boots>>
      /\ node' = node /\ silence' = silence
  BY DEF line
<1>7. /\ node' \in Nodes /\ node'.pad = node.pad /\ node'.firmware = node.firmware
      /\ node'.told = node.told /\ node'.down = Down(node.down, cost) /\ silence' = silence + cost
      /\ GoodOutcome(r, node', silence', m_timeout_after_stop_task_s)
  BY <1>3, <1>4, <1>5, <1>6
<1>. QED BY <1>2, <1>6, <1>7, HostKeeps

LEMMA InvStatusTimesOut ==
  ASSUME Inv, NEW t \in Threads, StatusTimesOut(t)
  PROVE  Inv'
<1>1. t \in Callers /\ node \in Nodes /\ silence \in Nat /\ m_timeout_after_stop_task_s \in Nat
      /\ call \in [Callers -> Calls] /\ m_disabled_poll_request \in BOOLEAN
  BY Times DEF Callers, Inv, TypeOK
<1>2. PICK c \in Calls, n \in Nodes, s \in Nat, T \in Nat :
        c = call[t] /\ n = node /\ s = silence /\ T = m_timeout_after_stop_task_s
  BY <1>1
<1>3. c.at = "status" /\ c.left = 0 /\ c.op \in {"start", "stop"} /\ Shape(c) /\ StopGood(c, n, s, T)
  <2>1. GoodCall(c, n, s, T)
    BY <1>1, <1>2 DEF Inv, CallsInv
  <2>. QED BY <1>2, <2>1 DEF StatusTimesOut, At, GoodCall, Shape
<1>4. PICK r \in Outcomes : /\ r = StatusEnds(c, "INTERNAL_ERROR") /\ r.c.at \notin MtuPlaces
                            /\ GoodOutcome(r, n, s, T)
  <2>1. CASE c.op = "start"
    <3>1. PICK res \in app_res_e : res = "INTERNAL_ERROR"
      BY ErrorTypes
    <3>2. PICK r \in Outcomes : r = Returns(c, res) /\ r.c = c /\ GoodOutcome(r, n, s, T)
      BY <2>1, PlainReturns, ReturnsType DEF Plain, BlockTransfers
    <3>. QED BY <1>3, <2>1, <3>1, <3>2 DEF StatusEnds, MtuPlaces
  <2>2. CASE c.op = "stop"
    <3>1. PICK d \in Calls : /\ d = [c EXCEPT !.at = "end", !.res = "INTERNAL_ERROR"]
                             /\ d.op = "stop" /\ d.at = "end" /\ d.base = c.base
                             /\ (d.clean => c.clean)
      <4>1. "end" \in Places /\ "INTERNAL_ERROR" \in Results
        BY DEF Places, Results, app_res_e
      <4>2. [c EXCEPT !.at = "end", !.res = "INTERNAL_ERROR"] \in Calls
        BY <4>1 DEF Calls
      <4>. QED BY <2>2, <4>2 DEF Calls
    <3>2. PICK r \in Outcomes : r = Goes(d) /\ r.c = d /\ ~r.ends
      BY GoesType
    <3>3. StopGood(d, n, s, T)
      <4>1. c.base \in Nat
        BY DEF Calls
      <4>2. c.clean /\ Tolerated(T) => c.base > T
        BY <1>3, <2>2, <4>1 DEF StopGood, Tolerated
      <4>. QED BY <3>1, <4>2 DEF StopGood
    <3>4. GoodOutcome(r, n, s, T)
      BY <3>1, <3>2, <3>3 DEF GoodOutcome, GoodCall, Shape, TransferGood, Loading, MtuPlaces, BlockTransfers
    <3>. QED BY <2>2, <3>1, <3>2, <3>4 DEF StatusEnds, MtuPlaces
  <2>. QED BY <1>3, <2>1, <2>2
<1>5. Proceeds(t, r, 0, FALSE)
  BY <1>2, <1>4 DEF StatusTimesOut
<1>6. GoodOutcome(r, node, silence, m_timeout_after_stop_task_s)
  BY <1>2, <1>4
<1>7. /\ UNCHANGED <<node, open, m_mtu, m_timeout_after_stop_task_s, line, stale, boots>>
      /\ m_disabled_poll_request' = m_disabled_poll_request /\ ~exited
  BY DEF StatusTimesOut, host
<1>8. call[t].at \notin MtuPlaces /\ call[t] # Idle
  BY <1>2, <1>3, IdleType DEF MtuPlaces
<1>. QED BY <1>1, <1>4, <1>5, <1>6, <1>7, <1>8, InstantKeeps

LEMMA InvStopEnds ==
  ASSUME Inv, NEW t \in Threads, StopEnds(t)
  PROVE  Inv'
<1>1. t \in Callers /\ node \in Nodes /\ silence \in Nat /\ m_timeout_after_stop_task_s \in Nat
      /\ call \in [Callers -> Calls]
  BY Times DEF Callers, Inv, TypeOK
<1>2. PICK c \in Calls, n \in Nodes, s \in Nat, T \in Nat :
        c = call[t] /\ n = node /\ s = silence /\ T = m_timeout_after_stop_task_s
  BY <1>1
<1>3. c.at = "end" /\ c.op = "stop" /\ StopGood(c, n, s, T)
  <2>1. GoodCall(c, n, s, T)
    BY <1>1, <1>2 DEF Inv, CallsInv
  <2>. QED BY <1>2, <2>1 DEF StopEnds, At, GoodCall, Shape
<1>4. PICK r \in Outcomes : r = Returns(c, c.res) /\ r.c = c /\ r.ends /\ r.res = c.res
  <2>1. c.res \in Results
    BY DEF Calls
  <2>2. [c |-> c, ends |-> TRUE, res |-> c.res] \in Outcomes
    BY <2>1 DEF Outcomes
  <2>. QED BY <2>2 DEF Returns
<1>5. GoodOutcome(r, n, s, T)
  <2>1. GoodAnswer([c |-> c, res |-> c.res], n, T)
    BY <1>3 DEF GoodAnswer, StopGood
  <2>. QED BY <1>4, <2>1 DEF GoodOutcome
<1>6. Proceeds(t, r, 0, FALSE)
  BY <1>2, <1>4 DEF StopEnds
<1>7. GoodOutcome(r, node, silence, m_timeout_after_stop_task_s)
  BY <1>2, <1>5
<1>8. /\ UNCHANGED <<node, open, m_mtu, m_timeout_after_stop_task_s, line, stale, boots>>
      /\ m_disabled_poll_request' \in BOOLEAN /\ ~exited
  BY DEF StopEnds
<1>9. call[t].at \notin MtuPlaces /\ call[t] # Idle /\ r.c.at \notin MtuPlaces
  BY <1>2, <1>3, <1>4, IdleType DEF MtuPlaces
<1>. QED BY <1>1, <1>6, <1>7, <1>8, <1>9, InstantKeeps

----------------------------------------------------------------------------
(* Transfers                                                               *)

LEMMA ExistingSubSeq ==
  ASSUME NEW w \in Seq(Octet), NEW i \in Nat, NEW k \in Nat, i + k <= Len(w)
  PROVE  LET b == SubSeq(w, i + 1, i + k)
         IN  b \in Seq(Octet) /\ Len(b) = k /\ \A j \in 1..k : b[j] = w[i + j]
<1>1. Len(w) \in Nat /\ \A j \in 1..Len(w) : w[j] \in Octet
  BY LenProperties
<1>2. \A j \in (i + 1)..(i + k) : w[j] \in Octet
  BY <1>1
<1>3. /\ SubSeq(w, i + 1, i + k) \in Seq(Octet)
      /\ Len(SubSeq(w, i + 1, i + k)) = IF i + 1 <= i + k THEN i + k - (i + 1) + 1 ELSE 0
      /\ \A j \in 1..(i + k - (i + 1) + 1) : SubSeq(w, i + 1, i + k)[j] = w[i + 1 + j - 1]
  BY <1>2, SubSeqProperties
<1>. QED BY <1>3

\* What agrees with the whole from its start and is as long is the whole.
LEMMA AgreeAll ==
  ASSUME NEW g \in Seq(Octet), NEW w \in Seq(Octet), Agree(g, w, 0), Len(g) = Len(w)
  PROVE  g = w
<1>1. Len(g) \in Nat /\ \A i \in 1..Len(g) : g[i] = w[i]
  BY LenProperties DEF Agree
<1>. QED BY <1>1, SeqEqual

\* The place of what agrees with w from base on holds it.
LEMMA AgreeThere ==
  ASSUME NEW g \in Seq(Octet), NEW w \in Seq(Octet), NEW base \in Nat, Agree(g, w, base)
  PROVE  (IF Len(w) < base + Len(g) THEN << >> ELSE SubSeq(w, base + 1, base + Len(g))) = g
<1>1. PICK k \in Nat, l \in Nat : k = Len(g) /\ l = Len(w)
  BY LenProperties
<1>2. CASE l < base + k
  <2>1. k = 0
    BY <1>1, <1>2 DEF Agree
  <2>2. g = << >>
    BY <1>1, <2>1, EmptySeq, SeqEqual
  <2>. QED BY <1>1, <1>2, <2>2
<1>3. CASE ~(l < base + k)
  <2>1. PICK b \in Seq(Octet) : /\ b = SubSeq(w, base + 1, base + k) /\ Len(b) = k
                                /\ \A j \in 1..k : b[j] = w[base + j]
    <3>1. base + k <= Len(w)
      BY <1>1, <1>3
    <3>. QED BY <3>1, ExistingSubSeq
  <2>2. b = g
    BY <1>1, <2>1, SeqEqual DEF Agree
  <2>. QED BY <1>1, <1>3, <2>1, <2>2
<1>. QED BY <1>2, <1>3

\* More of the whole agrees if it is what comes next.
LEMMA AgreeMore ==
  ASSUME NEW g \in Seq(Octet), NEW b \in Seq(Octet), NEW w \in Seq(Octet), NEW base \in Nat,
         Agree(g, w, base), base + Len(g) + Len(b) <= Len(w),
         \A j \in 1..Len(b) : b[j] = w[base + Len(g) + j]
  PROVE  Agree(g \o b, w, base)
<1>1. PICK k \in Nat, l \in Nat : k = Len(g) /\ l = Len(b)
  BY LenProperties
<1>2. /\ Len(g \o b) = k + l
      /\ \A i \in 1..(k + l) : (g \o b)[i] = IF i <= k THEN g[i] ELSE b[i - k]
  BY <1>1, ConcatProperties
<1>3. ASSUME NEW i \in 1..(k + l) PROVE (g \o b)[i] = w[base + i]
  <2>1. CASE i <= k
    BY <1>1, <1>2, <1>3, <2>1 DEF Agree
  <2>2. CASE ~(i <= k)
    <3>1. i - k \in 1..l /\ base + k + (i - k) = base + i
      BY <1>3, <2>2
    <3>. QED BY <1>1, <1>2, <1>3, <2>2, <3>1
  <2>. QED BY <2>1, <2>2
<1>4. \A i \in 1..(k + l) : base + i <= Len(w)
  BY <1>1, LenProperties
<1>. QED BY <1>1, <1>2, <1>3, <1>4 DEF Agree

\* What agrees with w and ends where w ends does so when both get the same.
LEMMA AgreeBoth ==
  ASSUME NEW g \in Seq(Octet), NEW b \in Seq(Octet), NEW w \in Seq(Octet), NEW base \in Nat,
         Agree(g, w, base), Len(w) = base + Len(g)
  PROVE  Agree(g \o b, w \o b, base) /\ Len(w \o b) = base + Len(g \o b)
<1>1. PICK k \in Nat, l \in Nat : k = Len(g) /\ l = Len(b)
  BY LenProperties
<1>2. /\ Len(g \o b) = k + l
      /\ \A i \in 1..(k + l) : (g \o b)[i] = IF i <= k THEN g[i] ELSE b[i - k]
  BY <1>1, ConcatProperties
<1>3. /\ Len(w \o b) = base + k + l
      /\ \A i \in 1..(base + k + l) : (w \o b)[i] = IF i <= base + k THEN w[i] ELSE b[i - (base + k)]
  <2>1. PICK m \in Nat : m = Len(w) /\ m = base + k
    BY <1>1
  <2>2. /\ Len(w \o b) = m + l
        /\ \A i \in 1..(m + l) : (w \o b)[i] = IF i <= m THEN w[i] ELSE b[i - m]
    <3>1. /\ Len(w \o b) = Len(w) + Len(b)
          /\ \A i \in 1..(Len(w) + Len(b)) : (w \o b)[i] = IF i <= Len(w) THEN w[i] ELSE b[i - Len(w)]
      BY ConcatProperties, ZenonT(40)
    <3>. QED BY <1>1, <2>1, <3>1
  <2>. QED BY <2>1, <2>2
<1>4. ASSUME NEW i \in 1..(k + l)
      PROVE  base + i <= base + k + l /\ (g \o b)[i] = (w \o b)[base + i]
  <2>1. base + i \in 1..(base + k + l) /\ (base + i) - (base + k) = i - k
    BY <1>4
  <2>2. CASE i <= k
    BY <1>1, <1>2, <1>3, <1>4, <2>1, <2>2 DEF Agree
  <2>3. CASE ~(i <= k)
    <3>1. ~(base + i <= base + k) /\ base + i <= base + k + l
      BY <1>4, <2>3
    <3>2. (w \o b)[base + i] = b[(base + i) - (base + k)]
      BY <1>3, <2>1, <3>1
    <3>3. (g \o b)[i] = b[i - k]
      BY <1>2, <1>4, <2>3
    <3>. QED BY <2>1, <3>1, <3>2, <3>3
  <2>. QED BY <1>4, <2>2, <2>3
<1>. QED BY <1>1, <1>2, <1>3, <1>4 DEF Agree

\* What TransferGood says of a call that is loading.
Moved(c, n) == c.clean =>
  /\ c.op = "upload" => n.pad = [size |-> Len(c.data), octets |-> c.got] /\ Agree(c.got, c.data, 0)
  /\ c.op = "blocks" => /\ Agree(c.got, c.data, 0) /\ Agree(c.got, n.pad.octets, c.base)
                        /\ c.got # << >> => Len(n.pad.octets) = c.base + Len(c.got)
  /\ c.op = "download" => n.running \/ Agree(c.got, n.pad.octets, c.base)

\* The loop over the blocks ends when everything is in its place.
LEMMA LoadsGood ==
  ASSUME NEW c \in Calls, c.op \in BlockTransfers, c.at \in Loading, Len(c.got) <= Len(c.data),
         NEW n \in Nodes, NEW s, NEW T, Moved(c, n)
  PROVE  Loads(c) \in Outcomes /\ GoodOutcome(Loads(c), n, s, T) /\ Loads(c).c.at \notin MtuPlaces
<1>1. /\ c.data \in Seq(Octet) /\ c.got \in Seq(Octet) /\ c.base \in Nat
      /\ n.pad.octets \in Seq(Octet) /\ c.op # "stop" /\ c.op # "version"
  BY DEF Calls, Nodes, BlockTransfers
<1>2. CASE Len(c.got) = Len(c.data)
  <2>1. PICK r \in Outcomes : r = Returns(c, "OK") /\ r.c = c /\ r.ends /\ r.res = "OK"
    <3>1. PICK res \in app_res_e : res = "OK"
      BY ErrorTypes
    <3>. QED BY <3>1, ReturnsType
  <2>2. Agree(c.got, c.data, 0) => c.got = c.data
    BY <1>1, <1>2, AgreeAll
  <2>3. Agree(c.got, n.pad.octets, c.base) =>
          (IF Len(n.pad.octets) < c.base + Len(c.data) THEN << >>
           ELSE SubSeq(n.pad.octets, c.base + 1, c.base + Len(c.data))) = c.got
    <3>1. PICK w \in Seq(Octet), g \in Seq(Octet), base \in Nat :
            w = n.pad.octets /\ g = c.got /\ base = c.base
      BY <1>1
    <3>2. Agree(g, w, base) =>
            (IF Len(w) < base + Len(g) THEN << >> ELSE SubSeq(w, base + 1, base + Len(g))) = g
      BY AgreeThere
    <3>. QED BY <1>2, <3>1, <3>2
  <2>4. GoodAnswer([c |-> c, res |-> "OK"], n, T)
    BY <1>1, <1>2, <2>2, <2>3 DEF GoodAnswer, Moved, BlockTransfers
  <2>5. GoodOutcome(r, n, s, T)
    BY <2>1, <2>4 DEF GoodOutcome
  <2>. QED BY <1>2, <2>1, <2>5 DEF Loads, Loading, MtuPlaces
<1>3. CASE Len(c.got) # Len(c.data)
  <2>1. PICK d \in Calls : /\ d = [c EXCEPT !.at = "block"] /\ d.at = "block" /\ d.op = c.op
                           /\ d.data = c.data /\ d.got = c.got /\ d.base = c.base /\ d.clean = c.clean
    <3>1. "block" \in Places
      BY DEF Places
    <3>2. [c EXCEPT !.at = "block"] \in Calls
      BY <3>1 DEF Calls
    <3>. QED BY <3>2 DEF Calls
  <2>2. PICK r \in Outcomes : r = Goes(d) /\ r.c = d /\ ~r.ends
    BY GoesType
  <2>3. Shape(d)
    BY <2>1 DEF Shape, Loading, MtuPlaces
  <2>4. TransferGood(d, n)
    BY <2>1 DEF TransferGood, Moved
  <2>5. StopGood(d, n, s, T)
    BY <1>1, <2>1 DEF StopGood
  <2>6. GoodOutcome(r, n, s, T)
    BY <2>2, <2>3, <2>4, <2>5 DEF GoodOutcome, GoodCall
  <2>. QED BY <1>3, <2>1, <2>2, <2>6 DEF Loads, MtuPlaces
<1>. QED BY <1>2, <1>3

\* A refused or unanswered request of a transfer promises nothing.
LEMMA TransferFails ==
  ASSUME NEW c \in Calls, c.op # "stop", NEW res \in app_res_e \ {"OK"}, NEW n, NEW s, NEW T
  PROVE  /\ Returns(c, res) \in Outcomes /\ Returns(c, res).c = c /\ Returns(c, res).ends
         /\ GoodOutcome(Returns(c, res), n, s, T) /\ Lossy(Returns(c, res))
<1>1. Returns(c, res) \in Outcomes
  BY ReturnsType
<1>2. GoodAnswer([c |-> c, res |-> res], n, T)
  BY DEF GoodAnswer
<1>. QED BY <1>1, <1>2 DEF GoodOutcome, Returns, Lossy

\* A transfer that has just begun has moved nothing.
LEMMA FreshGood ==
  ASSUME NEW c, NEW n, NEW s, NEW T, c.got = << >>, c.data \in Seq(Octet),
         \/ c.at = "version" /\ c.op = "version"
         \/ c.at = "start" /\ c.op \in {"begin", "upload"}
         \/ c.at = "max" /\ c.op \in {"blocks", "download"}
  PROVE  GoodCall(c, n, s, T) /\ c.at \notin MtuPlaces
<1>1. Len(c.got) = 0 /\ Len(c.data) \in Nat
  BY LenProperties, EmptySeq
<1>2. \A w, base : Agree(c.got, w, base)
  BY <1>1 DEF Agree
<1>3. Shape(c)
  BY <1>1 DEF Shape, Loading, MtuPlaces, BlockTransfers
<1>4. TransferGood(c, n) /\ StopGood(c, n, s, T)
  BY <1>2 DEF TransferGood, StopGood, Loading
<1>. QED BY <1>3, <1>4 DEF GoodCall, MtuPlaces

LEMMA InvBeginTransfer ==
  ASSUME Inv, NEW t \in Threads, BeginTransfer(t)
  PROVE  Inv'
<1>1. t \in Callers /\ m_disabled_poll_request \in BOOLEAN
  BY DEF Callers, Inv, TypeOK
<1>2. PICK c \in Transfers : Begins(t, c)
  BY DEF BeginTransfer
<1>3. PICK op \in Ops, at \in Places, data \in Seq(Octet), base \in Nat :
        /\ c = Call(op, at, data, base)
        /\ \/ at = "version" /\ op = "version"
           \/ at = "start" /\ op \in {"begin", "upload"}
           \/ at = "max" /\ op \in {"blocks", "download"}
  <2>1. {"version", "begin", "upload", "blocks", "download"} \subseteq Ops
        /\ {"version", "start", "max"} \subseteq Places /\ << >> \in Seq(Octet) /\ 0 \in Nat /\ 1 \in Nat
    BY EmptySeq DEF Ops, Places
  <2>2. \A i \in Images : i \in Seq(Octet)
    BY ImagesAssumption
  <2>3. CASE c = Call("version", "version", << >>, 0)
    BY <2>1, <2>3
  <2>4. CASE \E op \in {"begin", "upload"}, i \in Images : c = Call(op, "start", i, 0)
    BY <2>1, <2>2, <2>4
  <2>5. CASE \E i \in Images, b \in {0, BlockMax} : c = Call("blocks", "max", SubSeq(i, b + 1, Len(i)), b)
    <3>1. PICK i \in Images, b \in {0, BlockMax} : c = Call("blocks", "max", SubSeq(i, b + 1, Len(i)), b)
      BY <2>5
    <3>2. b \in Nat /\ i \in Seq(Octet) /\ Len(i) \in Nat /\ \A j \in 1..Len(i) : i[j] \in Octet
      BY <2>2, SizesAssumption, LenProperties
    <3>3. SubSeq(i, b + 1, Len(i)) \in Seq(Octet)
      <4>1. b + 1 \in Int /\ Len(i) \in Int /\ \A j \in (b + 1)..Len(i) : i[j] \in Octet
        BY <3>2
      <4>. QED BY <4>1, SubSeqProperties
    <3>. QED BY <2>1, <3>1, <3>2, <3>3
  <2>6. CASE \E len \in {3}, b \in {0, 1} : c = Call("download", "max", [n \in 1..len |-> 0], b)
    <3>1. [n \in 1..3 |-> 0] \in Seq(Octet)
      BY DEF Octet
    <3>. QED BY <2>1, <2>6, <3>1
  <2>. QED BY <2>3, <2>4, <2>5, <2>6 DEF Transfers
<1>4. c \in Calls /\ c.op = op /\ c.at = at /\ c.got = << >> /\ c.data = data
  BY <1>3, CallType
<1>5. PICK n, s, T : n = node /\ s = silence /\ T = m_timeout_after_stop_task_s
  OBVIOUS
<1>6. GoodCall(c, n, s, T) /\ c.at \notin MtuPlaces
  BY <1>3, <1>4, FreshGood
<1>7. UNCHANGED <<node, open, m_mtu, m_timeout_after_stop_task_s, line, stale, boots>>
      /\ m_disabled_poll_request' = m_disabled_poll_request
  BY DEF BeginTransfer, host
<1>. QED BY <1>1, <1>2, <1>4, <1>5, <1>6, <1>7, BeginKeeps

\* A call of a transfer, for the lemmas below.
LEMMA TransferCall ==
  ASSUME Inv, NEW t \in Threads
  PROVE  /\ t \in Callers /\ m_disabled_poll_request \in BOOLEAN
         /\ \E c \in Calls, n \in Nodes, s \in Nat, T \in Nat :
              /\ c = call[t] /\ n = node /\ s = silence /\ T = m_timeout_after_stop_task_s
              /\ Shape(c) /\ TransferGood(c, n)
<1>1. t \in Callers /\ node \in Nodes /\ silence \in Nat /\ m_timeout_after_stop_task_s \in Nat
      /\ call \in [Callers -> Calls] /\ m_disabled_poll_request \in BOOLEAN
  BY Times DEF Callers, Inv, TypeOK
<1>2. PICK c \in Calls, n \in Nodes, s \in Nat, T \in Nat :
        c = call[t] /\ n = node /\ s = silence /\ T = m_timeout_after_stop_task_s
  BY <1>1
<1>3. GoodCall(c, n, s, T)
  BY <1>1, <1>2 DEF Inv, CallsInv
<1>. QED BY <1>1, <1>2, <1>3 DEF GoodCall

\* The version is read part by part.
LEMMA VersionRead ==
  ASSUME NEW c \in Calls, NEW n \in Nodes, c.op = "version", c.at = "version", Len(c.got) < 4,
         c.clean => Agree(c.got, Version(n.firmware), 0)
  PROVE  \E d \in Calls :
           /\ d = [c EXCEPT !.got = Append(@, Version(n.firmware)[Len(c.got) + 1])]
           /\ d.op = "version" /\ d.at = "version" /\ Len(d.got) = Len(c.got) + 1
           /\ d.clean => Agree(d.got, Version(n.firmware), 0)
<1>. DEFINE v == Version(n.firmware)
<1>1. v \in Seq(Octet) /\ Len(v) = 4
  <2>1. PICK f \in {0, 1} : f = n.firmware
    BY DEF Nodes
  <2>2. f \in Octet /\ f + 4 \in Octet /\ f + 2 \in Octet /\ f + 6 \in Octet
    BY DEF Octet
  <2>3. <<f, f + 4, f + 2, f + 6>> \in Seq(Octet) /\ Len(<<f, f + 4, f + 2, f + 6>>) = 4
    BY <2>2
  <2>. QED BY <2>1, <2>3 DEF Version
<1>. HIDE DEF v
<1>2. PICK g \in Seq(Octet), k \in Nat : g = c.got /\ k = Len(g)
  <2>1. c.got \in Seq(Octet)
    BY DEF Calls
  <2>. QED BY <2>1, LenProperties
<1>3. v[k + 1] \in Octet
  <2>1. k + 1 \in 1..4
    BY <1>2
  <2>2. \A i \in 1..Len(v) : v[i] \in Octet
    BY <1>1, LenProperties
  <2>. QED BY <1>1, <2>1, <2>2
<1>4. PICK h \in Seq(Octet) : /\ h = Append(g, v[k + 1]) /\ Len(h) = k + 1
                              /\ (\A i \in 1..k : h[i] = g[i]) /\ h[k + 1] = v[k + 1]
  BY <1>2, <1>3, AppendProperties
<1>5. PICK d \in Calls : /\ d = [c EXCEPT !.got = h] /\ d.got = h /\ d.op = c.op /\ d.at = c.at
                         /\ d.clean = c.clean
  <2>1. [c EXCEPT !.got = h] \in Calls
    BY DEF Calls
  <2>. QED BY <2>1 DEF Calls
<1>6. Agree(g, v, 0) => Agree(h, v, 0)
  <2>1. SUFFICES ASSUME Agree(g, v, 0), NEW i \in 1..(k + 1)
                 PROVE  0 + i <= Len(v) /\ h[i] = v[0 + i]
    BY <1>4 DEF Agree
  <2>2. 0 + i = i /\ (i \in 1..k \/ i = k + 1)
    BY <1>2
  <2>3. i \in 1..k => g[i] = v[0 + i]
    BY <1>2, <2>1 DEF Agree
  <2>. QED BY <1>1, <1>2, <1>4, <2>2, <2>3
<1>7. d = [c EXCEPT !.got = Append(@, v[Len(c.got) + 1])]
  BY <1>2, <1>4, <1>5
<1>8. d.clean => Agree(d.got, v, 0)
  BY <1>2, <1>5, <1>6 DEF v
<1>. QED BY <1>2, <1>4, <1>5, <1>7, <1>8, ZenonT(40) DEF v

LEMMA InvReadVersion ==
  ASSUME Inv, NEW t \in Threads, ReadVersion(t)
  PROVE  Inv'
<1>1. t \in Callers
  BY TransferCall
<1>2. PICK c \in Calls, n \in Nodes, s \in Nat, T \in Nat :
        /\ c = call[t] /\ n = node /\ s = silence /\ T = m_timeout_after_stop_task_s
        /\ Shape(c) /\ TransferGood(c, n)
  BY TransferCall
<1>3. /\ c.at = "version" /\ c.op = "version" /\ Len(c.got) < 4
      /\ c.clean => Agree(c.got, Version(n.firmware), 0)
  BY <1>2 DEF ReadVersion, At, Shape, TransferGood
<1>4. PICK d \in Calls :
        /\ d = [c EXCEPT !.got = Append(@, Version(n.firmware)[Len(c.got) + 1])]
        /\ d.op = "version" /\ d.at = "version" /\ Len(d.got) = Len(c.got) + 1
        /\ d.clean => Agree(d.got, Version(n.firmware), 0)
  BY <1>3, VersionRead
<1>5. Len(c.got) \in Nat
  BY LenProperties DEF Calls
<1>6. PICK a \in Outcomes : /\ a = IF Len(c.got) + 1 = 4 THEN Returns(d, "OK") ELSE Goes(d)
                            /\ a.c = d /\ GoodOutcome(a, n, 0, T)
  <2>1. CASE Len(c.got) + 1 = 4
    <3>1. PICK res \in app_res_e : res = "OK"
      BY ErrorTypes
    <3>2. PICK a \in Outcomes : a = Returns(d, res) /\ a.c = d /\ a.ends /\ a.res = "OK"
      BY <3>1, ReturnsType
    <3>3. d.clean => d.got = Version(n.firmware)
      <4>1. PICK f \in {0, 1} : f = n.firmware
        BY DEF Nodes
      <4>2. PICK v \in Seq(Octet) : v = Version(f) /\ Len(v) = 4
        <5>1. <<f, f + 4, f + 2, f + 6>> \in Seq(Octet) /\ Len(<<f, f + 4, f + 2, f + 6>>) = 4
          BY DEF Octet
        <5>. QED BY <5>1 DEF Version
      <4>3. d.got \in Seq(Octet) /\ Len(d.got) = 4
        BY <1>4, <2>1 DEF Calls
      <4>4. Agree(d.got, v, 0) => d.got = v
        BY <4>2, <4>3, AgreeAll
      <4>. QED BY <1>4, <4>1, <4>2, <4>4
    <3>4. GoodAnswer([c |-> d, res |-> "OK"], n, T)
      BY <1>4, <3>3 DEF GoodAnswer
    <3>5. GoodOutcome(a, n, 0, T)
      BY <3>2, <3>4 DEF GoodOutcome
    <3>. QED BY <2>1, <3>1, <3>2, <3>5
  <2>2. CASE Len(c.got) + 1 # 4
    <3>1. PICK a \in Outcomes : a = Goes(d) /\ a.c = d /\ ~a.ends
      BY GoesType
    <3>2. Len(d.got) < 4
      BY <1>3, <1>4, <1>5, <2>2
    <3>3. GoodCall(d, n, 0, T)
      BY <1>4, <3>2 DEF GoodCall, Shape, TransferGood, StopGood, Loading, MtuPlaces
    <3>4. GoodOutcome(a, n, 0, T)
      BY <3>1, <3>3 DEF GoodOutcome
    <3>. QED BY <2>2, <3>1, <3>4
  <2>. QED BY <2>1, <2>2
<1>7. PICK b \in Outcomes : /\ b = Returns(c, convert_error_code(ATT_READ, TIMEOUT)) /\ b.c = c
                            /\ Lossy(b)
  <2>1. PICK err \in app_res_e \ {"OK"} : err = convert_error_code(ATT_READ, TIMEOUT)
    BY OtherCodes, ErrorTypes
  <2>. QED BY <1>3, <2>1, TransferFails
<1>8. PICK cost \in Nat \ {0} : cost = 1
  OBVIOUS
<1>9. Requests(t, cost, n, a, b)
  BY <1>2, <1>4, <1>6, <1>7, <1>8 DEF ReadVersion, OK, TIMEOUT
<1>10. call[t].at \notin MtuPlaces /\ a.c.at \notin MtuPlaces /\ b.c.at \notin MtuPlaces
  BY <1>2, <1>3, <1>4, <1>6, <1>7 DEF MtuPlaces
<1>. QED BY <1>1, <1>2, <1>6, <1>7, <1>9, <1>10, PlainRequest

LEMMA InvStartUpdate ==
  ASSUME Inv, NEW t \in Threads, StartUpdate(t)
  PROVE  Inv'
<1>1. t \in Callers
  BY TransferCall
<1>2. PICK c \in Calls, n \in Nodes, s \in Nat, T \in Nat :
        /\ c = call[t] /\ n = node /\ s = silence /\ T = m_timeout_after_stop_task_s
        /\ Shape(c) /\ TransferGood(c, n)
  BY TransferCall
<1>3. c.at = "start" /\ c.op \in {"begin", "upload"} /\ c.got = << >> /\ c.data \in Seq(Octet)
      /\ Len(c.data) \in Nat
  <2>1. c.data \in Seq(Octet)
    BY DEF Calls
  <2>. QED BY <1>2, <2>1, LenProperties DEF StartUpdate, At, Shape
<1>4. PICK full \in Nodes : /\ full = [n EXCEPT !.pad = [size |-> Len(c.data), octets |-> << >>]]
                            /\ full.pad = [size |-> Len(c.data), octets |-> << >>]
                            /\ full.told = n.told /\ full.firmware = n.firmware
  <2>1. [n EXCEPT !.pad = [size |-> Len(c.data), octets |-> << >>]] \in Nodes
    BY <1>3, NodeType, EmptySeq
  <2>. QED BY <2>1 DEF Nodes
<1>5. PICK b \in Outcomes :
        /\ b = Returns(c, convert_error_code(SCRATCHPAD_LOCAL_START, TIMEOUT)) /\ b.c = c /\ Lossy(b)
  <2>1. PICK err \in app_res_e \ {"OK"} : err = convert_error_code(SCRATCHPAD_LOCAL_START, TIMEOUT)
    BY StartCodes, ErrorTypes
  <2>. QED BY <1>3, <2>1, TransferFails
<1>6. PICK cost \in Nat \ {0} : cost = ScratchpadStartTimeout
  BY Times
<1>7. c.at \notin MtuPlaces
  BY <1>3 DEF MtuPlaces
<1>8. CASE node.running
  <2>1. PICK a \in Outcomes :
          /\ a = Returns(c, convert_error_code(SCRATCHPAD_LOCAL_START, 1)) /\ a.c = c
          /\ GoodOutcome(a, n, 0, T)
    <3>1. PICK err \in app_res_e \ {"OK"} : err = convert_error_code(SCRATCHPAD_LOCAL_START, 1)
      BY StartCodes, ErrorTypes
    <3>. QED BY <1>3, <3>1, TransferFails
  <2>2. Requests(t, cost, n, a, b)
    BY <1>2, <1>5, <1>6, <1>8, <2>1 DEF StartUpdate, OK, TIMEOUT
  <2>. QED BY <1>1, <1>2, <1>5, <1>7, <2>1, <2>2, PlainRequest
<1>9. CASE ~node.running
  <2>1. PICK a \in Outcomes :
          /\ a = IF c.op = "upload" THEN Goes([c EXCEPT !.at = "max"])
                 ELSE Returns(c, convert_error_code(SCRATCHPAD_LOCAL_START, 0))
          /\ GoodOutcome(a, full, 0, T) /\ a.c.at \notin MtuPlaces
    <3>1. CASE c.op = "upload"
      <4>1. PICK d \in Calls : /\ d = [c EXCEPT !.at = "max"] /\ d.at = "max" /\ d.op = "upload"
                               /\ d.got = << >> /\ d.data = c.data
        <5>1. "max" \in Places
          BY DEF Places
        <5>2. [c EXCEPT !.at = "max"] \in Calls
          BY <5>1 DEF Calls
        <5>. QED BY <1>3, <3>1, <5>2 DEF Calls
      <4>2. PICK a \in Outcomes : a = Goes(d) /\ a.c = d /\ ~a.ends
        BY GoesType
      <4>3. Len(d.got) = 0
        BY <4>1, EmptySeq
      <4>4. Shape(d) /\ StopGood(d, full, 0, T)
        BY <1>3, <4>1, <4>3 DEF Shape, StopGood, Loading, MtuPlaces, BlockTransfers
      <4>5. TransferGood(d, full)
        BY <1>4, <4>1, <4>3 DEF TransferGood, Agree
      <4>6. GoodOutcome(a, full, 0, T)
        BY <4>2, <4>4, <4>5 DEF GoodOutcome, GoodCall
      <4>. QED BY <3>1, <4>1, <4>2, <4>6 DEF MtuPlaces
    <3>2. CASE c.op = "begin"
      <4>1. PICK res \in app_res_e : res = convert_error_code(SCRATCHPAD_LOCAL_START, 0)
        BY StartCodes, ErrorTypes
      <4>2. PICK a \in Outcomes : a = Returns(c, res) /\ a.c = c /\ GoodOutcome(a, full, 0, T)
        BY <3>2, PlainReturns, ReturnsType DEF Plain, BlockTransfers
      <4>. QED BY <1>7, <3>2, <4>1, <4>2
    <3>. QED BY <1>3, <3>1, <3>2
  <2>2. Requests(t, cost, full, a, b)
    BY <1>2, <1>4, <1>5, <1>6, <1>9, <2>1 DEF StartUpdate, OK, TIMEOUT
  <2>. QED BY <1>1, <1>2, <1>4, <1>5, <1>7, <2>1, <2>2, PlainRequest
<1>. QED BY <1>8, <1>9

LEMMA InvReadBlockMax ==
  ASSUME Inv, NEW t \in Threads, ReadBlockMax(t)
  PROVE  Inv'
<1>1. t \in Callers
  BY TransferCall
<1>2. PICK c \in Calls, n \in Nodes, s \in Nat, T \in Nat :
        /\ c = call[t] /\ n = node /\ s = silence /\ T = m_timeout_after_stop_task_s
        /\ Shape(c) /\ TransferGood(c, n)
  BY TransferCall
<1>3. c.at = "max" /\ c.op \in BlockTransfers /\ Len(c.got) <= Len(c.data) /\ Moved(c, n)
  BY <1>2 DEF ReadBlockMax, At, Shape, TransferGood, Moved, Loading
<1>4. PICK d \in Calls : /\ d = [c EXCEPT !.size = BlockMax] /\ d.op = c.op /\ d.at = c.at
                         /\ d.data = c.data /\ d.got = c.got /\ d.base = c.base /\ d.clean = c.clean
  <2>1. [c EXCEPT !.size = BlockMax] \in Calls
    BY SizesAssumption DEF Calls
  <2>. QED BY <2>1 DEF Calls
<1>5. Moved(d, n)
  BY <1>3, <1>4 DEF Moved
<1>6. PICK a \in Outcomes : a = Loads(d) /\ GoodOutcome(a, n, 0, T) /\ a.c.at \notin MtuPlaces
  BY <1>3, <1>4, <1>5, LoadsGood DEF Loading
<1>7. PICK b \in Outcomes : /\ b = Returns(c, convert_error_code(ATT_READ, TIMEOUT)) /\ b.c = c
                            /\ Lossy(b)
  <2>1. PICK err \in app_res_e \ {"OK"} : err = convert_error_code(ATT_READ, TIMEOUT)
    BY OtherCodes, ErrorTypes
  <2>2. c.op # "stop"
    BY <1>3 DEF BlockTransfers
  <2>. QED BY <2>1, <2>2, TransferFails
<1>8. PICK cost \in Nat \ {0} : cost = 1
  OBVIOUS
<1>9. Requests(t, cost, n, a, b)
  BY <1>2, <1>4, <1>6, <1>7, <1>8 DEF ReadBlockMax, OK, TIMEOUT
<1>10. c.at \notin MtuPlaces
  BY <1>3 DEF MtuPlaces
<1>. QED BY <1>1, <1>2, <1>6, <1>7, <1>9, <1>10, PlainRequest

\* The size of the next block.
LEMMA BlockFits ==
  ASSUME NEW c \in Calls, Len(c.got) <= Len(c.data)
  PROVE  /\ BlockSize(c) \in Nat /\ Len(c.got) \in Nat /\ Len(c.data) \in Nat
         /\ Len(c.got) + BlockSize(c) <= Len(c.data)
         /\ c.data \in Seq(Octet) /\ c.got \in Seq(Octet) /\ c.base \in Nat
         /\ Address(c) = c.base + Len(c.got)
<1>1. c.data \in Seq(Octet) /\ c.got \in Seq(Octet) /\ c.base \in Nat /\ c.size \in Nat
  BY DEF Calls
<1>2. Len(c.got) \in Nat /\ Len(c.data) \in Nat
  BY <1>1, LenProperties
<1>3. BlockSize(c) \in Nat /\ Len(c.got) + BlockSize(c) <= Len(c.data)
  <2>1. PICK k \in Nat, l \in Nat, z \in Nat : k = Len(c.got) /\ l = Len(c.data) /\ z = c.size
    BY <1>1, <1>2
  <2>2. k <= l /\ BlockSize(c) = IF l - k > z THEN z ELSE l - k
    BY <2>1 DEF BlockSize
  <2>3. BlockSize(c) \in Nat /\ k + BlockSize(c) <= l
    BY <2>2
  <2>. QED BY <2>1, <2>3
<1>. QED BY <1>1, <1>2, <1>3 DEF Address

\* A call with one block more.
LEMMA Next1Type ==
  ASSUME NEW c \in Calls, NEW o \in Seq(Octet)
  PROVE  /\ Next1(c, o) \in Calls /\ Next1(c, o).op = c.op /\ Next1(c, o).at = c.at
         /\ Next1(c, o).data = c.data /\ Next1(c, o).base = c.base
         /\ Next1(c, o).clean = c.clean /\ Next1(c, o).got = c.got \o o
<1>1. c.got \in Seq(Octet)
  BY DEF Calls
<1>2. c.got \o o \in Seq(Octet)
  BY <1>1, ConcatProperties
<1>. QED BY <1>2 DEF Next1, Calls

\* A block the node takes: it follows what the node has, and the caller's.
LEMMA BlockUploaded ==
  ASSUME NEW c \in Calls, NEW n \in Nodes, NEW m \in Nodes, Len(c.got) <= Len(c.data), Moved(c, n),
         c.op \in {"upload", "blocks"}, Address(c) = Len(n.pad.octets),
         m.pad.octets = n.pad.octets \o Block(c), m.pad.size = n.pad.size
  PROVE  LET d == Next1(c, Block(c))
         IN  /\ d \in Calls /\ d.op = c.op /\ d.at = c.at /\ Len(d.got) <= Len(d.data) /\ Moved(d, m)
<1>1. /\ c.data \in Seq(Octet) /\ c.got \in Seq(Octet) /\ c.base \in Nat
      /\ Len(c.got) \in Nat /\ Len(c.data) \in Nat /\ BlockSize(c) \in Nat
      /\ Len(c.got) + BlockSize(c) <= Len(c.data) /\ Len(n.pad.octets) = c.base + Len(c.got)
  BY BlockFits
<1>2. PICK g \in Seq(Octet), w \in Seq(Octet), o \in Seq(Octet), base \in Nat :
        g = c.got /\ w = c.data /\ o = n.pad.octets /\ base = c.base
  BY <1>1 DEF Nodes
<1>3. PICK k \in Nat, l \in Nat : k = Len(g) /\ l = BlockSize(c) /\ k + l <= Len(w) /\ Len(o) = base + k
  BY <1>1, <1>2
<1>4. PICK b \in Seq(Octet) : /\ b = Block(c) /\ Len(b) = l /\ \A j \in 1..l : b[j] = w[k + j]
  <2>1. LET e == SubSeq(w, k + 1, k + l)
        IN  e \in Seq(Octet) /\ Len(e) = l /\ \A j \in 1..l : e[j] = w[k + j]
    BY <1>3, ExistingSubSeq, ZenonT(40)
  <2>. QED BY <1>2, <1>3, <2>1 DEF Block
<1>5. PICK d \in Calls : /\ d = Next1(c, b) /\ d.op = c.op /\ d.at = c.at /\ d.data = w /\ d.base = base
                         /\ d.clean = c.clean /\ d.got = g \o b
  BY <1>2, Next1Type
<1>6. Agree(g, w, 0) => Agree(g \o b, w, 0)
  <2>1. 0 + Len(g) + Len(b) <= Len(w) /\ \A j \in 1..Len(b) : b[j] = w[0 + Len(g) + j]
    BY <1>3, <1>4
  <2>. QED BY <2>1, AgreeMore
<1>7. Agree(g, o, base) => Agree(g \o b, o \o b, base)
  BY <1>3, AgreeBoth
<1>8. Len(g \o b) = k + l /\ Len(o \o b) = base + (k + l)
  <2>1. Len(g \o b) = Len(g) + Len(b) /\ Len(o \o b) = Len(o) + Len(b)
    BY ConcatProperties
  <2>. QED BY <1>3, <1>4, <2>1
<1>9. m.pad = [size |-> n.pad.size, octets |-> o \o b]
  BY <1>2, <1>4 DEF Nodes
<1>10. ASSUME d.clean PROVE Moved(d, m)
  <2>1. /\ c.op = "upload" => n.pad = [size |-> Len(w), octets |-> g] /\ Agree(g, w, 0)
        /\ c.op = "blocks" => Agree(g, w, 0) /\ Agree(g, o, base)
    BY <1>2, <1>5, <1>10 DEF Moved
  <2>2. c.op = "upload" => m.pad = [size |-> Len(w), octets |-> g \o b] /\ Agree(g \o b, w, 0)
    <3>1. c.op = "upload" => n.pad.size = Len(w) /\ o = g
      BY <1>2, <2>1
    <3>. QED BY <1>6, <1>9, <2>1, <3>1
  <2>3. c.op = "blocks" => /\ Agree(g \o b, w, 0) /\ Agree(g \o b, m.pad.octets, base)
                           /\ Len(m.pad.octets) = base + Len(g \o b)
    <3>1. m.pad.octets = o \o b
      BY <1>2, <1>4, Zenon
    <3>2. c.op = "blocks" => Agree(g \o b, w, 0) /\ Agree(g \o b, o \o b, base)
      BY <1>6, <1>7, <2>1
    <3>3. Len(m.pad.octets) = base + Len(g \o b)
      BY <1>8, <3>1
    <3>. QED BY <3>1, <3>2, <3>3, Zenon
  <2>. QED BY <1>5, <2>2, <2>3 DEF Moved
<1>11. Moved(d, m)
  BY <1>10 DEF Moved
<1>12. Len(d.got) <= Len(d.data)
  BY <1>3, <1>5, <1>8
<1>. QED BY <1>4, <1>5, <1>11, <1>12

\* A block too large for the request is refused by the library itself.
LEMMA BlockRefused ==
  ASSUME Inv, NEW t \in Threads, NEW c \in Calls, c = call[t], c.at = "block", c.op \in BlockTransfers,
         NEW res \in app_res_e \ {"OK"}, Proceeds(t, Returns(c, res), 0, FALSE), ~exited,
         UNCHANGED <<node, host, line, stale, boots>>
  PROVE  Inv'
<1>1. t \in Callers /\ m_disabled_poll_request \in BOOLEAN
  BY TransferCall
<1>2. c.op # "stop"
  BY DEF BlockTransfers
<1>3. PICK n, s, T : n = node /\ s = silence /\ T = m_timeout_after_stop_task_s
  OBVIOUS
<1>4. PICK r \in Outcomes : r = Returns(c, res) /\ r.c = c /\ GoodOutcome(r, n, s, T)
  BY <1>2, TransferFails
<1>5. Proceeds(t, r, 0, FALSE)
  BY <1>4
<1>6. GoodOutcome(r, node, silence, m_timeout_after_stop_task_s)
  BY <1>3, <1>4
<1>7. call[t].at \notin MtuPlaces /\ call[t] # Idle /\ r.c.at \notin MtuPlaces
  BY <1>4, IdleType DEF MtuPlaces
<1>8. /\ UNCHANGED <<node, open, m_mtu, m_timeout_after_stop_task_s, line, stale, boots>>
      /\ m_disabled_poll_request' = m_disabled_poll_request
  BY DEF host
<1>. QED BY <1>1, <1>4, <1>5, <1>6, <1>7, <1>8, InstantKeeps

LEMMA InvUploadBlock ==
  ASSUME Inv, NEW t \in Threads, UploadBlock(t)
  PROVE  Inv'
<1>1. t \in Callers
  BY TransferCall
<1>2. PICK c \in Calls, n \in Nodes, s \in Nat, T \in Nat :
        /\ c = call[t] /\ n = node /\ s = silence /\ T = m_timeout_after_stop_task_s
        /\ Shape(c) /\ TransferGood(c, n)
  BY TransferCall
<1>3. /\ c.at = "block" /\ c.op \in {"upload", "blocks"} /\ c.op \in BlockTransfers /\ c.op # "stop"
      /\ Len(c.got) <= Len(c.data) /\ Moved(c, n) /\ c.at \notin MtuPlaces
  BY <1>2 DEF UploadBlock, At, Shape, TransferGood, Moved, Loading, BlockTransfers, MtuPlaces
<1>4. ~exited
  BY DEF UploadBlock
<1>5. CASE BlockSize(c) > MAXIMUM_SCRATCHPAD_BLOCK_SIZE
  <2>1. PICK err \in app_res_e \ {"OK"} : err = convert_error_code(SCRATCHPAD_LOCAL_BLOCK, 6)
    BY BlockCodes
  <2>2. Proceeds(t, Returns(c, err), 0, FALSE) /\ UNCHANGED <<node, host, line, stale, boots>>
    <3>1. PICK r : r = Returns(c, err)
      OBVIOUS
    <3>2. r = IF 6 > 1 \/ 6 < 0 THEN Returns(c, convert_error_code(SCRATCHPAD_LOCAL_BLOCK, 6))
              ELSE Loads(Next1(c, Block(c)))
      BY <2>1, <3>1
    <3>3. Proceeds(t, r, 0, FALSE) /\ UNCHANGED <<node, host, line, stale, boots>>
      BY <1>2, <1>5, <3>2, Zenon DEF UploadBlock
    <3>. QED BY <3>1, <3>3
  <2>. QED BY <1>2, <1>3, <1>4, <2>2, BlockRefused
<1>6. CASE ~(BlockSize(c) > MAXIMUM_SCRATCHPAD_BLOCK_SIZE)
  <2>1. PICK b \in Outcomes :
          /\ b = Returns(c, convert_error_code(SCRATCHPAD_LOCAL_BLOCK, TIMEOUT)) /\ b.c = c /\ Lossy(b)
    <3>1. PICK err \in app_res_e \ {"OK"} : err = convert_error_code(SCRATCHPAD_LOCAL_BLOCK, TIMEOUT)
      BY BlockCodes
    <3>. QED BY <1>3, <3>1, TransferFails
  <2>2. PICK code \in {0, 1, 3, 4, 5, 6} :
          code = BlockCode(c) /\ (code \in {0, 1} => Address(c) = Len(n.pad.octets))
    BY <1>2 DEF BlockCode
  <2>3. PICK cost \in Nat \ {0} : cost = ScratchpadBlockTimeout
    BY Times
  <2>4. CASE code \in {0, 1}
    <3>1. c.data \in Seq(Octet) /\ Block(c) \in Seq(Octet)
      <4>1. /\ BlockSize(c) \in Nat /\ Len(c.got) \in Nat
            /\ Len(c.got) + BlockSize(c) <= Len(c.data) /\ c.data \in Seq(Octet)
        BY <1>3, BlockFits
      <4>. QED BY <4>1, ExistingSubSeq DEF Block
    <3>2. PICK m \in Nodes : /\ m = [n EXCEPT !.pad.octets = @ \o Block(c)]
                             /\ m.pad.octets = n.pad.octets \o Block(c) /\ m.pad.size = n.pad.size
                             /\ m.told = n.told /\ m.firmware = n.firmware
      <4>1. n.pad.octets \o Block(c) \in Seq(Octet)
        BY <3>1, ConcatProperties DEF Nodes
      <4>2. [n EXCEPT !.pad.octets = @ \o Block(c)] \in Nodes
        BY <4>1 DEF Nodes
      <4>. QED BY <4>2 DEF Nodes
    <3>3. PICK d \in Calls : /\ d = Next1(c, Block(c)) /\ d.op = c.op /\ d.at = c.at
                             /\ Len(d.got) <= Len(d.data) /\ Moved(d, m)
      BY <1>3, <2>2, <2>4, <3>2, BlockUploaded
    <3>4. PICK a \in Outcomes : a = Loads(d) /\ GoodOutcome(a, m, 0, T) /\ a.c.at \notin MtuPlaces
      BY <1>3, <3>3, LoadsGood DEF Loading
    <3>5. Requests(t, cost, m, a, b)
      <4>1. m = IF BlockCode(c) \in {0, 1} THEN [n EXCEPT !.pad.octets = @ \o Block(c)] ELSE n
        BY <2>2, <2>4, <3>2
      <4>2. a = IF BlockCode(c) > 1 \/ BlockCode(c) < 0
                THEN Returns(c, convert_error_code(SCRATCHPAD_LOCAL_BLOCK, BlockCode(c)))
                ELSE Loads(Next1(c, Block(c)))
        BY <2>2, <2>4, <3>3, <3>4
      <4>3. b = IF -2 > 1 \/ -2 < 0 THEN Returns(c, convert_error_code(SCRATCHPAD_LOCAL_BLOCK, -2))
                ELSE Loads(Next1(c, Block(c)))
        BY <2>1 DEF TIMEOUT
      <4>. QED BY <1>2, <1>6, <2>3, <4>1, <4>2, <4>3, Zenon DEF UploadBlock, TIMEOUT
    <3>. QED BY <1>1, <1>2, <1>3, <2>1, <3>2, <3>4, <3>5, PlainRequest
  <2>5. CASE code \notin {0, 1}
    <3>1. PICK err \in app_res_e \ {"OK"} : err = convert_error_code(SCRATCHPAD_LOCAL_BLOCK, code)
      BY <2>2, <2>5, BlockCodes
    <3>2. PICK a \in Outcomes : a = Returns(c, err) /\ a.c = c /\ GoodOutcome(a, n, 0, T)
      BY <1>3, TransferFails
    <3>3. Requests(t, cost, n, a, b)
      BY <1>2, <1>6, <2>1, <2>2, <2>3, <2>5, <3>1, <3>2 DEF UploadBlock, TIMEOUT
    <3>. QED BY <1>1, <1>2, <1>3, <2>1, <3>2, <3>3, PlainRequest
  <2>. QED BY <2>4, <2>5
<1>. QED BY <1>5, <1>6

\* A block the node gives is what it has at the caller's address.
LEMMA BlockDownloaded ==
  ASSUME NEW c \in Calls, NEW n \in Nodes, Len(c.got) <= Len(c.data), c.op = "download", Moved(c, n),
         Address(c) + BlockSize(c) <= Len(n.pad.octets)
  PROVE  LET o == SubSeq(n.pad.octets, Address(c) + 1, Address(c) + BlockSize(c))
             d == Next1(c, o)
         IN  /\ d \in Calls /\ d.op = c.op /\ d.at = c.at /\ Len(d.got) <= Len(d.data) /\ Moved(d, n)
<1>1. /\ c.data \in Seq(Octet) /\ c.got \in Seq(Octet) /\ c.base \in Nat
      /\ Len(c.got) \in Nat /\ Len(c.data) \in Nat /\ BlockSize(c) \in Nat
      /\ Len(c.got) + BlockSize(c) <= Len(c.data) /\ Address(c) = c.base + Len(c.got)
  BY BlockFits
<1>2. PICK g \in Seq(Octet), w \in Seq(Octet), base \in Nat : g = c.got /\ w = n.pad.octets /\ base = c.base
  BY <1>1 DEF Nodes
<1>3. PICK k \in Nat, l \in Nat, i \in Nat :
        /\ k = Len(g) /\ l = BlockSize(c) /\ i = base + k /\ i = Address(c)
        /\ k + l <= Len(c.data) /\ i + l <= Len(w)
  BY <1>1, <1>2
<1>4. PICK b \in Seq(Octet) : /\ b = SubSeq(w, i + 1, i + l) /\ Len(b) = l
                              /\ \A j \in 1..l : b[j] = w[i + j]
  <2>1. i + l <= Len(w)
    BY <1>3
  <2>. QED BY <2>1, ExistingSubSeq, ZenonT(40)
<1>5. PICK d \in Calls : /\ d = Next1(c, b) /\ d.op = c.op /\ d.at = c.at /\ d.data = c.data
                         /\ d.base = base /\ d.clean = c.clean /\ d.got = g \o b
  BY <1>2, Next1Type
<1>6. Agree(g, w, base) => Agree(g \o b, w, base)
  <2>1. base + Len(g) + Len(b) <= Len(w) /\ \A j \in 1..Len(b) : b[j] = w[base + Len(g) + j]
    BY <1>3, <1>4
  <2>. QED BY <2>1, AgreeMore
<1>7. Len(g \o b) = k + l
  <2>1. Len(g \o b) = Len(g) + Len(b)
    BY ConcatProperties
  <2>. QED BY <1>3, <1>4, <2>1
<1>8. ASSUME d.clean PROVE Moved(d, n)
  <2>1. n.running \/ Agree(g, w, base)
    BY <1>2, <1>5, <1>8 DEF Moved
  <2>2. n.running \/ Agree(d.got, n.pad.octets, d.base)
    BY <1>2, <1>5, <1>6, <2>1
  <2>. QED BY <1>5, <2>2 DEF Moved
<1>9. Moved(d, n)
  BY <1>8 DEF Moved
<1>10. Len(d.got) <= Len(d.data)
  BY <1>3, <1>5, <1>7
<1>11. b = SubSeq(n.pad.octets, Address(c) + 1, Address(c) + BlockSize(c))
  BY <1>2, <1>3, <1>4
<1>. QED BY <1>5, <1>9, <1>10, <1>11

\* A block that was not copied is one of a node whose stack runs.
LEMMA BlockNotCopied ==
  ASSUME NEW c \in Calls, NEW n, Len(c.got) <= Len(c.data), c.op = "download", n.running
  PROVE  LET d == NotCopied(c)
         IN  /\ d \in Calls /\ d.op = c.op /\ d.at = c.at /\ Len(d.got) <= Len(d.data) /\ Moved(d, n)
<1>1. /\ Len(c.got) + BlockSize(c) <= Len(c.data) /\ BlockSize(c) \in Nat /\ Len(c.got) \in Nat
      /\ c.data \in Seq(Octet) /\ c.got \in Seq(Octet)
  BY BlockFits
<1>2. PICK b \in Seq(Octet) : b = Block(c) /\ Len(b) = BlockSize(c)
  <2>1. PICK k \in Nat, l \in Nat, w \in Seq(Octet) :
          k = Len(c.got) /\ l = BlockSize(c) /\ w = c.data /\ k + l <= Len(w)
    BY <1>1
  <2>2. LET p == SubSeq(w, k + 1, k + l)
        IN  p \in Seq(Octet) /\ Len(p) = l /\ \A j \in 1..l : p[j] = w[k + j]
    BY <2>1, ExistingSubSeq, ZenonT(40)
  <2>. QED BY <2>1, <2>2 DEF Block
<1>3. PICK d \in Calls : /\ d = Next1(c, b) /\ d.op = c.op /\ d.at = c.at /\ d.data = c.data
                         /\ d.got = c.got \o b
  BY Next1Type
<1>4. Len(d.got) <= Len(d.data)
  <2>1. Len(c.got \o b) = Len(c.got) + Len(b)
    BY <1>1, ConcatProperties
  <2>. QED BY <1>1, <1>2, <1>3, <2>1
<1>5. Moved(d, n)
  BY <1>3 DEF Moved
<1>6. d = NotCopied(c)
  BY <1>2, <1>3 DEF NotCopied
<1>. QED BY <1>3, <1>4, <1>5, <1>6

LEMMA InvDownloadBlock ==
  ASSUME Inv, NEW t \in Threads, DownloadBlock(t)
  PROVE  Inv'
<1>1. t \in Callers
  BY TransferCall
<1>2. PICK c \in Calls, n \in Nodes, s \in Nat, T \in Nat :
        /\ c = call[t] /\ n = node /\ s = silence /\ T = m_timeout_after_stop_task_s
        /\ Shape(c) /\ TransferGood(c, n)
  BY TransferCall
<1>3. /\ c.at = "block" /\ c.op = "download" /\ c.op \in BlockTransfers /\ c.op # "stop"
      /\ Len(c.got) <= Len(c.data) /\ Moved(c, n) /\ c.at \notin MtuPlaces
  BY <1>2 DEF DownloadBlock, At, Shape, TransferGood, Moved, Loading, BlockTransfers, MtuPlaces
<1>4. ~exited
  BY DEF DownloadBlock
<1>. DEFINE octets == SubSeq(n.pad.octets, Address(c) + 1, Address(c) + BlockSize(c))
<1>5. CASE BlockSize(c) > MAXIMUM_SCRATCHPAD_BLOCK_SIZE
  <2>1. PICK err \in app_res_e \ {"OK"} : err = convert_error_code(SCRATCHPAD_LOCAL_BLOCK_READ, 6)
    BY BlockReadCodes
  <2>2. Proceeds(t, Returns(c, err), 0, FALSE) /\ UNCHANGED <<node, host, line, stale, boots>>
    <3>1. PICK r : r = Returns(c, err)
      OBVIOUS
    <3>2. r = CASE 6 > 1 \/ 6 < 0 -> Returns(c, convert_error_code(SCRATCHPAD_LOCAL_BLOCK_READ, 6))
                [] 6 = 1 -> Loads(NotCopied(c))
                [] OTHER -> Loads(Next1(c, octets))
      BY <2>1, <3>1
    <3>3. Proceeds(t, r, 0, FALSE) /\ UNCHANGED <<node, host, line, stale, boots>>
      BY <1>2, <1>5, <3>2, Zenon DEF DownloadBlock
    <3>. QED BY <3>1, <3>3
  <2>. QED BY <1>2, <1>3, <1>4, <2>2, BlockRefused
<1>6. CASE ~(BlockSize(c) > MAXIMUM_SCRATCHPAD_BLOCK_SIZE)
  <2>1. PICK b \in Outcomes :
          /\ b = Returns(c, convert_error_code(SCRATCHPAD_LOCAL_BLOCK_READ, TIMEOUT)) /\ b.c = c
          /\ Lossy(b)
    <3>1. PICK err \in app_res_e \ {"OK"} :
            err = convert_error_code(SCRATCHPAD_LOCAL_BLOCK_READ, TIMEOUT)
      BY BlockReadCodes
    <3>. QED BY <1>3, <3>1, TransferFails
  <2>2. PICK code \in {0, 1, 2, 3, 4} :
          /\ code = ReadCode(c) /\ (code = 1 => n.running)
          /\ code = 0 => Address(c) + BlockSize(c) <= Len(n.pad.octets)
    <3>1. PICK x, y : x = Address(c) /\ y = Address(c) + BlockSize(c) /\ x \in Nat /\ y \in Nat
      BY <1>3, BlockFits
    <3>2. n.pad.size \in Nat
      BY DEF Nodes
    <3>. QED BY <1>2, <3>1, <3>2 DEF ReadCode, Complete
  <2>3. PICK cost \in Nat \ {0} : cost = 1
    OBVIOUS
  <2>4. PICK a \in Outcomes :
          /\ a = CASE code > 1 \/ code < 0 ->
                        Returns(c, convert_error_code(SCRATCHPAD_LOCAL_BLOCK_READ, code))
                   [] code = 1 -> Loads(NotCopied(c))
                   [] OTHER -> Loads(Next1(c, octets))
          /\ GoodOutcome(a, n, 0, T) /\ a.c.at \notin MtuPlaces
    <3>1. CASE code \in {2, 3, 4}
      <4>1. PICK err \in app_res_e \ {"OK"} :
              err = convert_error_code(SCRATCHPAD_LOCAL_BLOCK_READ, code)
        BY <3>1, BlockReadCodes
      <4>2. PICK a \in Outcomes : a = Returns(c, err) /\ a.c = c /\ GoodOutcome(a, n, 0, T)
        BY <1>3, TransferFails
      <4>. QED BY <1>3, <3>1, <4>1, <4>2
    <3>2. CASE code = 1
      <4>1. PICK d \in Calls : /\ d = NotCopied(c) /\ d.op = c.op /\ d.at = c.at
                               /\ Len(d.got) <= Len(d.data) /\ Moved(d, n)
        BY <1>3, <2>2, <3>2, BlockNotCopied
      <4>2. PICK a \in Outcomes : a = Loads(d) /\ GoodOutcome(a, n, 0, T) /\ a.c.at \notin MtuPlaces
        BY <1>3, <4>1, LoadsGood DEF Loading
      <4>. QED BY <3>2, <4>1, <4>2
    <3>3. CASE code = 0
      <4>1. PICK d \in Calls : /\ d = Next1(c, octets) /\ d.op = c.op /\ d.at = c.at
                               /\ Len(d.got) <= Len(d.data) /\ Moved(d, n)
        BY <1>3, <2>2, <3>3, BlockDownloaded
      <4>2. PICK a \in Outcomes : a = Loads(d) /\ GoodOutcome(a, n, 0, T) /\ a.c.at \notin MtuPlaces
        BY <1>3, <4>1, LoadsGood DEF Loading
      <4>. QED BY <3>3, <4>1, <4>2
    <3>. QED BY <3>1, <3>2, <3>3
  <2>5. Requests(t, cost, n, a, b)
    BY <1>2, <1>3, <1>6, <2>1, <2>2, <2>3, <2>4 DEF DownloadBlock, TIMEOUT
  <2>. QED BY <1>1, <1>2, <1>3, <2>1, <2>4, <2>5, PlainRequest
<1>. QED BY <1>5, <1>6

----------------------------------------------------------------------------
(* The MTU                                                                 *)

\* The indication of a reboot that is fetched sends the dispatch thread to
\* read the MTU; one that is not fetched stays.
LEMMA InvPoll ==
  ASSUME Inv, Poll
  PROVE  Inv'
<1>1. /\ Dispatch \in Callers /\ node \in Nodes /\ call[Dispatch] = Idle
      /\ silence \in Nat /\ TypeOK /\ MtuInv
  BY DEF Callers, Inv, TypeOK, Poll
<1>2. PICK after \in Nodes : /\ after = [node EXCEPT !.told = TRUE] /\ after.told = TRUE
                             /\ after.firmware = node.firmware /\ (node.told => after = node)
  <2>1. [node EXCEPT !.told = TRUE] \in Nodes
    BY <1>1, NodeType
  <2>. QED BY <1>1, <2>1 DEF Nodes
<1>3. PICK T : T = m_timeout_after_stop_task_s
  OBVIOUS
<1>4. PICK b \in Outcomes : b = Goes(Idle) /\ b.c = Idle /\ ~b.ends /\ Lossy(b)
                            /\ GoodOutcome(b, after, 0, T)
  <2>1. PICK i \in Calls : i = Idle
    BY IdleType
  <2>2. Plain(i.op) /\ Shape(i)
    BY <2>1, IdleType DEF Plain, Shape, BlockTransfers, Loading, MtuPlaces
  <2>. QED BY <2>1, <2>2, PlainGoes, GoesType
<1>5. PICK h \in Outcomes : h = Handler /\ ~h.ends /\ h.c.at = "mtu" /\ GoodOutcome(h, after, 0, T)
  <2>1. PICK e \in Calls : e = Call("state", "", << >>, 0) /\ e.op = "state" /\ e.got = << >>
    <3>1. PICK op \in Ops, at \in Places : op = "state" /\ at = ""
      BY DEF Ops, Places
    <3>2. PICK c \in Calls : c = Call(op, at, << >>, 0) /\ c.op = op /\ c.got = << >>
      BY BareCall
    <3>. QED BY <3>1, <3>2
  <2>2. PICK d \in Calls : d = [e EXCEPT !.at = "mtu"] /\ d.op = "state" /\ d.at = "mtu" /\ d.got = << >>
    <3>1. "mtu" \in Places
      BY DEF Places
    <3>2. [e EXCEPT !.at = "mtu"] \in Calls
      BY <3>1 DEF Calls
    <3>. QED BY <2>1, <3>2 DEF Calls
  <2>3. Plain(d.op) /\ Shape(d)
    BY <2>2 DEF Plain, Shape, BlockTransfers, Loading, MtuPlaces
  <2>4. PICK h \in Outcomes : h = Goes(d) /\ h.c = d /\ ~h.ends /\ GoodOutcome(h, after, 0, T)
    BY <2>3, PlainGoes, GoesType
  <2>. QED BY <2>1, <2>2, <2>4 DEF Handler, SetsMtu
<1>6. PICK a \in Outcomes : /\ a = IF node.told THEN b ELSE h
                            /\ ~a.ends /\ GoodOutcome(a, after, 0, T)
  BY <1>4, <1>5
<1>7. PICK cost \in Nat \ {0} : cost = 1
  OBVIOUS
<1>8. Requests(Dispatch, cost, after, a, b)
  BY <1>2, <1>4, <1>5, <1>6, <1>7 DEF Poll, OK, TIMEOUT
<1>9. /\ Request(Dispatch, cost, after, a, b)
      /\ UNCHANGED <<m_mtu, m_disabled_poll_request, stale, boots, m_timeout_after_stop_task_s, open>>
      /\ open
  BY <1>8 DEF Requests, Request
<1>10. /\ node' \in Nodes /\ silence' \in Nat /\ lost' \in Nat /\ exited' \in BOOLEAN
       /\ call' \in [Callers -> Calls] /\ answer' \in [c : Calls, res : Results]
       /\ CallsInv' /\ ExitInv' /\ AnswerInv'
  <2>1. PICK n \in Nodes : n = node
    BY <1>1
  <2>2. Loss(b, cost, n) /\ Loss(b, cost, after)
    BY <1>4, LossyGood
  <2>3. GoodOutcome(a, after, 0, m_timeout_after_stop_task_s)
    BY <1>3, <1>6
  <2>. QED BY <1>1, <1>9, <2>1, <2>2, <2>3, RequestKeeps
<1>11. MtuInv'
  <2>1. /\ \A u \in Callers \ {Dispatch} : call'[u].at = call[u].at /\ call'[u].got = call[u].got
        /\ \/ call'[Dispatch] = a.c
           \/ call'[Dispatch].at = "" /\ call'[Dispatch].got = << >>
    <3>1. /\ \/ call'[Dispatch] = (IF a.ends THEN Idle ELSE a.c)
             \/ /\ call'[Dispatch].at = (IF b.ends THEN "" ELSE b.c.at)
                /\ call'[Dispatch].got = (IF b.ends THEN << >> ELSE b.c.got)
          /\ \A u \in Callers \ {Dispatch} : call'[u].at = call[u].at /\ call'[u].got = call[u].got
      BY <1>1, <1>9, RequestPlaces, ZenonT(40)
    <3>. QED BY <1>4, <1>6, <3>1, IdleType
  <2>2. call[Dispatch].at = "" /\ call[Dispatch].got = << >>
    BY <1>1, IdleType
  <2>3. node'.firmware = node.firmware
    BY <1>1, <1>2, <1>9, RequestPlaces
  <2>4. CASE call'[Dispatch].at = "mtu"
    <3>1. At(Dispatch, "mtu")' /\ \A u \in Callers : At(u, "store")' => At(u, "store")
      BY <2>1, <2>4 DEF At
    <3>. QED BY <1>1, <1>9, <3>1 DEF MtuInv
  <2>5. CASE call'[Dispatch].at # "mtu"
    <3>1. call'[Dispatch].at = ""
      BY <1>4, <1>5, <1>6, <2>1, <2>5, IdleType
    <3>2. node'.told => node.told
      <4>1. CASE node.told
        BY <4>1
      <4>2. CASE ~node.told
        <5>1. a = h
          BY <1>6, <4>2
        <5>2. ~Answered(Dispatch, after, a)
          <6>1. ASSUME Answered(Dispatch, after, a) PROVE FALSE
            <7>1. call'[Dispatch] = h.c
              BY <1>1, <1>5, <5>1, <6>1 DEF Answered, Proceeds
            <7>. QED BY <1>5, <2>5, <7>1
          <6>. QED BY <6>1
        <5>3. silence' = silence + cost
          BY <1>9, <5>2 DEF Request, Lost
        <5>4. silence' # 0
          BY <1>1, <5>3
        <5>. QED BY <5>4 DEF Poll
      <4>. QED BY <4>1, <4>2
    <3>3. \A u \in Callers : \/ call'[u].at = call[u].at /\ call'[u].got = call[u].got
                             \/ {call'[u].at, call[u].at} \cap MtuPlaces = {}
      BY <2>1, <2>2, <3>1 DEF MtuPlaces
    <3>. QED BY <1>1, <1>9, <2>3, <3>2, <3>3, MtuKept
  <2>. QED BY <2>4, <2>5
<1>12. TypeOK'
  BY <1>1, <1>9, <1>10 DEF TypeOK
<1>13. OpenInv'
  BY <1>9 DEF OpenInv
<1>. QED BY <1>10, <1>11, <1>12, <1>13 DEF Inv

\* A reading that succeeds while no other one waits to be stored is the node's.
LEMMA InvReadMtu ==
  ASSUME Inv, NEW t \in Callers, ReadMtu(t)
  PROVE  Inv'
<1>1. /\ node \in Nodes /\ call \in [Callers -> Calls] /\ TypeOK /\ CallsInv
      /\ call[t].at = "mtu" /\ GoodCall(call[t], node, silence, m_timeout_after_stop_task_s)
  BY DEF Inv, TypeOK, CallsInv, ReadMtu, At
<1>2. PICK c \in Calls, n \in Nodes, s \in Nat, T \in Nat :
        c = call[t] /\ n = node /\ s = silence /\ T = m_timeout_after_stop_task_s
  BY <1>1, Times DEF TypeOK
<1>3. c.at = "mtu" /\ c.op \in {"init", "state"} /\ c.got = << >> /\ Plain(c.op)
  <2>1. Shape(c)
    BY <1>1, <1>2 DEF GoodCall
  <2>. QED BY <1>1, <1>2, <2>1 DEF Shape, MtuPlaces, Plain, BlockTransfers
<1>4. PICK o \in Seq(Octet) : o = <<Mtu(n.firmware)>> /\ o # << >>
  <2>1. PICK f \in {0, 1} : f = n.firmware
    BY DEF Nodes
  <2>2. PICK m \in Octet : m = Mtu(f)
    BY DEF Mtu, DEFAULT_MTU_SIZE, Octet
  <2>3. <<m>> \in Seq(Octet) /\ <<m>> # << >>
    OBVIOUS
  <2>4. <<m>> = <<Mtu(n.firmware)>>
    BY <2>1, <2>2
  <2>. QED BY <2>3, <2>4
<1>5. PICK d \in Calls : /\ d = [c EXCEPT !.at = "store", !.got = o] /\ d.at = "store" /\ d.got = o
                         /\ d.op = c.op
  <2>1. "store" \in Places
    BY DEF Places
  <2>2. [c EXCEPT !.at = "store", !.got = o] \in Calls
    BY <2>1 DEF Calls
  <2>. QED BY <2>2 DEF Calls
<1>6. PICK e \in Calls : /\ e = [c EXCEPT !.at = "store"] /\ e.at = "store" /\ e.got = << >>
                         /\ e.op = c.op
  <2>1. "store" \in Places
    BY DEF Places
  <2>2. [c EXCEPT !.at = "store"] \in Calls
    BY <2>1 DEF Calls
  <2>. QED BY <1>3, <2>2 DEF Calls
<1>7. Shape(d) /\ Shape(e)
  BY <1>3, <1>5, <1>6 DEF Shape, Loading, MtuPlaces
<1>8. PICK a \in Outcomes : a = Goes(d) /\ a.c = d /\ ~a.ends /\ GoodOutcome(a, n, 0, T)
  BY <1>3, <1>5, <1>7, PlainGoes, GoesType
<1>9. PICK b \in Outcomes : b = Goes(e) /\ b.c = e /\ ~b.ends /\ Lossy(b)
  BY <1>3, <1>6, <1>7, PlainGoes, GoesType
<1>10. PICK cost \in Nat \ {0} : cost = 1
  OBVIOUS
<1>11. Request(t, cost, n, a, b)
  BY <1>2, <1>4, <1>5, <1>6, <1>8, <1>9, <1>10 DEF ReadMtu, OK, TIMEOUT
<1>12. /\ UNCHANGED <<m_mtu, m_disabled_poll_request, boots, m_timeout_after_stop_task_s, open>> /\ open
       /\ stale' = (call'[t].got = << >> \/ \E u \in Callers \ {t} : At(u, "store"))
  BY <1>11 DEF ReadMtu, Request
<1>13. /\ node' \in Nodes /\ silence' \in Nat /\ lost' \in Nat /\ exited' \in BOOLEAN
       /\ call' \in [Callers -> Calls] /\ answer' \in [c : Calls, res : Results]
       /\ CallsInv' /\ ExitInv' /\ AnswerInv'
  <2>1. Loss(b, cost, n)
    BY <1>9, LossyGood
  <2>2. GoodOutcome(a, n, 0, m_timeout_after_stop_task_s)
    BY <1>2, <1>8
  <2>. QED BY <1>2, <1>11, <2>1, <2>2, RequestKeeps
<1>14. MtuInv'
  <2>1. /\ \A u \in Callers \ {t} : call'[u].at = call[u].at /\ call'[u].got = call[u].got
        /\ call'[t] = d \/ (call'[t].at = "store" /\ call'[t].got = << >>)
        /\ node'.firmware = n.firmware
    <3>1. /\ \/ call'[t] = (IF a.ends THEN Idle ELSE a.c)
             \/ /\ call'[t].at = (IF b.ends THEN "" ELSE b.c.at)
                /\ call'[t].got = (IF b.ends THEN << >> ELSE b.c.got)
          /\ \A u \in Callers \ {t} : call'[u].at = call[u].at /\ call'[u].got = call[u].got
          /\ node'.firmware = node.firmware \/ node'.firmware = n.firmware
      BY <1>11, RequestPlaces
    <3>2. node'.firmware = n.firmware
      BY <1>2, <3>1
    <3>3. call'[t] = d \/ (call'[t].at = "store" /\ call'[t].got = << >>)
      <4>1. (IF a.ends THEN Idle ELSE a.c) = d
        BY <1>8
      <4>2. (IF b.ends THEN "" ELSE b.c.at) = "store" /\ (IF b.ends THEN << >> ELSE b.c.got) = << >>
        BY <1>6, <1>9
      <4>. QED BY <3>1, <4>1, <4>2, Zenon
    <3>. QED BY <3>1, <3>2, <3>3
  <2>2. call'[t].at = "store"
    BY <1>5, <2>1
  <2>3. ASSUME ~stale' PROVE call'[t].got = o /\ \A u \in Callers : call'[u].at = "store" => u = t
    <3>1. call'[t].got # << >> /\ \A u \in Callers \ {t} : ~At(u, "store")
      BY <1>12, <2>3
    <3>. QED BY <1>5, <2>1, <3>1 DEF At
  <2>. QED BY <1>4, <2>1, <2>2, <2>3 DEF MtuInv, At
<1>15. stale' \in BOOLEAN
  BY <1>12
<1>16. TypeOK'
  BY <1>1, <1>12, <1>13, <1>15 DEF TypeOK
<1>17. OpenInv'
  BY <1>12 DEF OpenInv
<1>. QED BY <1>13, <1>14, <1>16, <1>17 DEF Inv

LEMMA InvStoreMtu ==
  ASSUME Inv, NEW t \in Callers, StoreMtu(t)
  PROVE  Inv'
<1>1. /\ node \in Nodes /\ call \in [Callers -> Calls] /\ TypeOK /\ CallsInv /\ OpenInv /\ MtuInv
      /\ silence \in Nat
      /\ call[t].at = "store" /\ GoodCall(call[t], node, silence, m_timeout_after_stop_task_s)
  BY DEF Inv, TypeOK, CallsInv, StoreMtu, At
<1>2. PICK c \in Calls, n \in Nodes, s \in Nat, T \in Nat :
        c = call[t] /\ n = node /\ s = silence /\ T = m_timeout_after_stop_task_s
  BY <1>1, Times DEF TypeOK
<1>3. c.at = "store" /\ Plain(c.op)
  <2>1. Shape(c)
    BY <1>1, <1>2 DEF GoodCall
  <2>. QED BY <1>1, <1>2, <2>1 DEF Shape, MtuPlaces, Plain, BlockTransfers
<1>4. open
  BY <1>1, IdleType DEF OpenInv
<1>5. PICK r \in Outcomes : r = Returns(c, "OK") /\ r.c = c /\ r.ends /\ GoodOutcome(r, n, s, T)
  <2>1. PICK res \in app_res_e : res = "OK"
    BY ErrorTypes
  <2>. QED BY <1>3, <2>1, PlainReturns, ReturnsType
<1>6. PICK cost \in Nat, v \in BOOLEAN : cost = 0 /\ Proceeds(t, r, cost, v)
  <2>1. Proceeds(t, r, 0, FALSE)
    BY <1>2, <1>5 DEF StoreMtu
  <2>. QED BY <2>1
<1>7. /\ UNCHANGED <<node, open, m_timeout_after_stop_task_s, m_disabled_poll_request, silence, exited,
                     lost, stale, boots>> /\ ~exited
      /\ m_mtu' = IF call[t].got = << >> THEN m_mtu ELSE call[t].got[1]
  BY DEF StoreMtu, line
<1>8. GoodOutcome(r, node', silence', m_timeout_after_stop_task_s)
  BY <1>2, <1>5, <1>7
<1>9. /\ node' \in Nodes /\ silence' \in Nat /\ node'.pad = node.pad /\ node'.firmware = node.firmware
      /\ node'.down = node.down /\ node'.down <= node.down /\ silence' = silence
  <2>1. node.down \in Nat
    BY <1>1 DEF Nodes
  <2>. QED BY <1>1, <1>7, <2>1
<1>10. exited' \in BOOLEAN /\ ~exited'
  BY <1>1, <1>7, Zenon DEF TypeOK
<1>11. /\ call' \in [Callers -> Calls] /\ answer' \in [c : Calls, res : Results]
       /\ CallsInv' /\ ExitInv' /\ AnswerInv'
  BY <1>1, <1>6, <1>7, <1>8, <1>9, <1>10, ProceedsKeeps
<1>12. m_mtu' \in Nat
  <2>1. CASE c.got = << >>
    BY <1>1, <1>2, <1>7, <2>1 DEF TypeOK
  <2>2. CASE c.got # << >>
    <3>1. c.got \in Seq(Octet)
      BY DEF Calls
    <3>2. c.got[1] \in Octet
      BY <2>2, <3>1, EmptySeq, LenProperties
    <3>3. m_mtu' = c.got[1]
      BY <1>2, <1>7, <2>2
    <3>. QED BY <3>2, <3>3 DEF Octet
  <2>. QED BY <2>1, <2>2
<1>13. MtuInv'
  <2>1. /\ \A u \in Callers \ {t} : call'[u].at = call[u].at /\ call'[u].got = call[u].got
        /\ call'[t].at = ""
    <3>1. /\ call'[t] = (IF r.ends THEN Idle ELSE r.c)
          /\ \A u \in Callers \ {t} : call'[u].at = call[u].at /\ call'[u].got = call[u].got
      BY <1>1, <1>6, ProceedsPlaces
    <3>. QED BY <1>5, <3>1, IdleType
  <2>2. \A u \in Callers : /\ call'[u].at = "store" => call[u].at = "store" /\ u # t
                           /\ call'[u].at = "mtu" <=> call[u].at = "mtu"
    BY <1>1, <2>1
  <2>3. ~stale => \A u \in Callers : call'[u].at # "store"
    BY <1>1, <2>2 DEF MtuInv, At
  <2>4. ASSUME open, ~stale, node.told, \A u \in Callers : call'[u].at # "mtu"
        PROVE  m_mtu' = Mtu(node.firmware)
    <3>1. PICK u \in Callers : call[u].at = "store" /\ call[u].got = <<Mtu(node.firmware)>>
      BY <1>1, <2>2, <2>4 DEF MtuInv, At
    <3>2. u = t
      BY <1>1, <2>4, <3>1 DEF MtuInv, At
    <3>3. call[t].got = <<Mtu(node.firmware)>> /\ call[t].got # << >>
          /\ call[t].got[1] = Mtu(node.firmware)
      BY <3>1, <3>2
    <3>. QED BY <1>7, <3>3
  <2>. QED BY <1>7, <2>3, <2>4 DEF MtuInv, At
<1>14. TypeOK'
  BY <1>1, <1>7, <1>11, <1>12 DEF TypeOK
<1>15. OpenInv'
  BY <1>4, <1>7 DEF OpenInv
<1>. QED BY <1>11, <1>13, <1>14, <1>15 DEF Inv

LEMMA InvInitialize ==
  ASSUME Inv, NEW t \in Threads, Initialize(t)
  PROVE  Inv'
<1>1. /\ t \in Callers /\ node \in Nodes /\ silence \in Nat /\ TypeOK
      /\ \A u \in Callers : call[u] = Idle
  BY DEF Callers, Inv, TypeOK, OpenInv, Initialize
<1>2. UNCHANGED <<node, m_mtu, m_timeout_after_stop_task_s, m_disabled_poll_request,
                  exited, lost, stale, boots>> /\ ~exited /\ ~open
  BY DEF Initialize
<1>3. PICK n, s, T : n = node /\ s = silence' /\ T = m_timeout_after_stop_task_s
  OBVIOUS
<1>4. PICK r \in Outcomes, v \in BOOLEAN :
        /\ Proceeds(t, r, 0, v) /\ GoodOutcome(r, n, s, T)
        /\ \/ r.ends /\ open' = open /\ silence' = silence
           \/ ~r.ends /\ r.c.at = "mtu" /\ open' = TRUE /\ silence' = 0
  <2>1. PICK op \in Ops, at \in Places, mtu \in Places : op = "init" /\ at = "" /\ mtu = "mtu"
    BY DEF Ops, Places
  <2>2. PICK c \in Calls : c = Call("init", "", << >>, 0) /\ c.op = "init"
    <3>1. PICK c \in Calls : c = Call(op, at, << >>, 0) /\ c.op = op
      BY BareCall
    <3>. QED BY <2>1, <3>1
  <2>3. PICK d \in Calls : d = Call("init", "mtu", << >>, 0) /\ d.op = "init" /\ d.at = "mtu" /\ d.got = << >>
    <3>1. PICK d \in Calls : d = Call(op, mtu, << >>, 0) /\ d.op = op /\ d.at = mtu /\ d.got = << >>
      BY BareCall
    <3>. QED BY <2>1, <3>1
  <2>4. PICK a \in Outcomes : a = Returns(c, "INTERNAL_ERROR") /\ a.ends /\ GoodOutcome(a, n, s, T)
    <3>1. PICK res \in app_res_e : res = "INTERNAL_ERROR"
      BY ErrorTypes
    <3>. QED BY <2>2, <3>1, PlainReturns, ReturnsType DEF Plain, BlockTransfers
  <2>5. PICK b \in Outcomes : b = Goes(d) /\ b.c = d /\ ~b.ends /\ GoodOutcome(b, n, s, T)
    <3>1. Plain(d.op) /\ Shape(d)
      BY <2>3 DEF Plain, Shape, BlockTransfers, Loading, MtuPlaces
    <3>. QED BY <3>1, PlainGoes, GoesType
  <2>6. \/ Proceeds(t, a, 0, FALSE) /\ UNCHANGED <<open, silence>>
        \/ Proceeds(t, b, 0, FALSE) /\ open' = TRUE /\ silence' = 0
    BY <2>2, <2>3, <2>4, <2>5 DEF Initialize
  <2>. QED BY <2>3, <2>4, <2>5, <2>6
<1>5. /\ call' = [u \in Callers |-> IF u = t THEN IF r.ends THEN Idle ELSE r.c ELSE Idle]
      /\ answer' = IF r.ends THEN [c |-> r.c, res |-> r.res] ELSE None
  BY <1>1, <1>4 DEF Proceeds
<1>6. r.c \in Calls /\ r.res \in Results
  BY DEF Outcomes
<1>7. /\ call' \in [Callers -> Calls] /\ answer' \in [c : Calls, res : Results]
  BY <1>5, <1>6, IdleType
<1>8. CallsInv'
  <2>1. \A u \in Callers : GoodCall(call'[u], n, s, T)
    BY <1>4, <1>5, IdleGood DEF GoodOutcome
  <2>. QED BY <1>2, <1>3, <2>1 DEF CallsInv
<1>9. AnswerInv'
  <2>1. GoodAnswer(answer', n, T)
    BY <1>4, <1>5, NoneGood DEF GoodOutcome
  <2>. QED BY <1>2, <1>3, <2>1 DEF AnswerInv
<1>10. ExitInv'
  BY <1>2 DEF ExitInv
<1>11. MtuInv'
  <2>1. \A u \in Callers : ~At(u, "store")'
    BY <1>4, <1>5, IdleType DEF At
  <2>2. CASE r.ends
    <3>1. ~open'
      BY <1>2, <1>4, <2>2
    <3>. QED BY <2>1, <3>1 DEF MtuInv
  <2>3. CASE ~r.ends
    <3>1. At(t, "mtu")'
      BY <1>1, <1>4, <1>5, <2>3 DEF At
    <3>. QED BY <1>1, <2>1, <3>1 DEF MtuInv
  <2>. QED BY <2>2, <2>3
<1>12. TypeOK'
  <2>1. open' \in BOOLEAN
    BY <1>1, <1>4, Zenon DEF TypeOK
  <2>2. silence' \in Nat
    BY <1>1, <1>4
  <2>. QED BY <1>1, <1>2, <1>7, <2>1, <2>2 DEF TypeOK
<1>13. OpenInv'
  BY <1>4, <1>5 DEF OpenInv
<1>. QED BY <1>8, <1>9, <1>10, <1>11, <1>12, <1>13 DEF Inv

----------------------------------------------------------------------------
(* Reboots, the timeout, the end of the library                            *)

\* What disturbs every caller leaves nothing to keep but the shapes.
LEMMA DisturbedKeeps ==
  ASSUME Inv, call' = AllDisturbed, answer' = None, ~exited, UNCHANGED <<open, exited, m_mtu, stale>>,
         node'.told => node.told /\ node'.firmware = node.firmware
  PROVE  /\ call' \in [Callers -> Calls] /\ answer' \in [c : Calls, res : Results]
         /\ OpenInv' /\ CallsInv' /\ ExitInv' /\ AnswerInv' /\ MtuInv'
<1>1. call \in [Callers -> Calls] /\ CallsInv /\ OpenInv /\ MtuInv
  BY DEF Inv, TypeOK
<1>2. PICK n, s, T : n = node' /\ s = silence' /\ T = m_timeout_after_stop_task_s'
  OBVIOUS
<1>3. ASSUME NEW u \in Callers
      PROVE  /\ call'[u] \in Calls /\ GoodCall(call'[u], n, s, T)
             /\ call'[u].at = call[u].at /\ call'[u].got = call[u].got
             /\ call[u] = Idle => call'[u] = Idle
  <2>1. CASE call[u] = Idle
    BY <2>1, IdleGood, IdleType DEF AllDisturbed
  <2>2. CASE call[u] # Idle
    <3>1. PICK c \in Calls : c = call[u]
      BY <1>1
    <3>2. Shape(c)
      BY <1>1, <3>1 DEF CallsInv, GoodCall
    <3>3. PICK d \in Calls : /\ d = [c EXCEPT !.clean = FALSE] /\ d.op = c.op /\ d.at = c.at
                             /\ d.data = c.data /\ d.got = c.got /\ d.clean = FALSE
      <4>1. [c EXCEPT !.clean = FALSE] \in Calls
        BY DEF Calls
      <4>. QED BY <4>1 DEF Calls
    <3>4. call'[u] = d
      BY <2>2, <3>1, <3>3 DEF AllDisturbed
    <3>5. Shape(d)
      BY <3>2, <3>3, ShapeSame
    <3>6. GoodCall(d, n, s, T)
      BY <3>3, <3>5 DEF GoodCall, TransferGood, StopGood
    <3>. QED BY <2>2, <3>1, <3>3, <3>4, <3>6
  <2>. QED BY <2>1, <2>2
<1>4. call' \in [Callers -> Calls]
  <2>1. call' = [u \in Callers |-> call'[u]]
    BY DEF AllDisturbed
  <2>. QED BY <1>3, <2>1
<1>5. CallsInv'
  BY <1>2, <1>3 DEF CallsInv
<1>6. OpenInv'
  BY <1>1, <1>3 DEF OpenInv
<1>7. AnswerInv'
  BY NoneGood DEF AnswerInv
<1>8. ExitInv'
  BY DEF ExitInv
<1>9. MtuInv'
  BY <1>1, <1>3, MtuKept
<1>. QED BY <1>4, <1>5, <1>6, <1>7, <1>8, <1>9, IdleType

LEMMA InvSetMax ==
  ASSUME Inv, NEW d \in Durations, SetMaxPollFailDuration(d)
  PROVE  Inv'
<1>1. /\ call' \in [Callers -> Calls] /\ answer' \in [c : Calls, res : Results]
      /\ OpenInv' /\ CallsInv' /\ ExitInv' /\ AnswerInv' /\ MtuInv'
  BY DisturbedKeeps DEF SetMaxPollFailDuration
<1>2. TypeOK'
  BY <1>1 DEF Inv, TypeOK, SetMaxPollFailDuration
<1>. QED BY <1>1, <1>2 DEF Inv

LEMMA InvNodeReboots ==
  ASSUME Inv, NodeReboots
  PROVE  Inv'
<1>1. PICK r \in 1..MaxDown : node' = Rebooted(r)
  BY DEF NodeReboots
<1>2. node' \in Nodes /\ ~node'.told
  <2>1. node \in Nodes /\ r \in Nat
    BY Times DEF Inv, TypeOK
  <2>2. Rebooted(r) \in Nodes /\ Rebooted(r).told = FALSE
    BY <2>1, RebootType
  <2>3. PICK n \in Nodes : n = Rebooted(r) /\ n.told = FALSE
    BY <2>2
  <2>4. node' = n
    BY <1>1, <2>3
  <2>. QED BY <2>3, <2>4
<1>3. /\ call' \in [Callers -> Calls] /\ answer' \in [c : Calls, res : Results]
      /\ OpenInv' /\ CallsInv' /\ ExitInv' /\ AnswerInv' /\ MtuInv'
  BY <1>2, DisturbedKeeps DEF NodeReboots, host, line
<1>4. TypeOK'
  BY <1>2, <1>3 DEF Inv, TypeOK, NodeReboots, host, line
<1>. QED BY <1>3, <1>4 DEF Inv

\* Nothing but the last answer changes.
LEMMA InvReturned ==
  ASSUME Inv, answer' = None, UNCHANGED <<node, host, line, call, stale, boots>>
  PROVE  Inv'
<1>1. AnswerInv'
  BY NoneGood DEF AnswerInv
<1>2. TypeOK'
  BY IdleType DEF Inv, TypeOK, host, line
<1>3. OpenInv' /\ CallsInv' /\ ExitInv' /\ MtuInv'
  BY DEF Inv, OpenInv, CallsInv, ExitInv, MtuInv, At, host, line
<1>. QED BY <1>1, <1>2, <1>3 DEF Inv

LEMMA InvClose ==
  ASSUME Inv, Close
  PROVE  Inv'
<1>1. /\ open' = FALSE /\ answer' = None /\ \A t \in Callers : call[t] = Idle
      /\ UNCHANGED <<node, m_mtu, m_timeout_after_stop_task_s, m_disabled_poll_request,
                     silence, exited, lost, call, stale, boots>>
  BY DEF Close, line
<1>2. AnswerInv'
  BY <1>1, NoneGood DEF AnswerInv
<1>3. TypeOK'
  BY <1>1, IdleType DEF Inv, TypeOK
<1>4. OpenInv' /\ CallsInv' /\ ExitInv' /\ MtuInv'
  BY <1>1 DEF Inv, OpenInv, CallsInv, ExitInv, MtuInv, At
<1>. QED BY <1>2, <1>3, <1>4 DEF Inv

----------------------------------------------------------------------------
(* The theorems                                                            *)

LEMMA InvInit ==
  ASSUME Init
  PROVE  Inv
<1>1. /\ \A t \in Callers : call[t] = Idle
      /\ answer = None /\ ~exited /\ ~open /\ stale
  BY DEF Init
<1>2. TypeOK
  <2>1. node \in Nodes
    BY EmptySeq DEF Init, Nodes, NoPad
  <2>2. Default \in Durations
    BY TimesAssumption DEF Default
  <2>. QED BY <2>1, <2>2, IdleType DEF Init, TypeOK, DEFAULT_MTU_SIZE
<1>3. CallsInv
  <2>1. PICK n, s, T : n = node /\ s = silence /\ T = m_timeout_after_stop_task_s
    OBVIOUS
  <2>2. \A t \in Callers : GoodCall(call[t], n, s, T)
    BY <1>1, IdleGood
  <2>. QED BY <2>1, <2>2 DEF CallsInv
<1>4. AnswerInv
  <2>1. PICK n, T : n = node /\ T = m_timeout_after_stop_task_s
    OBVIOUS
  <2>2. GoodAnswer(None, n, T)
    BY NoneGood
  <2>. QED BY <1>1, <2>1, <2>2 DEF AnswerInv
<1>5. OpenInv /\ ExitInv /\ MtuInv
  BY <1>1 DEF OpenInv, ExitInv, MtuInv
<1>. QED BY <1>2, <1>3, <1>4, <1>5 DEF Inv

LEMMA InvNext ==
  ASSUME Inv, [Next]_vars
  PROVE  Inv'
<1>1. CASE UNCHANGED vars
  BY <1>1 DEF Inv, TypeOK, OpenInv, CallsInv, ExitInv, AnswerInv, MtuInv, At, vars, host, line
<1>2. CASE Returned
  BY <1>2, InvReturned DEF Returned
<1>3. ASSUME NEW t \in Threads,
             Initialize(t) \/ StartStack(t) \/ StopStack(t) \/ RequestStop(t) \/ WaitAfterStop(t)
               \/ ReadStatus(t) \/ StatusTimesOut(t) \/ StopEnds(t)
      PROVE  Inv'
  BY <1>3, InvInitialize, InvStart, InvStopStack, InvRequestStop, InvWaitAfterStop, InvReadStatus,
     InvStatusTimesOut, InvStopEnds
<1>4. ASSUME NEW t \in Threads,
             BeginTransfer(t) \/ ReadVersion(t) \/ StartUpdate(t) \/ ReadBlockMax(t)
               \/ UploadBlock(t) \/ DownloadBlock(t) \/ ClearLocalScratchpad(t)
               \/ UpdateLocalScratchpad(t) \/ StartScanNeighbors(t)
      PROVE  Inv'
  BY <1>4, InvBeginTransfer, InvReadVersion, InvStartUpdate, InvReadBlockMax, InvUploadBlock,
     InvDownloadBlock, InvClear, InvUpdate, InvScan
<1>5. CASE \E t \in Callers : ReadMtu(t) \/ StoreMtu(t)
  BY <1>5, InvReadMtu, InvStoreMtu
<1>6. CASE \E d \in Durations : SetMaxPollFailDuration(d)
  BY <1>6, InvSetMax
<1>7. CASE Close \/ Poll \/ NodeReboots
  BY <1>7, InvClose, InvPoll, InvNodeReboots
<1>. QED BY <1>1, <1>2, <1>3, <1>4, <1>5, <1>6, <1>7 DEF Next, Step, ThreadStep, OtherStep

\* The inductive invariant holds for every set of threads and of scratchpads,
\* every block size, duration and timeout.
THEOREM Invariance == Spec => []Inv
<1>1. Init => Inv
  BY InvInit
<1>2. Inv /\ [Next]_vars => Inv'
  BY InvNext
<1>. QED BY <1>1, <1>2, PTL DEF Spec

\* Every variable keeps its type: the time left of a status read fits the
\* uint16_t of get_stack_status, the octets of a transfer are octets.
THEOREM TypeCorrect == Spec => []TypeOK
<1>1. Inv => TypeOK
  BY DEF Inv
<1>. QED BY <1>1, Invariance, PTL

\* An undisturbed transfer that returns APP_RES_OK has moved every octet to
\* its place, in whatever blocks and for however many callers.
THEOREM OkMeansTransferredHolds == Spec => []OkMeansTransferred
<1>1. Inv => OkMeansTransferred
  BY DEF Inv, AnswerInv, GoodAnswer, OkMeansTransferred, There
<1>. QED BY <1>1, Invariance, PTL

\* WPC_stop_stack outlasts every reboot that is no longer than the timeout,
\* and the watchdog does not end the process meanwhile.
THEOREM StopToleratesRebootHolds == Spec => []StopToleratesReboot
<1>1. Inv => StopToleratesReboot
  <2>1. SUFFICES ASSUME Inv PROVE StopToleratesReboot
    OBVIOUS
  <2>2. answer.c.op = "stop" /\ answer.c.clean /\ answer.res = "INTERNAL_ERROR"
          /\ Tolerated(m_timeout_after_stop_task_s)
        => answer.c.base > m_timeout_after_stop_task_s
    BY <2>1 DEF Inv, AnswerInv, GoodAnswer
  <2>3. \A t \in Threads :
          exited /\ call[t].op = "stop" /\ call[t].clean => call[t].base > m_timeout_after_stop_task_s
    BY <2>1 DEF Inv, ExitInv, Callers
  <2>. QED BY <2>2, <2>3 DEF StopToleratesReboot, Tolerated
<1>. QED BY <1>1, Invariance, PTL

\* The MTU in use is the node's, unless a reading failed or two crossed.
THEOREM MtuIsCurrentHolds == Spec => []MtuIsCurrent
<1>1. Inv => MtuIsCurrent
  <2>1. SUFFICES ASSUME Inv, open, ~stale, node.told,
                        \A t \in Callers : call[t].at \notin {"mtu", "store"}
                 PROVE  m_mtu = Mtu(node.firmware)
    BY DEF MtuIsCurrent
  <2>2. \A t \in Callers : ~At(t, "mtu") /\ ~At(t, "store")
    BY <2>1 DEF At
  <2>. QED BY <2>1, <2>2 DEF Inv, MtuInv
<1>. QED BY <1>1, Invariance, PTL
=============================================================================

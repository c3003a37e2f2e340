-------------------------- MODULE SinkConfigProofs --------------------------
(***************************************************************************)
(* Proofs about SinkConfig for every set of parameters and of values, any  *)
(* number of status indications and of failures.                           *)
(***************************************************************************)
EXTENDS SinkConfig, TLAPS

----------------------------------------------------------------------------
(* The inductive invariant                                                 *)

AppAt(steps) == pc["app"] \in steps

Planned == {"autostart off", "stop", "stopped"}
Setting == {"set"}
Starting == {"start", "start refresh", "started", "restarted"}
Ending == {"finish", "refresh", "answer"}

\* The place of the gateway's thread says what kind of request it serves, and
\* an idle thread has nothing left of the one before.
PlaceInv ==
  /\ AppAt({"idle"}) => /\ req = NoRequest /\ res = "ok" /\ left = {}
                        /\ blind = {} /\ ~upset
  /\ AppAt({"status"}) => req.kind \in {"get", "set"}
  /\ AppAt({"target"}) => req.kind = "target"
  /\ AppAt(Planned \cup Setting \cup Starting \cup {"finish"}) => req.kind = "set"
  /\ AppAt({"idle", "status", "target"} \cup Starting \cup Ending) => left = {}
  /\ AppAt(Planned \cup Setting) => todo["app"] = {}
  /\ req.kind = "set" => left \subseteq DOMAIN req.values

\* A parameter that is done with has the value that was asked for, unless the
\* request will answer an error.
AppliedInv ==
  AppAt(Planned \cup Setting \cup Starting \cup Ending) /\ res = "ok" /\ req.kind = "set" =>
    \A p \in DOMAIN req.values \ (left \cup blind) : stored[p] = req.values[p]

\* While nobody else touches the node, the host knows whether it runs: it does,
\* or it is going to be started.
RunInv ==
  ~upset /\ res = "ok" /\ "status" \notin blind =>
    /\ AppAt({"status"}) => ran = running
    /\ req.kind = "set" =>
         (req.state = "on" \/ (req.state = "none" /\ ran) =>
            /\ AppAt(Planned) => restart
            /\ AppAt(Setting) => restart \/ running
            /\ AppAt({"start refresh", "started", "restarted"} \cup Ending) => running)

\* What was changed is remembered until an event tells it, and what an event
\* has told is not changed any more.
ToldInv ==
  /\ AppAt({"idle", "status", "target"} \cup Planned) => applied = {}
  /\ AppAt(Setting) /\ applied # {} => changed \/ held["app"] # NoRead
  /\ AppAt(Starting \cup {"finish"}) /\ applied # {} => changed
  /\ AppAt({"answer"}) /\ applied # {} => told # NoEvent
  /\ told # NoEvent => AppAt({"started", "restarted"} \cup Ending)
  /\ told \notin {NoEvent, LostEvent} => \A f \in applied \ missed : told[f] = stored[f]

\* A field that was changed and is in doubt was missed, is being stored, or is
\* the target and about to be read.
MissedInv ==
  /\ applied \cap left = {}
  /\ \A f \in applied \cap unsure :
       \/ f \in missed
       \/ held["app"] # NoRead /\ held["app"].field = f
       \/ f = "target" /\ f \in todo["app"]

Inv == TypeOK /\ CacheIsTrue /\ PlaceInv /\ AppliedInv /\ RunInv /\ ToldInv /\ MissedInv

----------------------------------------------------------------------------
(* Types                                                                   *)

\* A request to set parameters names some of them, with values they can take.
LEMMA RequestTypes ==
  ASSUME RequestOK
  PROVE  /\ req.kind = "set" => /\ DOMAIN req.values \subseteq Params
                                /\ \A p \in DOMAIN req.values : req.values[p] \in Values
         /\ req.kind = "target" => req.value \in Targets
         /\ req.kind \in {"set", "target", "get", "none"}
BY DEF RequestOK, Requests, SetRequests, TargetRequests, NoRequest

\* A request of the backend reads or sets.
LEMMA RequestKinds ==
  ASSUME NEW r \in Requests
  PROVE  r.kind \in {"set", "target", "get"}
BY DEF Requests, SetRequests, TargetRequests

\* What is asked for a parameter is a value of a parameter.
LEMMA Considered ==
  ASSUME TypeOK, PlaceInv, NEW p \in left, Considers(p)
  PROVE  /\ req.kind = "set" /\ p \in Params /\ p \in Settings /\ p \in Fields
         /\ p \notin {"status", "target"} /\ p \in DOMAIN req.values
         /\ req.values[p] \in Values
BY RequestTypes, FieldsAssumption
DEF TypeOK, PlaceInv, AppAt, Setting, Considers, Fields, Settings

\* What the node holds of a field is one of its values.
LEMMA ActualTypes ==
  ASSUME TypeOK, NEW f \in Fields
  PROVE  /\ Actual[f] \in Values \cup Targets \cup {"running", "stopped"}
         /\ f # "status" => Actual[f] = stored[f]
         /\ f = "status" => Actual[f] = IF running THEN "running" ELSE "stopped"
<1>1. f # "status" => stored[f] \in Values \cup Targets
  BY DEF TypeOK, NodeOK, Settled, Fields, Settings
<1>. QED BY <1>1 DEF Actual

\* A value that was read and not yet stored.
LEMMA HeldTypes ==
  ASSUME TypeOK, NEW t \in Threads, held[t] # NoRead
  PROVE  /\ held[t].field \in Fields
         /\ held[t].value \in Values \cup Targets \cup {"running", "stopped"}
BY DEF TypeOK, ControlOK

\* Failures are counted up to their bound.
LEMMA FaultTypes ==
  ASSUME TypeOK, Fault \/ Fine
  PROVE  faults' \in 0 .. MaxFaults
BY FaultsAssumption DEF TypeOK, HistoryOK, Fault, Fine

\* The node keeps its type: what is set is a value of the field it is set for.
LEMMA NodeNext == TypeOK /\ PlaceInv /\ [Next]_vars => NodeOK'
<1>. SUFFICES ASSUME TypeOK /\ PlaceInv, [Next]_vars PROVE NodeOK'
  OBVIOUS
<1>. USE FieldsAssumption, PendingAssumption, RequestTypes
<1>. USE DEF TypeOK, NodeOK, PlaceInv, AppAt, Settled, node, control, request, history, Threads, Steps, Fields, Settings
<1>1. CASE PowerLoss
  BY <1>1 DEF PowerLoss, Boots, Fault, Doubt
<1>2. CASE OnStackStatusReceived
  BY <1>2 DEF OnStackStatusReceived, BeginsRefresh, Goto, Fine
<1>3. CASE AutostartOff
  BY <1>3 DEF AutostartOff, Fine, Fault, Goto
<1>4. CASE StopConfirmed
  BY <1>4 DEF StopConfirmed, Boots, Fine, Fault, Doubt, Goto
<1>5. CASE StopFails
  BY <1>5 DEF StopFails, Boots, Fine, Fault, Doubt, Goto
<1>6. ASSUME NEW p \in left, SetConfirmed(p) PROVE NodeOK'
  <2>1. req.values[p] \in Values /\ p \in Settings /\ p # "target"
    BY <1>6, Considered DEF SetConfirmed
  <2>2. stored' \in {stored, [stored EXCEPT ![p] = req.values[p]]}
    BY <1>6 DEF SetConfirmed
  <2>3. stored' \in Settled
    BY <2>1, <2>2
  <2>. QED BY <1>6, <2>3 DEF SetConfirmed, Considers
<1>7. ASSUME NEW p \in left, SetFails(p) PROVE NodeOK'
  <2>1. req.values[p] \in Values /\ p \in Settings /\ p # "target"
    BY <1>7, Considered DEF SetFails
  <2>2. stored' \in {stored, [stored EXCEPT ![p] = req.values[p]]}
    BY <1>7 DEF SetFails
  <2>3. stored' \in Settled
    BY <2>1, <2>2
  <2>. QED BY <1>7, <2>3 DEF SetFails, Considers
<1>8. CASE StartConfirmed
  BY <1>8 DEF StartConfirmed, Fine, Doubt, BeginsRefresh, Goto
<1>9. CASE StartFails
  BY <1>9 DEF StartFails, Fine, Fault, Doubt, Goto
<1>10. CASE Started
  BY <1>10 DEF Started, Fine, Fault, Doubt, Goto
<1>11. CASE SetTarget
  BY <1>11 DEF SetTarget, Fine, Fault, Doubt, BeginsRefresh, Goto
<1>12. CASE UNCHANGED node
  BY <1>12
<1>31. CASE StoresSet
  BY <1>31 DEF StoresSet, StoresHeld, Fine
<1>32. CASE StoresStopped
  BY <1>32 DEF StoresStopped, Fine, Doubt, Goto
<1>33. CASE StoresRunning
  BY <1>33 DEF StoresRunning, Fine, Doubt, Goto
<1>. QED BY <1>1, <1>2, <1>3, <1>4, <1>5, <1>6, <1>7, <1>8, <1>9, <1>10, <1>11, <1>12, <1>31,
         <1>32, <1>33 DEF Next, Refresh, SetConfig, vars, Answer, AnswersFromCache, Considers,
         Event, Fine, Finish, EventFails, Plan, ReadFails, Reads, SetOther, SetSkipped,
         StoresRead, Take

\* The cache keeps its type.
LEMMA CacheNext == TypeOK /\ PlaceInv /\ [Next]_vars => CacheOK'
<1>. SUFFICES ASSUME TypeOK /\ PlaceInv, [Next]_vars PROVE CacheOK'
  OBVIOUS
<1>. USE DEF TypeOK, CacheOK, node, control, request, history, Threads, Steps, Fields, Settings
<1>1. ASSUME NEW t \in Threads, StoresRead(t) PROVE CacheOK'
  BY <1>1, HeldTypes DEF StoresRead, StoresHeld
<1>5. CASE UNCHANGED cache
  BY <1>5
<1>31. CASE StoresSet
  BY <1>31, HeldTypes DEF StoresSet, StoresHeld
<1>32. CASE StoresStopped
  BY <1>32 DEF StoresStopped, Fine, Doubt, Goto
<1>33. CASE StoresRunning
  BY <1>33 DEF StoresRunning, Fine, Doubt, Goto
<1>. QED BY <1>1, <1>5, <1>31, <1>32, <1>33 DEF Next, Refresh, SetConfig,
         vars, Answer, AnswersFromCache, AutostartOff, Considers, Event, Fine, Finish,
         EventFails, OnStackStatusReceived, Plan, PowerLoss, ReadFails, Reads, SetFails,
         SetOther, SetSkipped, SetTarget, StartConfirmed, StartFails, StopFails, StopConfirmed, SetConfirmed, Started, Take

\* The threads keep theirs.
LEMMA ControlNext == TypeOK /\ PlaceInv /\ [Next]_vars => ControlOK'
<1>. SUFFICES ASSUME TypeOK /\ PlaceInv, [Next]_vars PROVE ControlOK'
  OBVIOUS
<1>. USE DEF TypeOK, ControlOK, node, control, request, history, Threads, Steps, Fields, Settings
<1>1. CASE OnStackStatusReceived
  BY <1>1 DEF OnStackStatusReceived, BeginsRefresh, Goto, Fine
<1>2. ASSUME NEW t \in Threads, Reads(t) PROVE ControlOK'
  <2>1. PICK f \in todo[t] : /\ todo' = [todo EXCEPT ![t] = @ \ {f}] /\ UNCHANGED pc
                             /\ held' = [held EXCEPT ![t] = [field |-> f, value |-> Actual[f]]]
    BY <1>2 DEF Reads, NextField
  <2>2. f \in Fields
    OBVIOUS
  <2>3. Actual[f] \in Values \cup Targets \cup {"running", "stopped"}
    BY <2>2, ActualTypes
  <2>. QED BY <2>1, <2>2, <2>3
<1>3. ASSUME NEW t \in Threads, ReadFails(t) PROVE ControlOK'
  <2>1. PICK f \in todo[t] : todo' = [todo EXCEPT ![t] = @ \ {f}] /\ UNCHANGED <<pc, held>>
    BY <1>3 DEF ReadFails, NextField
  <2>. QED BY <2>1
<1>4. ASSUME NEW t \in Threads, StoresRead(t) PROVE ControlOK'
  BY <1>4 DEF StoresRead, StoresHeld, Fine
<1>5. ASSUME NEW t \in Threads, Event(t) PROVE ControlOK'
  BY <1>5 DEF Event, Fine, RefreshDone, AfterRefresh, Goto
<1>6. ASSUME NEW t \in Threads, EventFails(t) PROVE ControlOK'
  BY <1>6 DEF EventFails, Fault, RefreshDone, AfterRefresh, Goto
<1>7. ASSUME NEW r \in Requests, Take(r) PROVE ControlOK'
  BY <1>7, ZenonT(40) DEF Take, Fine, Goto
<1>8. CASE AnswersFromCache
  BY <1>8 DEF AnswersFromCache, Fine, Goto
<1>9. CASE Plan
  <2>1. PICK step \in Steps : Goto("app", step)
    BY <1>9 DEF Plan
  <2>2. UNCHANGED <<todo, held>>
    BY <1>9 DEF Plan
  <2>. QED BY <2>1, <2>2 DEF Goto
<1>10. CASE AutostartOff
  BY <1>10 DEF AutostartOff, Fine, Fault, Goto
<1>11. CASE StopConfirmed
  BY <1>11 DEF StopConfirmed, Boots, Fine, Fault, Doubt, Goto
<1>12. CASE StopFails
  BY <1>12 DEF StopFails, Boots, Fine, Fault, Doubt, Goto
<1>13. CASE SetOther
  BY <1>13 DEF SetOther, Fine, Fault, Goto
<1>14. CASE StartConfirmed
  BY <1>14 DEF StartConfirmed, Fine, Doubt, BeginsRefresh, Goto
<1>15. CASE StartFails
  BY <1>15 DEF StartFails, Fine, Fault, Doubt, Goto
<1>16. CASE Started
  <2>1. PICK step \in Steps : Goto("app", step)
    BY <1>16 DEF Started
  <2>2. UNCHANGED <<todo, held>>
    BY <1>16 DEF Started
  <2>. QED BY <2>1, <2>2 DEF Goto
<1>17. CASE Finish
  BY <1>17, ZenonT(40) DEF Finish, Fine, BeginsRefresh, Goto
<1>18. CASE SetTarget
  BY <1>18 DEF SetTarget, Fine, Fault, Doubt, BeginsRefresh, Goto
<1>19. CASE Answer
  BY <1>19 DEF Answer, Fine, Goto
<1>21. ASSUME NEW p \in left, SetConfirmed(p) PROVE ControlOK'
  <2>1. p \in Fields /\ req.values[p] \in Values
    BY <1>21, Considered DEF SetConfirmed
  <2>2. held' = [held EXCEPT !["app"] = [field |-> p, value |-> req.values[p]]]
    BY <1>21 DEF SetConfirmed
  <2>3. UNCHANGED <<pc, todo>>
    BY <1>21 DEF SetConfirmed, Considers
  <2>. QED BY <2>1, <2>2, <2>3
<1>20. CASE UNCHANGED control
  BY <1>20
<1>31. CASE StoresSet
  BY <1>31 DEF StoresSet, StoresHeld, Fine
<1>32. CASE StoresStopped
  BY <1>32 DEF StoresStopped, Fine, Doubt, Goto
<1>33. CASE StoresRunning
  BY <1>33 DEF StoresRunning, Fine, Doubt, Goto
<1>. QED BY <1>1, <1>2, <1>3, <1>4, <1>5, <1>6, <1>7, <1>8, <1>9, <1>10, <1>11, <1>12, <1>13,
         <1>14, <1>15, <1>16, <1>17, <1>18, <1>19, <1>20, <1>21, <1>31, <1>32, <1>33 DEF Next, Refresh,
         SetConfig, vars, Considers, Fine, PowerLoss, SetFails, SetSkipped

\* So does the request under way.
LEMMA RequestNext == TypeOK /\ [Next]_vars => RequestOK'
<1>. SUFFICES ASSUME TypeOK, [Next]_vars PROVE RequestOK'
  OBVIOUS
<1>. USE RequestTypes
<1>. USE DEF TypeOK, RequestOK, node, control, request, history, Threads, Steps, Fields, Settings
<1>1. ASSUME NEW r \in Requests, Take(r) PROVE RequestOK'
  BY <1>1 DEF Take, Fine, Goto
<1>2. CASE Plan
  BY <1>2 DEF Plan, Fine, Goto, NeedsStop
<1>3. CASE StopConfirmed
  BY <1>3 DEF StopConfirmed, Boots, Fine, Fault, Doubt, Goto
<1>4. CASE StopFails
  BY <1>4 DEF StopFails, Boots, Fine, Fault, Doubt, Goto
<1>5. ASSUME NEW p \in left, SetSkipped(p) PROVE RequestOK'
  BY <1>5 DEF SetSkipped, Fine, Considers
<1>6. ASSUME NEW p \in left, SetConfirmed(p) PROVE RequestOK'
  BY <1>6 DEF SetConfirmed, Fine, Considers
<1>7. ASSUME NEW p \in left, SetFails(p) PROVE RequestOK'
  BY <1>7 DEF SetFails, Fine, Fault, Considers, Doubt
<1>8. CASE SetOther
  BY <1>8 DEF SetOther, Fine, Fault, Goto
<1>9. CASE StartFails
  BY <1>9 DEF StartFails, Fine, Fault, Doubt, Goto
<1>10. CASE Started
  BY <1>10 DEF Started, Fine, Fault, Doubt, Goto
<1>11. CASE SetTarget
  BY <1>11 DEF SetTarget, Fine, Fault, Doubt, BeginsRefresh, Goto
<1>12. CASE Answer
  BY <1>12 DEF Answer, Fine, Goto
<1>13. CASE UNCHANGED request
  BY <1>13
<1>31. CASE StoresSet
  BY <1>31 DEF StoresSet, StoresHeld, Fine
<1>32. CASE StoresStopped
  BY <1>32 DEF StoresStopped, Fine, Doubt, Goto
<1>33. CASE StoresRunning
  BY <1>33 DEF StoresRunning, Fine, Doubt, Goto
<1>. QED BY <1>1, <1>2, <1>3, <1>4, <1>5, <1>6, <1>7, <1>8, <1>9, <1>10, <1>11, <1>12, <1>13,
         <1>31, <1>32, <1>33 DEF Next, Refresh, SetConfig, vars, AnswersFromCache, AutostartOff,
         Event, Fine, Finish, EventFails, OnStackStatusReceived, PowerLoss, ReadFails, Reads,
         StartConfirmed, StoresRead

\* So do the history variables, and failures stay within their bound.
LEMMA HistoryNext == TypeOK /\ PlaceInv /\ [Next]_vars => HistoryOK'
<1>. SUFFICES ASSUME TypeOK /\ PlaceInv, [Next]_vars PROVE HistoryOK'
  OBVIOUS
<1>. USE DEF TypeOK, HistoryOK, node, control, request, history, Threads, Steps, Fields, Settings
<1>1. CASE PowerLoss
  <2>1. faults' \in 0 .. MaxFaults
    BY <1>1, FaultTypes DEF PowerLoss
  <2>2. unsure' \in SUBSET Fields /\ upset' \in BOOLEAN
    BY <1>1 DEF PowerLoss, Boots, Fault, Doubt
  <2>3. UNCHANGED <<applied, blind, missed, ran>>
    BY <1>1 DEF PowerLoss, Boots, Fault, Doubt
  <2>. QED BY <2>1, <2>2, <2>3
<1>2. ASSUME NEW t \in Threads, ReadFails(t) PROVE HistoryOK'
  <2>1. faults' \in 0 .. MaxFaults
    BY <1>2, FaultTypes DEF ReadFails
  <2>2. missed' \in SUBSET applied
    BY <1>2 DEF ReadFails
  <2>3. UNCHANGED <<unsure, blind, applied, ran, upset>>
    BY <1>2 DEF ReadFails
  <2>. QED BY <2>1, <2>2, <2>3
<1>3. ASSUME NEW t \in Threads, StoresRead(t) PROVE HistoryOK'
  <2>1. faults' \in 0 .. MaxFaults
    BY <1>3, FaultTypes DEF StoresRead
  <2>2. unsure' \in SUBSET Fields /\ missed' \in SUBSET applied
    BY <1>3, HeldTypes DEF StoresRead, StoresHeld
  <2>3. UNCHANGED <<blind, applied, ran, upset>>
    BY <1>3 DEF StoresRead, Fine
  <2>. QED BY <2>1, <2>2, <2>3
<1>4. ASSUME NEW t \in Threads, Event(t) PROVE HistoryOK'
  BY <1>4 DEF Event, Fine, RefreshDone, AfterRefresh, Goto
<1>5. ASSUME NEW t \in Threads, EventFails(t) PROVE HistoryOK'
  <2>1. faults' \in 0 .. MaxFaults
    BY <1>5, FaultTypes DEF EventFails
  <2>2. UNCHANGED <<unsure, blind, applied, missed, ran, upset>>
    BY <1>5 DEF EventFails, Fault, RefreshDone, AfterRefresh, Goto
  <2>. QED BY <2>1, <2>2
<1>6. ASSUME NEW r \in Requests, Take(r) PROVE HistoryOK'
  <2>1. faults' \in 0 .. MaxFaults
    BY <1>6, FaultTypes DEF Take
  <2>2. ran' \in BOOLEAN
    BY <1>6, Zenon DEF NodeOK, Take, Fine, Goto
  <2>3. UNCHANGED <<unsure, blind, applied, missed, upset>>
    BY <1>6 DEF Take, Fine, Goto
  <2>. QED BY <2>1, <2>2, <2>3
<1>7. CASE Plan
  BY <1>7 DEF Plan, Fine, Goto, NeedsStop
<1>8. CASE AutostartOff
  <2>1. faults' \in 0 .. MaxFaults
    BY <1>8, FaultTypes DEF AutostartOff
  <2>2. UNCHANGED <<history>>
    BY <1>8 DEF AutostartOff, Fine, Fault, Goto
  <2>. QED BY <2>1, <2>2
<1>9. CASE StopConfirmed
  <2>1. faults' \in 0 .. MaxFaults
    BY <1>9, FaultTypes DEF StopConfirmed
  <2>2. unsure' \in SUBSET Fields
    BY <1>9 DEF StopConfirmed, Boots, Fine, Fault, Doubt, Goto
  <2>3. UNCHANGED <<applied, blind, missed, ran, upset>>
    BY <1>9 DEF StopConfirmed, Boots, Fine, Fault, Doubt, Goto
  <2>. QED BY <2>1, <2>2, <2>3
<1>10. CASE StopFails
  <2>1. faults' \in 0 .. MaxFaults
    BY <1>10, FaultTypes DEF StopFails
  <2>2. unsure' \in SUBSET Fields
    BY <1>10 DEF StopFails, Boots, Fine, Fault, Doubt, Goto
  <2>3. UNCHANGED <<applied, blind, missed, ran, upset>>
    BY <1>10 DEF StopFails, Boots, Fine, Fault, Doubt, Goto
  <2>. QED BY <2>1, <2>2, <2>3
<1>11. ASSUME NEW p \in left, SetSkipped(p) PROVE HistoryOK'
  BY <1>11 DEF SetSkipped, Fine, Considers
<1>12. ASSUME NEW p \in left, SetConfirmed(p) PROVE HistoryOK'
  <2>1. faults' \in 0 .. MaxFaults
    BY <1>12, FaultTypes DEF SetConfirmed
  <2>2. unsure' \in SUBSET Fields /\ applied' \in SUBSET Settings /\ missed' \in SUBSET applied'
    BY <1>12, Considered DEF SetConfirmed, Doubt, Considers
  <2>3. UNCHANGED <<blind, ran, upset>>
    BY <1>12 DEF SetConfirmed, Considers
  <2>. QED BY <2>1, <2>2, <2>3
<1>13. ASSUME NEW p \in left, SetFails(p) PROVE HistoryOK'
  <2>1. faults' \in 0 .. MaxFaults
    BY <1>13, FaultTypes DEF SetFails
  <2>2. unsure' \in SUBSET Fields
    BY <1>13, Considered DEF SetFails, Fine, Fault, Considers, Doubt
  <2>3. UNCHANGED <<applied, blind, missed, ran, upset>>
    BY <1>13 DEF SetFails, Fine, Fault, Considers, Doubt
  <2>. QED BY <2>1, <2>2, <2>3
<1>14. CASE SetOther
  <2>1. faults' \in 0 .. MaxFaults
    BY <1>14, FaultTypes DEF SetOther
  <2>2. UNCHANGED <<history>>
    BY <1>14 DEF SetOther, Fine, Fault, Goto
  <2>. QED BY <2>1, <2>2
<1>15. CASE StartConfirmed
  BY <1>15 DEF StartConfirmed, Fine, Doubt, BeginsRefresh, Goto
<1>16. CASE StartFails
  <2>1. faults' \in 0 .. MaxFaults
    BY <1>16, FaultTypes DEF StartFails
  <2>2. unsure' \in SUBSET Fields
    BY <1>16 DEF StartFails, Fine, Fault, Doubt, Goto
  <2>3. UNCHANGED <<applied, blind, missed, ran, upset>>
    BY <1>16 DEF StartFails, Fine, Fault, Doubt, Goto
  <2>. QED BY <2>1, <2>2, <2>3
<1>17. CASE Started
  <2>1. faults' \in 0 .. MaxFaults
    BY <1>17, FaultTypes DEF Started
  <2>. QED BY <1>17, <2>1 DEF Started
<1>18. CASE SetTarget
  <2>1. faults' \in 0 .. MaxFaults
    BY <1>18, FaultTypes DEF SetTarget
  <2>2. unsure' \in SUBSET Fields /\ applied' \in SUBSET Settings /\ applied \subseteq applied'
    BY <1>18 DEF SetTarget, Fine, Fault, Doubt, BeginsRefresh, Goto
  <2>3. UNCHANGED <<blind, missed, ran, upset>>
    BY <1>18 DEF SetTarget, Fine, Fault, Doubt, BeginsRefresh, Goto
  <2>4. missed' \in SUBSET applied'
    BY <2>2, <2>3
  <2>. QED BY <2>1, <2>2, <2>3, <2>4
<1>19. CASE Answer
  BY <1>19 DEF Answer, Fine, Goto
<1>20. CASE UNCHANGED <<history, faults>>
  BY <1>20
<1>31. CASE StoresSet
  <2>1. faults' \in 0 .. MaxFaults
    BY <1>31, FaultTypes DEF StoresSet
  <2>2. unsure' \in SUBSET Fields /\ missed' \in SUBSET applied
    BY <1>31, HeldTypes DEF StoresSet, StoresHeld
  <2>3. UNCHANGED <<blind, applied, ran, upset>>
    BY <1>31 DEF StoresSet
  <2>. QED BY <2>1, <2>2, <2>3
<1>32. CASE StoresStopped
  <2>1. faults' \in 0 .. MaxFaults
    BY <1>32, FaultTypes DEF StoresStopped
  <2>2. unsure' \in SUBSET Fields
    BY <1>32 DEF StoresStopped, Doubt
  <2>3. UNCHANGED <<applied, blind, missed, ran, upset>>
    BY <1>32 DEF StoresStopped
  <2>. QED BY <2>1, <2>2, <2>3
<1>33. CASE StoresRunning
  <2>1. faults' \in 0 .. MaxFaults
    BY <1>33, FaultTypes DEF StoresRunning
  <2>2. unsure' \in SUBSET Fields
    BY <1>33 DEF StoresRunning, Doubt
  <2>3. UNCHANGED <<applied, blind, missed, ran, upset>>
    BY <1>33 DEF StoresRunning
  <2>. QED BY <2>1, <2>2, <2>3
<1>. QED BY <1>1, <1>2, <1>3, <1>4, <1>5, <1>6, <1>7, <1>8, <1>9, <1>10, <1>11, <1>12, <1>13,
         <1>14, <1>15, <1>16, <1>17, <1>18, <1>19, <1>20, <1>31, <1>32, <1>33 DEF Next, Refresh,
         SetConfig, vars, AnswersFromCache, Fine, Finish, OnStackStatusReceived, Reads

----------------------------------------------------------------------------
(* Safety                                                                  *)

\* What changes a field of the node either puts the same value in the cache or
\* leaves the field in doubt; what changes the cache puts the node's value there.
LEMMA CacheTrueNext == TypeOK /\ PlaceInv /\ CacheIsTrue /\ [Next]_vars => CacheIsTrue'
<1>. SUFFICES ASSUME TypeOK /\ PlaceInv /\ CacheIsTrue, [Next]_vars PROVE CacheIsTrue'
  OBVIOUS
<1>. USE FieldsAssumption, ActualTypes
<1>. USE DEF CacheIsTrue, Actual, node, control, request, history, Threads
<1>1. CASE PowerLoss
  BY <1>1 DEF PowerLoss, Boots, Fault, Doubt
<1>2. ASSUME NEW t \in Threads, StoresRead(t) PROVE CacheIsTrue'
  BY <1>2, HeldTypes DEF StoresRead, StoresHeld, TypeOK, CacheOK
<1>3. CASE StopConfirmed
  BY <1>3 DEF StopConfirmed, Boots, Doubt
<1>4. CASE StopFails
  BY <1>4 DEF StopFails, Boots, Fine, Fault, Doubt, Goto
<1>5. ASSUME NEW p \in left, SetConfirmed(p) PROVE CacheIsTrue'
  <2>1. /\ UNCHANGED <<cache, running>> /\ p \in Settings /\ p # "status"
        /\ stored' = [stored EXCEPT ![p] = req.values[p]]
        /\ unsure' = unsure \cup {p}
    BY <1>5, Considered DEF SetConfirmed, Considers, Doubt
  <2>2. \A f \in Fields \ {p} : Actual[f]' = Actual[f]
    BY <2>1 DEF Fields, TypeOK, NodeOK, Settled
  <2>. QED BY <2>1, <2>2
<1>6. ASSUME NEW p \in left, SetFails(p) PROVE CacheIsTrue'
  <2>1. UNCHANGED <<cache, running>> /\ p \in Settings /\ p # "status"
    BY <1>6, Considered DEF SetFails, Considers
  <2>2. CASE UNCHANGED <<stored, unsure>>
    BY <2>1, <2>2
  <2>3. CASE /\ stored' \in {stored, [stored EXCEPT ![p] = req.values[p]]}
             /\ unsure' = unsure \cup {p}
    <3>1. \A f \in Fields \ {p} : Actual[f]' = Actual[f]
      BY <2>1, <2>3 DEF Fields, TypeOK, NodeOK, Settled
    <3>. QED BY <2>1, <2>3, <3>1
  <2>. QED BY <1>6, <2>2, <2>3 DEF SetFails, Doubt
<1>7. CASE StartConfirmed
  BY <1>7 DEF StartConfirmed, Fine, Doubt, BeginsRefresh, Goto
<1>8. CASE StartFails
  BY <1>8 DEF StartFails, Fine, Fault, Doubt, Goto
<1>10. CASE SetTarget
  <2>1. UNCHANGED <<cache, running>>
    BY <1>10 DEF SetTarget
  <2>2. CASE UNCHANGED <<stored, unsure>>
    BY <2>1, <2>2
  <2>3. CASE /\ stored' \in {stored, [stored EXCEPT !["target"] = req.value]}
             /\ unsure' = unsure \cup {"target"}
    <3>1. \A f \in Fields \ {"target"} : Actual[f]' = Actual[f]
      BY <2>1, <2>3 DEF Fields, Settings, TypeOK, NodeOK, Settled
    <3>. QED BY <2>1, <2>3, <3>1
  <2>. QED BY <1>10, <2>2, <2>3 DEF SetTarget, Doubt
<1>11. CASE UNCHANGED <<cache, unsure, stored, running>>
  BY <1>11
<1>12. ASSUME NEW t \in Threads, Reads(t) \/ ReadFails(t) \/ Event(t) \/ EventFails(t)
       PROVE  CacheIsTrue'
  BY <1>11, <1>12 DEF Reads, ReadFails, Event, EventFails
<1>13. ASSUME NEW p \in left, SetSkipped(p) PROVE CacheIsTrue'
  BY <1>11, <1>13 DEF SetSkipped, Considers
<1>14. CASE \/ Answer \/ AnswersFromCache \/ AutostartOff \/ Finish \/ OnStackStatusReceived
            \/ Plan \/ SetOther \/ Started \/ \E r \in Requests : Take(r)
  BY <1>11, <1>14 DEF Answer, AnswersFromCache, AutostartOff, Finish, OnStackStatusReceived,
     Plan, SetOther, Started, Take
<1>31. CASE StoresSet
  BY <1>31, HeldTypes DEF StoresSet, StoresHeld, TypeOK, CacheOK
<1>32. CASE StoresStopped
  BY <1>32 DEF StoresStopped, Doubt, TypeOK, NodeOK, CacheOK
<1>33. CASE StoresRunning
  BY <1>33 DEF StoresRunning, Doubt, TypeOK, NodeOK, CacheOK
<1>. QED BY <1>1, <1>2, <1>3, <1>4, <1>5, <1>6, <1>7, <1>8, <1>10, <1>11, <1>12, <1>13, <1>14,
         <1>31, <1>32, <1>33 DEF Next, Refresh, SetConfig, vars

\* Each step leads to a place of the same kind of request.
LEMMA PlaceNext == TypeOK /\ PlaceInv /\ [Next]_vars => PlaceInv'
<1>. SUFFICES ASSUME TypeOK /\ PlaceInv, [Next]_vars PROVE PlaceInv'
  OBVIOUS
<1>. USE DEF PlaceInv, AppAt, Planned, Setting, Starting, Ending, TypeOK, ControlOK, Steps, Threads, node, control, request, history
<1>1. CASE PowerLoss
  BY <1>1 DEF PowerLoss, Boots, Fault, Doubt
<1>2. CASE OnStackStatusReceived
  BY <1>2 DEF OnStackStatusReceived, BeginsRefresh, Goto, Fine
<1>3. ASSUME NEW t \in Threads, Event(t) PROVE PlaceInv'
  BY <1>3 DEF Event, Fine, RefreshDone, AfterRefresh, Goto
<1>4. ASSUME NEW t \in Threads, EventFails(t) PROVE PlaceInv'
  BY <1>4 DEF EventFails, Fault, RefreshDone, AfterRefresh, Goto
<1>5. ASSUME NEW r \in Requests, Take(r) PROVE PlaceInv'
  <2>1. r.kind \in {"set", "target", "get"}
    BY RequestKinds
  <2>. QED BY <1>5, <2>1 DEF Take, Goto
<1>6. CASE AnswersFromCache
  BY <1>6 DEF AnswersFromCache, Fine, Goto
<1>7. CASE Plan
  BY <1>7 DEF Plan, Fine, Goto, NeedsStop, Busy
<1>8. CASE AutostartOff
  BY <1>8 DEF AutostartOff, Fine, Fault, Goto
<1>9. CASE StopConfirmed
  BY <1>9 DEF StopConfirmed, Boots, Fine, Fault, Doubt, Goto
<1>10. CASE StopFails
  BY <1>10 DEF StopFails, Boots, Fine, Fault, Doubt, Goto
<1>11. ASSUME NEW p \in left, SetSkipped(p) PROVE PlaceInv'
  BY <1>11 DEF SetSkipped, Fine, Considers
<1>12. ASSUME NEW p \in left, SetConfirmed(p) PROVE PlaceInv'
  BY <1>12 DEF SetConfirmed, Fine, Considers
<1>13. ASSUME NEW p \in left, SetFails(p) PROVE PlaceInv'
  BY <1>13 DEF SetFails, Fine, Fault, Considers, Doubt
<1>14. CASE SetOther
  BY <1>14 DEF SetOther, Fine, Fault, Goto
<1>15. CASE StartConfirmed
  BY <1>15 DEF StartConfirmed, Fine, Doubt, BeginsRefresh, Goto
<1>16. CASE StartFails
  BY <1>16 DEF StartFails, Fine, Fault, Doubt, Goto
<1>17. CASE Started
  BY <1>17 DEF Started, Fine, Fault, Doubt, Goto
<1>18. CASE Finish
  BY <1>18 DEF Finish, Fine, BeginsRefresh, Goto
<1>19. CASE SetTarget
  BY <1>19 DEF SetTarget, Fine, Fault, Doubt, BeginsRefresh, Goto
<1>20. CASE Answer
  BY <1>20 DEF Answer, Fine, Goto
<1>21. CASE UNCHANGED <<pc, todo, req, res, left, blind, upset>>
  BY <1>21
<1>22. ASSUME NEW t \in Threads, Reads(t) \/ ReadFails(t) PROVE PlaceInv'
  <2>1. UNCHANGED <<pc, req, res, left, blind, upset>>
    BY <1>22 DEF Reads, ReadFails
  <2>2. PICK f \in Fields : todo' = [todo EXCEPT ![t] = @ \ {f}]
    BY <1>22 DEF Reads, ReadFails, NextField
  <2>. QED BY <2>1, <2>2
<1>31. CASE StoresSet
  BY <1>31 DEF StoresSet, StoresHeld, Fine
<1>32. CASE StoresStopped
  BY <1>32 DEF StoresStopped, Fine, Doubt, Goto
<1>33. CASE StoresRunning
  BY <1>33 DEF StoresRunning, Fine, Doubt, Goto
<1>. QED BY <1>1, <1>2, <1>3, <1>4, <1>5, <1>6, <1>7, <1>8, <1>9, <1>10, <1>11, <1>12, <1>13,
         <1>14, <1>15, <1>16, <1>17, <1>18, <1>19, <1>20, <1>21, <1>22, <1>31, <1>32, <1>33 DEF Next,
         Refresh, SetConfig, vars, Fine, StoresRead

\* A parameter is skipped only when the cache has the value asked for, which is
\* the node's unless the field is in doubt.
LEMMA AppliedNext == TypeOK /\ PlaceInv /\ CacheIsTrue /\ AppliedInv /\ [Next]_vars => AppliedInv'
<1>. SUFFICES ASSUME TypeOK /\ PlaceInv /\ CacheIsTrue /\ AppliedInv, [Next]_vars PROVE AppliedInv'
  OBVIOUS
<1>. USE FieldsAssumption
<1>. USE DEF AppliedInv, PlaceInv, AppAt, Planned, Setting, Starting, Ending, TypeOK, ControlOK, Steps, Threads, node, control, request, history
<1>1. CASE PowerLoss
  BY <1>1 DEF PowerLoss, Boots, Fault, Doubt
<1>2. CASE OnStackStatusReceived
  BY <1>2 DEF OnStackStatusReceived, BeginsRefresh, Goto, Fine
<1>3. ASSUME NEW t \in Threads, Event(t) PROVE AppliedInv'
  BY <1>3 DEF Event, Fine, RefreshDone, AfterRefresh, Goto
<1>4. ASSUME NEW t \in Threads, EventFails(t) PROVE AppliedInv'
  BY <1>4 DEF EventFails, Fault, RefreshDone, AfterRefresh, Goto
<1>5. ASSUME NEW r \in Requests, Take(r) PROVE AppliedInv'
  BY <1>5 DEF Take, Fine, Goto
<1>6. CASE AnswersFromCache
  BY <1>6 DEF AnswersFromCache, Fine, Goto
<1>7. CASE Plan
  BY <1>7 DEF Plan, Fine, Goto, NeedsStop
<1>8. CASE AutostartOff
  BY <1>8 DEF AutostartOff, Fine, Fault, Goto
<1>9. CASE StopConfirmed
  BY <1>9 DEF StopConfirmed, Boots, Fine, Fault, Doubt, Goto
<1>10. CASE StopFails
  BY <1>10 DEF StopFails, Boots, Fine, Fault, Doubt, Goto
<1>11. ASSUME NEW p \in left, SetSkipped(p) PROVE AppliedInv'
  <2>1. p \notin unsure => stored[p] = req.values[p]
    BY <1>11, Considered, ActualTypes DEF SetSkipped, CacheIsTrue
  <2>2. /\ left' = left \ {p} /\ blind' = blind \cup (unsure \cap {p})
        /\ UNCHANGED <<pc, req, res, stored>>
    BY <1>11 DEF SetSkipped, Considers
  <2>. QED BY <1>11, <2>1, <2>2 DEF SetSkipped, Considers
<1>12. ASSUME NEW p \in left, SetConfirmed(p) PROVE AppliedInv'
  <2>1. p \in Settings
    BY <1>12, Considered DEF SetConfirmed
  <2>2. \A q \in Settings : stored'[q] = IF q = p THEN req.values[p] ELSE stored[q]
    BY <1>12, <2>1 DEF SetConfirmed, NodeOK, Settled
  <2>3. req.kind = "set" /\ DOMAIN req.values \subseteq Settings
    BY <1>12, Considered, RequestTypes DEF SetConfirmed, Settings
  <2>4. left' = left \ {p} /\ UNCHANGED <<pc, req, res, blind>>
    BY <1>12 DEF SetConfirmed, Considers
  <2>5. ASSUME res = "ok", NEW q \in DOMAIN req.values \ (left' \cup blind)
        PROVE  stored'[q] = req.values[q]
    BY <1>12, <2>2, <2>3, <2>4, <2>5 DEF SetConfirmed, Considers
  <2>. QED BY <2>4, <2>5
<1>13. ASSUME NEW p \in left, SetFails(p) PROVE AppliedInv'
  BY <1>13 DEF SetFails, Fine, Fault, Considers, Doubt
<1>14. CASE SetOther
  BY <1>14 DEF SetOther, Fine, Fault, Goto
<1>15. CASE StartConfirmed
  BY <1>15 DEF StartConfirmed, Fine, Doubt, BeginsRefresh, Goto
<1>16. CASE StartFails
  BY <1>16 DEF StartFails, Fine, Fault, Doubt, Goto
<1>17. CASE Started
  BY <1>17 DEF Started, Fine, Fault, Doubt, Goto
<1>18. CASE Finish
  BY <1>18 DEF Finish, Fine, BeginsRefresh, Goto
<1>19. CASE SetTarget
  BY <1>19 DEF SetTarget, Fine, Fault, Doubt, BeginsRefresh, Goto
<1>20. CASE Answer
  BY <1>20 DEF Answer, Fine, Goto
<1>21. CASE UNCHANGED <<pc, req, res, left, blind, stored>>
  BY <1>21
<1>31. CASE StoresSet
  BY <1>31 DEF StoresSet, StoresHeld, Fine
<1>32. CASE StoresStopped
  BY <1>32 DEF StoresStopped, Fine, Doubt, Goto
<1>33. CASE StoresRunning
  BY <1>33 DEF StoresRunning, Fine, Doubt, Goto
<1>. QED BY <1>1, <1>2, <1>3, <1>4, <1>5, <1>6, <1>7, <1>8, <1>9, <1>10, <1>11, <1>12, <1>13,
         <1>14, <1>15, <1>16, <1>17, <1>18, <1>19, <1>20, <1>21, <1>31, <1>32, <1>33 DEF Next,
         Refresh, SetConfig, vars, Fine, ReadFails, Reads, StoresRead

\* A stack that was stopped for the request is started before the answer, or the
\* answer is an error.
LEMMA RunNext == TypeOK /\ PlaceInv /\ CacheIsTrue /\ RunInv /\ [Next]_vars => RunInv'
<1>. SUFFICES ASSUME TypeOK /\ PlaceInv /\ CacheIsTrue /\ RunInv, [Next]_vars PROVE RunInv'
  OBVIOUS
<1>. USE DEF RunInv, PlaceInv, AppAt, Planned, Setting, Starting, Ending, TypeOK, ControlOK, Steps, Threads, node, control, request, history
<1>1. CASE PowerLoss
  BY <1>1 DEF PowerLoss, Boots, Fault, Doubt
<1>2. CASE OnStackStatusReceived
  BY <1>2 DEF OnStackStatusReceived, BeginsRefresh, Goto, Fine
<1>3. ASSUME NEW t \in Threads, Event(t) PROVE RunInv'
  BY <1>3 DEF Event, Fine, RefreshDone, AfterRefresh, Goto
<1>4. ASSUME NEW t \in Threads, EventFails(t) PROVE RunInv'
  BY <1>4 DEF EventFails, Fault, RefreshDone, AfterRefresh, Goto
<1>5. ASSUME NEW r \in Requests, Take(r) PROVE RunInv'
  BY <1>5 DEF Take, Fine, Goto
<1>6. CASE AnswersFromCache
  BY <1>6 DEF AnswersFromCache, Fine, Goto
<1>7. CASE Plan
  <2>1. "status" \notin blind' => cache["status"] = IF running THEN "running" ELSE "stopped"
    BY <1>7, ActualTypes DEF Plan, CacheIsTrue, Fields
  <2>. QED BY <1>7, <2>1 DEF Plan, Goto, NeedsStop
<1>8. CASE AutostartOff
  BY <1>8 DEF AutostartOff, Fine, Fault, Goto
<1>9. CASE StopConfirmed
  BY <1>9 DEF StopConfirmed, Boots, Fine, Fault, Doubt, Goto
<1>10. CASE StopFails
  BY <1>10 DEF StopFails, Boots, Fine, Fault, Doubt, Goto
<1>11. ASSUME NEW p \in left, SetSkipped(p) PROVE RunInv'
  BY <1>11 DEF SetSkipped, Fine, Considers
<1>12. ASSUME NEW p \in left, SetConfirmed(p) PROVE RunInv'
  BY <1>12 DEF SetConfirmed, Fine, Considers
<1>13. ASSUME NEW p \in left, SetFails(p) PROVE RunInv'
  BY <1>13 DEF SetFails, Fine, Fault, Considers, Doubt
<1>14. CASE SetOther
  BY <1>14 DEF SetOther, Fine, Fault, Goto
<1>15. CASE StartConfirmed
  BY <1>15 DEF StartConfirmed, Fine, Doubt, BeginsRefresh, Goto
<1>16. CASE StartFails
  BY <1>16 DEF StartFails, Fine, Fault, Doubt, Goto
<1>17. CASE Started
  BY <1>17 DEF Started, Fine, Fault, Doubt, Goto
<1>18. CASE Finish
  BY <1>18 DEF Finish, Fine, BeginsRefresh, Goto
<1>19. CASE SetTarget
  BY <1>19 DEF SetTarget, Fine, Fault, Doubt, BeginsRefresh, Goto
<1>20. CASE Answer
  BY <1>20 DEF Answer, Fine, Goto
<1>21. CASE UNCHANGED <<pc, req, res, blind, restart, running, ran, upset>>
  BY <1>21
<1>31. CASE StoresSet
  BY <1>31 DEF StoresSet, StoresHeld, Fine
<1>32. CASE StoresStopped
  BY <1>32 DEF StoresStopped, Fine, Doubt, Goto
<1>33. CASE StoresRunning
  BY <1>33 DEF StoresRunning, Fine, Doubt, Goto
<1>. QED BY <1>1, <1>2, <1>3, <1>4, <1>5, <1>6, <1>7, <1>8, <1>9, <1>10, <1>11, <1>12, <1>13,
         <1>14, <1>15, <1>16, <1>17, <1>18, <1>19, <1>20, <1>21, <1>31, <1>32, <1>33 DEF Next,
         Refresh, SetConfig, vars, Fine, ReadFails, Reads, StoresRead

\* The last event is sent after the last change.
LEMMA ToldNext ==
  TypeOK /\ PlaceInv /\ CacheIsTrue /\ MissedInv /\ ToldInv /\ [Next]_vars => ToldInv'
<1>. SUFFICES ASSUME TypeOK /\ PlaceInv /\ CacheIsTrue /\ MissedInv /\ ToldInv, [Next]_vars
             PROVE  ToldInv'
  OBVIOUS
<1>. USE FieldsAssumption
<1>. USE DEF ToldInv, PlaceInv, AppAt, Planned, Setting, Starting, Ending, TypeOK, ControlOK, Steps, Threads, node, control, request, history
<1>1. CASE PowerLoss
  BY <1>1 DEF PowerLoss, Boots, Fault, Doubt
<1>2. CASE OnStackStatusReceived
  BY <1>2 DEF OnStackStatusReceived, BeginsRefresh, Goto, Fine
<1>3. ASSUME NEW t \in Threads, Event(t) PROVE ToldInv'
  <2>2. CASE t = "app"
    <3>0. held["app"] = NoRead /\ todo["app"] = {}
      BY <1>3, <2>2 DEF Event, RefreshDone, Busy
    <3>1. told' = [f \in applied |-> cache[f]] /\ UNCHANGED <<applied, missed, stored>>
      BY <1>3, <2>2 DEF Event
    <3>2. \A f \in applied \ missed : cache[f] = stored[f]
      BY <3>0, FieldsAssumption, ActualTypes
      DEF CacheIsTrue, MissedInv, HistoryOK, Fields, Settings
    <3>3. told' # NoEvent
      <4>1. "lost" \in DOMAIN NoEvent
        BY DEF NoEvent
      <4>2. "lost" \notin applied
        BY FieldsAssumption DEF HistoryOK, Settings
      <4>. QED BY <3>1, <4>1, <4>2
    <3>. QED BY <1>3, <2>2, <3>1, <3>2, <3>3 DEF Event, RefreshDone, AfterRefresh, Goto
  <2>3. CASE t # "app"
    BY <1>3, <2>3 DEF Event, RefreshDone, AfterRefresh, Goto
  <2>. QED BY <2>2, <2>3
<1>4. ASSUME NEW t \in Threads, EventFails(t) PROVE ToldInv'
  <2>1. LostEvent # NoEvent
    BY DEF LostEvent, NoEvent
  <2>. QED BY <1>4, <2>1 DEF EventFails, RefreshDone, AfterRefresh, Goto
<1>5. ASSUME NEW r \in Requests, Take(r) PROVE ToldInv'
  BY <1>5 DEF Take, Fine, Goto
<1>6. CASE AnswersFromCache
  BY <1>6 DEF AnswersFromCache, Fine, Goto
<1>7. CASE Plan
  BY <1>7 DEF Plan, Fine, Goto, NeedsStop
<1>8. CASE AutostartOff
  BY <1>8 DEF AutostartOff, Fine, Fault, Goto
<1>9. CASE StopConfirmed
  BY <1>9 DEF StopConfirmed, Boots, Fine, Fault, Doubt, Goto
<1>10. CASE StopFails
  BY <1>10 DEF StopFails, Boots, Fine, Fault, Doubt, Goto
<1>11. ASSUME NEW p \in left, SetSkipped(p) PROVE ToldInv'
  BY <1>11 DEF SetSkipped, Fine, Considers
<1>12. ASSUME NEW p \in left, SetConfirmed(p) PROVE ToldInv'
  <2>1. held'["app"] = [field |-> p, value |-> req.values[p]]
    BY <1>12 DEF SetConfirmed
  <2>2. held'["app"] # NoRead
    <3>1. "value" \in DOMAIN held'["app"] /\ "value" \notin DOMAIN NoRead
      BY <2>1 DEF NoRead
    <3>. QED BY <3>1
  <2>3. AppAt(Setting) /\ told = NoEvent /\ UNCHANGED <<pc, told>>
    BY <1>12 DEF SetConfirmed, Considers
  <2>. QED BY <2>2, <2>3
<1>13. ASSUME NEW p \in left, SetFails(p) PROVE ToldInv'
  BY <1>13 DEF SetFails, Fine, Fault, Considers, Doubt
<1>14. CASE SetOther
  BY <1>14 DEF SetOther, Fine, Fault, Goto
<1>15. CASE StartConfirmed
  BY <1>15 DEF StartConfirmed, Fine, Doubt, BeginsRefresh, Goto
<1>16. CASE StartFails
  BY <1>16 DEF StartFails, Fine, Fault, Doubt, Goto
<1>17. CASE Started
  BY <1>17 DEF Started, Fine, Fault, Doubt, Goto
<1>18. CASE Finish
  BY <1>18 DEF Finish, Fine, BeginsRefresh, Goto
<1>19. CASE SetTarget
  BY <1>19 DEF SetTarget, Fine, Fault, Doubt, BeginsRefresh, Goto
<1>20. CASE Answer
  BY <1>20 DEF Answer, Fine, Goto
<1>21. CASE UNCHANGED <<pc, held, applied, changed, told, stored, missed>>
  BY <1>21
<1>22. ASSUME NEW t \in Threads, Reads(t) \/ ReadFails(t) \/ StoresRead(t) PROVE ToldInv'
  <2>1. UNCHANGED <<pc, applied, changed, told, stored>> /\ missed \subseteq missed'
    BY <1>22 DEF Reads, ReadFails, StoresRead, StoresHeld
  <2>2. AppAt(Setting) => held'["app"] = held["app"]
    BY <1>22 DEF Reads, ReadFails, StoresRead, StoresHeld, NextField
  <2>. QED BY <2>1, <2>2
<1>31. CASE StoresSet
  BY <1>31 DEF StoresSet, StoresHeld, Fine
<1>32. CASE StoresStopped
  BY <1>32 DEF StoresStopped, Fine, Doubt, Goto
<1>33. CASE StoresRunning
  BY <1>33 DEF StoresRunning, Fine, Doubt, Goto
<1>. QED BY <1>1, <1>2, <1>3, <1>4, <1>5, <1>6, <1>7, <1>8, <1>9, <1>10, <1>11, <1>12, <1>13,
         <1>14, <1>15, <1>16, <1>17, <1>18, <1>19, <1>20, <1>21, <1>22, <1>31, <1>32, <1>33 DEF Next,
         Refresh, SetConfig, vars, Fine

\* A change that the cache has not followed is missed, or is on its way there.
LEMMA MissedNext ==
  TypeOK /\ PlaceInv /\ ToldInv /\ MissedInv /\ [Next]_vars => MissedInv'
<1>. SUFFICES ASSUME TypeOK /\ PlaceInv /\ ToldInv /\ MissedInv, [Next]_vars PROVE MissedInv'
  OBVIOUS
<1>. USE FieldsAssumption
<1>. USE DEF MissedInv, TypeOK, ControlOK, HistoryOK, Fields, Settings, Threads, node, control, request, history
<1>1. CASE PowerLoss
  <2>1. unsure' = unsure \cup {"status"} /\ UNCHANGED <<left, applied, missed, held, todo>>
    BY <1>1 DEF PowerLoss, Doubt
  <2>. QED BY <2>1
<1>2. CASE OnStackStatusReceived
  BY <1>2 DEF OnStackStatusReceived, BeginsRefresh
<1>3. ASSUME NEW t \in Threads, Reads(t) PROVE MissedInv'
  <2>1. PICK f \in todo[t] : /\ todo' = [todo EXCEPT ![t] = @ \ {f}] /\ held[t] = NoRead
                             /\ held' = [held EXCEPT ![t] = [field |-> f, value |-> Actual[f]]]
                             /\ UNCHANGED <<left, applied, missed, unsure>>
    BY <1>3 DEF Reads, NextField
  <2>2. t = "app" => held'["app"].field = f /\ held'["app"] # NoRead
    <3>1. "value" \in DOMAIN [field |-> f, value |-> Actual[f]] /\ "value" \notin DOMAIN NoRead
      BY DEF NoRead
    <3>. QED BY <2>1, <3>1
  <2>. QED BY <2>1, <2>2
<1>4. ASSUME NEW t \in Threads, ReadFails(t) PROVE MissedInv'
  <2>1. PICK f \in todo[t] :
          /\ todo' = [todo EXCEPT ![t] = @ \ {f}] /\ UNCHANGED <<left, applied, held, unsure>>
          /\ missed' = IF t = "app" /\ f = "target" THEN missed \cup ({f} \cap applied) ELSE missed
    BY <1>4 DEF ReadFails, NextField
  <2>. QED BY <2>1
<1>5. ASSUME NEW t \in Threads, StoresRead(t) \/ (StoresSet /\ t = "app") PROVE MissedInv'
  <2>1. StoresHeld(t) /\ UNCHANGED <<left, applied, todo>>
    BY <1>5 DEF StoresRead, StoresSet
  <2>. QED BY <2>1 DEF StoresHeld
<1>6. ASSUME NEW r \in Requests, Take(r) PROVE MissedInv'
  <2>1. applied = {} /\ applied' = {}
    BY <1>6 DEF Take, ToldInv, AppAt
  <2>. QED BY <2>1
<1>7. CASE Plan
  <2>1. applied = {} /\ applied' = {}
    BY <1>7 DEF Plan, ToldInv, AppAt
  <2>. QED BY <2>1
<1>8. CASE \/ StopConfirmed \/ StoresStopped \/ StopFails \/ StartFails \/ StoresRunning
  <2>1. unsure' = unsure \cup {"status"} /\ UNCHANGED <<left, applied, missed, held, todo>>
    BY <1>8 DEF StopConfirmed, StoresStopped, StopFails, StartFails, StoresRunning, Doubt
  <2>. QED BY <2>1
<1>9. ASSUME NEW p \in left, SetSkipped(p) PROVE MissedInv'
  BY <1>9 DEF SetSkipped, Considers
<1>10. ASSUME NEW p \in left, SetConfirmed(p) PROVE MissedInv'
  <2>1. /\ held["app"] = NoRead /\ held' = [held EXCEPT !["app"] = [field |-> p, value |-> req.values[p]]]
        /\ unsure' = unsure \cup {p} /\ applied' = applied \cup {p} /\ left' = left \ {p}
        /\ UNCHANGED <<missed, todo>>
    BY <1>10 DEF SetConfirmed, Considers, Doubt
  <2>2. held'["app"].field = p /\ held'["app"] # NoRead
    <3>1. "value" \in DOMAIN [field |-> p, value |-> req.values[p]] /\ "value" \notin DOMAIN NoRead
      BY DEF NoRead
    <3>. QED BY <2>1, <3>1
  <2>. QED BY <2>1, <2>2
<1>11. ASSUME NEW p \in left, SetFails(p) PROVE MissedInv'
  <2>1. /\ unsure' \in {unsure, unsure \cup {p}} /\ p \notin applied
        /\ left' = left \ {p} /\ UNCHANGED <<applied, missed, held, todo>>
    BY <1>11 DEF SetFails, Considers, Doubt
  <2>. QED BY <2>1
<1>12. CASE StartConfirmed
  <2>1. /\ unsure' = unsure \cup {"status"} /\ UNCHANGED <<left, applied, missed, held>>
        /\ todo' = [todo EXCEPT !["app"] = Fields]
    BY <1>12 DEF StartConfirmed, BeginsRefresh, Doubt
  <2>. QED BY <2>1
<1>13. CASE Finish
  <2>1. UNCHANGED <<left, applied, unsure, missed, held>> /\ todo["app"] \subseteq todo'["app"]
    BY <1>13 DEF Finish, BeginsRefresh
  <2>. QED BY <2>1
<1>14. CASE SetTarget
  <2>1. todo' = [todo EXCEPT !["app"] = Fields] /\ UNCHANGED <<left, missed, held>>
    BY <1>14 DEF SetTarget, BeginsRefresh
  <2>2. applied' \in {{}, {"target"}} /\ left = {}
    BY <1>14 DEF SetTarget, ToldInv, PlaceInv, AppAt
  <2>. QED BY <2>1, <2>2
<1>15. CASE Answer
  BY <1>15 DEF Answer
<1>16. CASE UNCHANGED <<applied, left, unsure, missed, held, todo>>
  BY <1>16
<1>. QED BY <1>1, <1>2, <1>3, <1>4, <1>5, <1>6, <1>7, <1>8, <1>9, <1>10, <1>11, <1>12, <1>13,
         <1>14, <1>15, <1>16 DEF Next, Refresh, SetConfig, vars, AnswersFromCache, AutostartOff,
         Event, EventFails, SetOther, Started

\* Proto_config_init has read the fields, or failed and doubts them all.
LEMMA InvInit == Init => Inv
<1>. SUFFICES ASSUME Init PROVE Inv
  OBVIOUS
<1>1. TypeOK
  <2>1. NodeOK
    BY PendingAssumption DEF Init, NodeOK
  <2>2. CacheOK
    <3>1. \A f \in Fields : Actual[f] \in Values \cup Targets \cup {"running", "stopped"}
      BY <2>1 DEF NodeOK, Settled, Actual, Fields, Settings
    <3>. QED BY <3>1 DEF Init, CacheOK
  <2>3. ControlOK
    BY DEF Init, ControlOK, Steps, Threads
  <2>4. RequestOK
    BY DEF Init, RequestOK
  <2>5. HistoryOK
    <3>1. ran \in BOOLEAN /\ upset \in BOOLEAN
      BY Zenon DEF Init
    <3>. QED BY <3>1, FaultsAssumption DEF Init, HistoryOK
  <2>. QED BY <2>1, <2>2, <2>3, <2>4, <2>5 DEF TypeOK
<1>2. CacheIsTrue
  BY DEF Init, CacheIsTrue
<1>3. PlaceInv
  BY DEF Init, PlaceInv, AppAt, Planned, Setting, Starting, Ending, Threads, NoRequest
<1>4. AppliedInv /\ RunInv /\ ToldInv /\ MissedInv
  BY DEF Init, AppliedInv, RunInv, ToldInv, MissedInv, AppAt, Planned, Setting, Starting, Ending, Threads,
         NoRequest
<1>. QED BY <1>1, <1>2, <1>3, <1>4 DEF Inv

\* The parts together are inductive.
LEMMA InvNext == Inv /\ [Next]_vars => Inv'
<1>. SUFFICES ASSUME Inv, [Next]_vars PROVE Inv'
  OBVIOUS
<1>1. TypeOK'
  BY NodeNext, CacheNext, ControlNext, RequestNext, HistoryNext DEF Inv, TypeOK
<1>2. CacheIsTrue' /\ PlaceInv'
  BY CacheTrueNext, PlaceNext DEF Inv
<1>3. AppliedInv' /\ RunInv' /\ ToldInv' /\ MissedInv'
  BY AppliedNext, RunNext, ToldNext, MissedNext DEF Inv
<1>. QED BY <1>1, <1>2, <1>3 DEF Inv

----------------------------------------------------------------------------
(* Theorems                                                                *)

\* The inductive invariant of the requests of proto_config.c.
THEOREM Invariance == Spec => []Inv
<1>. QED BY InvInit, InvNext, PTL DEF Spec

\* The cache, the requests and the steps of the two threads keep their types.
THEOREM TypeCorrect == Spec => []TypeOK
<1>1. Inv => TypeOK
  BY DEF Inv
<1>. QED BY <1>1, Invariance, PTL

\* However requests, status indications, failures and losses of power
\* interleave, a field that is not in doubt is cached as the node holds it.
THEOREM CacheIsTrueHolds == Spec => []CacheIsTrue
<1>1. Inv => CacheIsTrue
  BY DEF Inv
<1>. QED BY <1>1, Invariance, PTL

\* A set answered with success has put in the node every parameter that was
\* not skipped on the word of a doubtful cache.
THEOREM OkMeansAppliedHolds == Spec => []OkMeansApplied
<1>1. Inv => OkMeansApplied
  BY DEF Inv, PlaceInv, AppliedInv, OkMeansApplied, Done, AppAt, Ending
<1>. QED BY <1>1, Invariance, PTL

\* After a success the stack runs if that was asked for, or if it ran before
\* and no stop was asked for, unless the node rebooted by itself.
THEOREM StackRunsHolds == Spec => []StackRunsAsAsked
<1>1. Inv => StackRunsAsAsked
  BY DEF Inv, RunInv, StackRunsAsAsked, Done, AppAt, Ending
<1>. QED BY <1>1, Invariance, PTL

\* What a request has changed is told, as it is in the node, before the answer.
THEOREM ChangeIsToldHolds == Spec => []ChangeIsTold
<1>1. Inv => ChangeIsTold
  BY DEF Inv, ToldInv, ChangeIsTold, Done, AppAt
<1>. QED BY <1>1, Invariance, PTL
=============================================================================

----------------------------- MODULE SinkConfig -----------------------------
(***************************************************************************)
(* The cached configuration of the sink (m_sink_config in lib/wpc_proto/   *)
(* internal_modules/proto_config.c).  Requests of the backend read and set *)
(* it on the gateway's thread; a stack status indication refreshes it on   *)
(* the dispatch thread; nothing protects it.  Every call of the node may   *)
(* fail, executed or not, and the node may reboot.                         *)
(***************************************************************************)
EXTENDS Naturals

CONSTANTS Params,      \* parameters compared with the cache before they are set
          Values,      \* their values
          Targets,     \* values of the scratchpad target
          Others,      \* what else a request sets, see SetRequests
          MaxPending,  \* status indications counted at the node
          MaxFaults    \* failures of calls, of memory and of the node's power

\* A field of m_sink_config that was never read is zero, which no parameter is.
Unset == "unset"

ASSUME FieldsAssumption == Params \cap {"status", "target", "lost"} = {}
ASSUME ValuesAssumption == (Values \cup Targets) \cap {Unset, "running", "stopped"} = {}
ASSUME OthersAssumption == Others \subseteq {"none", "app config", "keys"}
ASSUME FaultsAssumption == MaxFaults \in Nat
ASSUME PendingAssumption == MaxPending \in Nat \ {0}

VARIABLES
  running, autostart,   \* node: the stack, and whether a boot starts it
  stored,               \* node: parameters and scratchpad target
  pending,              \* status indications not yet handled
  cache,                \* m_sink_config
  pc, todo, held,       \* each thread: step, fields still to read, value read
  req, res, changed, restart, left,   \* the request: what it asks, result,
                        \* config_has_changed, restart_stack, parameters left
  unsure,               \* fields whose last change or reading has failed
  blind,                \* fields the request took a decision on while unsure
  applied, told,        \* what the request has changed; its last event
  missed,               \* fields it has changed and failed to read back, or over
                        \* whose new value an older reading was stored
  faults,               \* failures so far
  ran, upset            \* the stack ran when it began; power was lost since

node == <<running, autostart, stored, pending>>
control == <<pc, todo, held>>
request == <<req, res, changed, restart, left>>
history == <<unsure, blind, applied, told, missed, ran, upset>>
vars == <<node, cache, control, request, history, faults>>

Threads == {"app", "dispatch"}
Settings == Params \cup {"target"}
Fields == Settings \cup {"status"}

Settled == {s \in [Settings -> Values \cup Targets] :
              \A f \in Settings : s[f] \in IF f = "target" THEN Targets ELSE Values}

Actual == [f \in Fields |->
             IF f # "status" THEN stored[f] ELSE IF running THEN "running" ELSE "stopped"]

\* Some parameters, other data ("app config", set while the stack runs, or
\* "keys", while it is stopped), and the state the stack shall be in.
SetRequests ==
  [kind : {"set"}, values : UNION {[P -> Values] : P \in SUBSET Params},
   other : Others, state : {"none", "on", "off"}]
TargetRequests == [kind : {"target"}, value : Targets]
Requests == SetRequests \cup TargetRequests \cup {[kind |-> "get"]}
NoRequest == [kind |-> "none"]

NoRead == [field |-> "none"]
NoEvent == [lost |-> FALSE]
LostEvent == [lost |-> TRUE]

Steps == {"idle", "status", "plan", "autostart off", "stop", "stopped", "set", "start",
          "start refresh", "started", "restarted", "finish", "target", "refresh", "answer"}

NodeOK == /\ running \in BOOLEAN /\ autostart \in BOOLEAN
          /\ stored \in Settled /\ pending \in 0 .. MaxPending
CacheOK == cache \in [Fields -> Values \cup Targets \cup {Unset, "running", "stopped"}]
ControlOK ==
  /\ pc \in [Threads -> Steps]
  /\ todo \in [Threads -> SUBSET Fields]
  /\ held \in [Threads -> {NoRead} \cup [field : Fields, value : Values \cup Targets \cup {"running", "stopped"}]]
RequestOK == /\ req \in Requests \cup {NoRequest} /\ res \in {"ok", "error"}
             /\ changed \in BOOLEAN /\ restart \in BOOLEAN /\ left \in SUBSET Params
HistoryOK ==
  /\ unsure \in SUBSET Fields /\ blind \in SUBSET Fields /\ applied \in SUBSET Settings
  /\ missed \in SUBSET applied
  /\ ran \in BOOLEAN /\ upset \in BOOLEAN /\ faults \in 0 .. MaxFaults

\* The fields of m_sink_config and of the requests have their types; the value
\* a thread has read and not yet stored is one of the node's.
TypeOK == NodeOK /\ CacheOK /\ ControlOK /\ RequestOK /\ HistoryOK

\* Proto_config_init goes on when it could not read everything (lines 557-561).
Init ==
  /\ running \in BOOLEAN /\ autostart = running
  /\ stored \in Settled /\ pending = 0
  /\ \/ unsure = {} /\ faults = 0
     \/ unsure = Fields /\ faults = 1 /\ faults <= MaxFaults
  /\ cache = [f \in Fields |-> IF f \notin unsure THEN Actual[f]
                               ELSE IF f = "status" THEN "running" ELSE Unset]
  /\ pc = [t \in Threads |-> "idle"]
  /\ todo = [t \in Threads |-> {}] /\ held = [t \in Threads |-> NoRead]
  /\ req = NoRequest /\ res = "ok" /\ changed = FALSE /\ restart = FALSE /\ left = {}
  /\ blind = {} /\ applied = {} /\ told = NoEvent /\ missed = {}
  /\ ran = FALSE /\ upset = FALSE

\* Something fails, or nothing does.
Fault == faults < MaxFaults /\ faults' = faults + 1
Fine == UNCHANGED faults

Goto(t, step) == pc' = [pc EXCEPT ![t] = step]
Doubt(f) == unsure' = unsure \cup {f}

----------------------------------------------------------------------------
(* The node (external)                                                     *)

\* A boot tells its state, in an indication.
Boots == /\ running' = autostart
         /\ pending' = IF pending < MaxPending THEN pending + 1 ELSE pending
         /\ UNCHANGED <<autostart, stored>>

PowerLoss ==
  /\ Fault
  /\ Boots
  /\ Doubt("status") /\ upset' = (pc["app"] # "idle")
  /\ UNCHANGED <<cache, control, request, blind, applied, told, missed, ran>>

----------------------------------------------------------------------------
(* Reading fields                                                          *)

Busy(t) == todo[t] # {} \/ held[t] # NoRead

\* Lines 252-292, then 229-242: the target is read last.  In the code the status
\* follows the read-only fields, which are left out, and precedes the others.
NextField(t) == {f \in todo[t] : /\ f = "status" \/ "status" \notin todo[t]
                                /\ f = "target" => todo[t] = {"target"}}

\* get_value_from_node, lines 94-117: the answer is written to the cache after
\* the call has released sending_mutex.
Reads(t) ==
  \E f \in NextField(t) :
    /\ held[t] = NoRead
    /\ todo' = [todo EXCEPT ![t] = @ \ {f}]
    /\ held' = [held EXCEPT ![t] = [field |-> f, value |-> Actual[f]]]
    /\ Fine
    /\ UNCHANGED <<node, cache, pc, request, history>>

\* The field keeps its value, and the others are read all the same.  The target
\* is cached only by being read; a parameter, when it is set.
ReadFails(t) ==
  \E f \in NextField(t) :
    /\ held[t] = NoRead
    /\ todo' = [todo EXCEPT ![t] = @ \ {f}]
    /\ missed' = IF t = "app" /\ f = "target" THEN missed \cup ({f} \cap applied) ELSE missed
    /\ Fault
    /\ UNCHANGED <<node, cache, pc, held, request, unsure, blind, applied, told, ran, upset>>

\* A value is stored in the cache, which is then true if the value still is.
StoresHeld(t) ==
  LET f == held[t].field
      old == IF held[t].value = Actual[f] THEN {} ELSE {f}
  IN /\ cache' = [cache EXCEPT ![f] = held[t].value]
     /\ unsure' = (unsure \ {f}) \cup old
     /\ missed' = missed \cup (old \cap applied)
     /\ held' = [held EXCEPT ![t] = NoRead]

StoresRead(t) ==
  /\ Fine
  /\ held[t] # NoRead /\ pc[t] # "set"
  /\ StoresHeld(t)
  /\ UNCHANGED <<node, pc, todo, request, blind, applied, told, ran, upset>>

\* refresh_full_stack_state, and the event once all has been read.
BeginsRefresh(t, step) == /\ Goto(t, step)
                          /\ todo' = [todo EXCEPT ![t] = Fields]
                          /\ UNCHANGED held

AfterRefresh(t) == IF pc[t] = "start refresh" THEN "started"
                   ELSE IF t = "app" THEN "answer" ELSE "idle"

RefreshDone(t) == /\ pc[t] \in {"start refresh", "refresh"} /\ ~Busy(t)
                  /\ Goto(t, AfterRefresh(t))

\* Lines 510-552: the event tells the cached values.
Event(t) ==
  /\ Fine
  /\ RefreshDone(t)
  /\ told' = IF t = "app" THEN [f \in applied |-> cache[f]] ELSE told
  /\ UNCHANGED <<node, cache, todo, held, request, unsure, blind, applied, missed, ran, upset>>

\* Lines 511-525 and 540-542: there is no memory for it, or it cannot be encoded.
EventFails(t) ==
  /\ Fault
  /\ RefreshDone(t)
  /\ told' = IF t = "app" /\ told = NoEvent THEN LostEvent ELSE told
  /\ UNCHANGED <<node, cache, todo, held, request, unsure, blind, applied, missed, ran, upset>>

\* onStackStatusReceived on the dispatch thread.
OnStackStatusReceived ==
  /\ Fine
  /\ pc["dispatch"] = "idle" /\ pending > 0
  /\ pending' = pending - 1
  /\ BeginsRefresh("dispatch", "refresh")
  /\ UNCHANGED <<running, autostart, stored, cache, request, history>>

----------------------------------------------------------------------------
(* Requests                                                                *)

Take(r) ==
  /\ Fine
  /\ pc["app"] = "idle"
  /\ req' = r /\ ran' = running
  /\ \/ r.kind = "target" /\ Goto("app", "target") /\ UNCHANGED <<todo, held>>
     \/ /\ r.kind # "target" /\ Goto("app", "status")
        /\ todo' = [todo EXCEPT !["app"] = {"status"}] /\ UNCHANGED held
  /\ UNCHANGED <<node, cache, res, changed, restart, left, unsure, blind, applied, told, missed, upset>>

\* Lines 914-940: answered from the cache, whatever came of the reading.
AnswersFromCache ==
  /\ Fine
  /\ pc["app"] = "status" /\ ~Busy("app") /\ req.kind = "get"
  /\ Goto("app", "answer")
  /\ UNCHANGED <<node, cache, todo, held, request, history>>

NeedsStop == DOMAIN req.values # {} \/ req.other = "keys"

\* Lines 642-671.
Plan ==
  /\ Fine
  /\ pc["app"] = "status" /\ ~Busy("app") /\ req.kind = "set"
  /\ blind' = blind \cup (unsure \cap {"status"})
  /\ left' = DOMAIN req.values
  /\ \/ /\ cache["status"] = "stopped"
        /\ restart' = (req.state = "on") /\ changed' = (req.state = "on")
        /\ Goto("app", "set")
     \/ /\ cache["status"] = "running"
        /\ restart' = (NeedsStop /\ req.state # "off")
        /\ changed' = (req.state = "off")
        /\ Goto("app", IF NeedsStop \/ req.state = "off" THEN "autostart off" ELSE "set")
  /\ UNCHANGED <<node, cache, todo, held, req, res, unsure, applied, told, missed, ran, upset>>

\* Line 678; the result is not looked at.
AutostartOff ==
  /\ pc["app"] = "autostart off"
  /\ \/ autostart' = FALSE /\ Fine
     \/ autostart' \in {autostart, FALSE} /\ Fault
  /\ Goto("app", "stop")
  /\ UNCHANGED <<running, stored, pending, cache, todo, held, request, history>>

\* Line 679: the node reboots or the request was lost, and it answers again.
StopConfirmed ==
  /\ pc["app"] = "stop"
  /\ \/ running /\ Boots /\ Fine
     \/ UNCHANGED node /\ Fault
  /\ Doubt("status")
  /\ Goto("app", "stopped")
  /\ UNCHANGED <<cache, todo, held, request, blind, applied, told, missed, ran, upset>>

\* Lines 687-689.
StoresStopped ==
  /\ Fine
  /\ pc["app"] = "stopped"
  /\ cache' = [cache EXCEPT !["status"] = "stopped"]
  /\ Doubt("status")
  /\ changed' = TRUE
  /\ Goto("app", "set")
  /\ UNCHANGED <<node, todo, held, req, res, restart, left, blind, applied, told, missed, ran, upset>>

\* Lines 680-684: refused, or no answer after it.
StopFails ==
  /\ pc["app"] = "stop"
  /\ \/ ~running /\ UNCHANGED node /\ Fine
     \/ UNCHANGED node /\ Fault
     \/ running /\ Boots /\ Fault
  /\ res' = "error"
  /\ Doubt("status")
  /\ Goto("app", "set")
  /\ UNCHANGED <<cache, todo, held, req, changed, restart, left, blind, applied, told, missed, ran, upset>>

\* The step that settles what becomes of parameter p.  The order of the
\* parameters is left open; the code has a fixed one.
Considers(p) ==
  /\ pc["app"] = "set" /\ held["app"] = NoRead /\ p \in left
  /\ left' = left \ {p}
  /\ UNCHANGED <<running, autostart, pending, cache, pc, todo, req, changed, restart, told, missed,
                 ran, upset>>

\* A parameter the cache says is so already is not set (line 697 and alike).
SetSkipped(p) ==
  /\ Fine
  /\ Considers(p) /\ req.values[p] = cache[p]
  /\ blind' = blind \cup (unsure \cap {p})
  /\ UNCHANGED <<stored, held, res, unsure, applied>>

\* Line 699 and alike: the node takes a parameter while its stack is stopped.
SetConfirmed(p) ==
  /\ Fine
  /\ Considers(p) /\ req.values[p] # cache[p]
  /\ ~running
  /\ stored' = [stored EXCEPT ![p] = req.values[p]]
  /\ held' = [held EXCEPT !["app"] = [field |-> p, value |-> req.values[p]]]
  /\ Doubt(p)
  /\ applied' = applied \cup {p}
  /\ UNCHANGED <<res, blind>>

WithoutCaching ==
  /\ Fine
  /\ pc["app"] = "set" /\ held["app"] # NoRead
  /\ unsure' = unsure \ {held["app"].field} /\ held' = [held EXCEPT !["app"] = NoRead]
  /\ changed' = TRUE
  /\ UNCHANGED <<node, cache, pc, todo, req, res, restart, left, blind, applied, told, missed, ran,
                 upset>>

WithoutChanged ==
  /\ Fine
  /\ pc["app"] = "set" /\ held["app"] # NoRead
  /\ StoresHeld("app")
  /\ UNCHANGED <<node, pc, todo, request, blind, applied, told, ran, upset>>

\* Lines 708-709 and alike: it is stored in the cache once the call is over.
StoresSet ==
  /\ Fine
  /\ pc["app"] = "set" /\ held["app"] # NoRead
  /\ StoresHeld("app")
  /\ changed' = TRUE
  /\ UNCHANGED <<node, pc, todo, req, res, restart, left, blind, applied, told, ran, upset>>

FailureForgotten(p) ==
  /\ Considers(p) /\ req.values[p] # cache[p]
  /\ \/ UNCHANGED <<stored, unsure>> /\ Fine
     \/ ~running /\ stored' \in {stored, [stored EXCEPT ![p] = req.values[p]]} /\ Fault /\ Doubt(p)
  /\ UNCHANGED <<held, res, blind, applied>>

\* Refused, by the host for its range or by the node for its range or because
\* the stack runs; or the request or its confirm is lost.
SetFails(p) ==
  /\ Considers(p) /\ req.values[p] # cache[p]
  /\ \/ UNCHANGED <<stored, unsure>> /\ Fine
     \/ ~running /\ stored' \in {stored, [stored EXCEPT ![p] = req.values[p]]} /\ Fault /\ Doubt(p)
  /\ res' = "error"
  /\ UNCHANGED <<held, blind, applied>>

\* Lines 781-839: application data and keys, which are not compared.
SetOther ==
  /\ pc["app"] = "set" /\ held["app"] = NoRead /\ left = {}
  /\ \/ req.other = "none" /\ UNCHANGED <<res, changed>> /\ Fine
     \/ /\ req.other # "none" /\ (req.other = "keys" => ~running)
        /\ changed' = TRUE /\ UNCHANGED res /\ Fine
     \/ /\ req.other # "none" /\ res' = "error"
        /\ IF req.other = "keys" /\ running THEN Fine ELSE Fault
        /\ changed' \in {changed, changed \/ (req.other = "keys" /\ ~running)}
  /\ Goto("app", IF restart THEN "start" ELSE "finish")
  /\ UNCHANGED <<node, cache, todo, held, req, restart, left, history>>

----------------------------------------------------------------------------
(* Starting the stack and ending the request                               *)

\* Lines 73-76 of msap.c: the confirm of a start calls the status callback.
StartConfirmed ==
  /\ Fine
  /\ pc["app"] = "start" /\ ~running
  /\ running' = TRUE /\ UNCHANGED <<autostart, stored, pending>>
  /\ Doubt("status")
  /\ BeginsRefresh("app", "start refresh")
  /\ UNCHANGED <<cache, request, blind, applied, told, missed, ran, upset>>

StartFailureIgnored ==
  /\ pc["app"] = "start"
  /\ \/ running /\ UNCHANGED running /\ Fine
     \/ running' \in {running, TRUE} /\ Fault
  /\ UNCHANGED <<autostart, stored, pending>>
  /\ Doubt("status")
  /\ Goto("app", "finish")
  /\ UNCHANGED <<cache, todo, held, request, blind, applied, told, missed, ran, upset>>

\* Lines 873-882: the stack runs already, the start is refused, or its confirm
\* is lost.
StartFails ==
  /\ pc["app"] = "start"
  /\ \/ running /\ UNCHANGED running /\ Fine
     \/ running' \in {running, TRUE} /\ Fault
  /\ UNCHANGED <<autostart, stored, pending>>
  /\ res' = "error"
  /\ Doubt("status")
  /\ Goto("app", "finish")
  /\ UNCHANGED <<cache, todo, held, req, changed, restart, left, blind, applied, told, missed, ran,
                 upset>>

\* Lines 612-621 of wpc.c: the status is asked until it comes or for two
\* seconds; then line 885, whose result is not looked at.
Started ==
  /\ pc["app"] = "started"
  /\ \/ autostart' = TRUE /\ Goto("app", "restarted") /\ UNCHANGED res /\ Fine
     \/ UNCHANGED autostart /\ Goto("app", "restarted") /\ UNCHANGED res /\ Fault
     \/ UNCHANGED autostart /\ Goto("app", "finish") /\ res' = "error" /\ Fault
  /\ UNCHANGED <<running, stored, pending, cache, todo, held, req, changed, restart, left, history>>

\* Line 886.
StoresRunning ==
  /\ Fine
  /\ pc["app"] = "restarted"
  /\ cache' = [cache EXCEPT !["status"] = "running"]
  /\ Doubt("status")
  /\ Goto("app", "finish")
  /\ UNCHANGED <<node, todo, held, request, blind, applied, told, missed, ran, upset>>

\* Lines 891-895.
Finish ==
  /\ Fine
  /\ pc["app"] = "finish"
  /\ \/ changed /\ BeginsRefresh("app", "refresh")
     \/ ~changed /\ Goto("app", "answer") /\ UNCHANGED <<todo, held>>
  /\ UNCHANGED <<node, cache, request, history>>

\* Lines 981-1070: the value is in the request or, the one of the scratchpad in
\* the node, in the cache; one out of range is refused.  What was written is
\* read back.
SetTarget ==
  /\ pc["app"] = "target"
  /\ \/ /\ stored' = [stored EXCEPT !["target"] = req.value]
        /\ applied' = applied \cup {"target"} /\ UNCHANGED res /\ Fine /\ Doubt("target")
     \/ /\ stored' \in {stored, [stored EXCEPT !["target"] = req.value]}
        /\ res' = "error" /\ UNCHANGED applied /\ Fault /\ Doubt("target")
     \/ res' = "error" /\ UNCHANGED <<stored, applied, unsure>> /\ Fine
  /\ BeginsRefresh("app", "refresh")
  /\ UNCHANGED <<running, autostart, pending, cache, req, changed, restart, left, blind, told, missed,
                 ran, upset>>

Answer ==
  /\ Fine
  /\ pc["app"] = "answer"
  /\ Goto("app", "idle")
  /\ req' = NoRequest /\ res' = "ok" /\ changed' = FALSE /\ restart' = FALSE /\ left' = {}
  /\ blind' = {} /\ applied' = {} /\ told' = NoEvent /\ missed' = {}
  /\ ran' = FALSE /\ upset' = FALSE
  /\ UNCHANGED <<node, cache, todo, held, unsure>>

----------------------------------------------------------------------------
Refresh(t) == \/ Reads(t) \/ ReadFails(t) \/ StoresRead(t)
              \/ Event(t) \/ EventFails(t)

SetConfig == \/ Plan \/ AutostartOff \/ StopConfirmed \/ StoresStopped \/ StopFails
             \/ \E p \in left : SetSkipped(p) \/ SetConfirmed(p) \/ SetFails(p)
             \/ StoresSet \/ SetOther
             \/ StartConfirmed \/ StartFails \/ Started \/ StoresRunning \/ Finish

Next == \/ \E t \in Threads : Refresh(t)
        \/ OnStackStatusReceived
        \/ \E r \in Requests : Take(r)
        \/ AnswersFromCache \/ SetConfig \/ SetTarget \/ Answer
        \/ PowerLoss

Spec == Init /\ [][Next]_vars

----------------------------------------------------------------------------
(* Properties                                                              *)

\* "TODO : Protect config access" (line 56): what is cached is what the node
\* holds, but for fields whose last change failed, that changed by themselves,
\* or whose reading was overtaken by a change before it was stored.
CacheIsTrue == \A f \in Fields \ unsure : cache[f] = Actual[f]

Done == pc["app"] = "answer"

\* Lines 611-912: a set answered with success has put every parameter in the
\* node, those skipped because the cache, when it can be trusted, had them too.
OkMeansApplied ==
  Done /\ res = "ok" /\ req.kind = "set" =>
    \A p \in DOMAIN req.values \ blind : stored[p] = req.values[p]

\* Lines 642-671 and 870-889: after a success the stack runs if that was asked
\* for, or if it ran before and no stop was asked for.
StackRunsAsAsked ==
  Done /\ res = "ok" /\ req.kind = "set" /\ "status" \notin blind /\ ~upset =>
    (req.state = "on" \/ (req.state = "none" /\ ran) => running)

\* Lines 891-895 and 1070: whatever the answer, an event has been sent before it,
\* unless it lacked memory or could not be encoded, and tells what the request
\* has changed as the node has it.  There are two ways to an old value in it:
\* the target could not be read back (lines 236-243), or a thread stored what it
\* had read before the change over it.  The answer may be a success all the same.
ChangeIsTold ==
  Done /\ applied # {} =>
    /\ told # NoEvent
    /\ told # LostEvent => \A f \in applied \ missed : told[f] = stored[f]

\* "Force otap variable read back to be sure everything is in sync / And generate
\* event status" (lines 1068-1069).  It is false when the read back fails.
TargetInSync ==
  Done /\ res = "ok" /\ req.kind = "target" /\ told # LostEvent =>
    told["target"] = stored["target"]
=============================================================================

----------------------------- MODULE NodeServices -----------------------------
(***************************************************************************)
(* The services of wpc.c that take several requests, or change what the     *)
(* library itself keeps: initialisation and the MTU, start and stop of the  *)
(* stack, the firmware version, upload and download of the scratchpad.     *)
(*                                                                         *)
(* A request is one step (sending_mutex is held around it) and the calls of  *)
(* several threads interleave between requests.  Time is counted in         *)
(* units of 500 ms, the time after which a request is given up: only lost   *)
(* requests and the wait of WPC_stop_stack take time.  The node is external: *)
(* while it reboots it answers nothing.                                    *)
(***************************************************************************)
EXTENDS Integers, Sequences

CONSTANTS
  Threads, Dispatch,      \* callers, and the thread of the callbacks
  Images,                 \* scratchpads, sequences of octets
  BlockMax,               \* scratchpad_block_max of the node
  MAXIMUM_SCRATCHPAD_BLOCK_SIZE,
  Durations,              \* arguments of WPC_set_max_poll_fail_duration
  DurationSpan,           \* 2^16, in which get_stack_status keeps its timeout
  StartWait,              \* time to wait for the status after a start
  ScratchpadStartTimeout, \* SCRATCHPAD_START_TIMEOUT_MS
  ScratchpadBlockTimeout, \* SCRATCHPAD_BLOCK_TIMEOUT_MS
  Missing,                \* bits a node with lacking settings answers to a start
  MaxDown,                \* longest reboot
  MaxLost, MaxBoots       \* bounds: lost requests, reboots nobody asked for

Octet == 0 .. 255

ASSUME ImagesAssumption == Images \subseteq Seq(Octet)
ASSUME SizesAssumption == BlockMax \in Nat /\ MAXIMUM_SCRATCHPAD_BLOCK_SIZE \in Nat
(* Some duration fits the counter of get_stack_status, the default does.     *)
ASSUME TimesAssumption ==
  /\ Durations \subseteq Nat /\ DurationSpan \in Nat \ {0}
  /\ \E d \in Durations : d \in 1..(DurationSpan - 1)
  /\ StartWait \in 0..(DurationSpan - 1)
  /\ ScratchpadStartTimeout \in Nat \ {0} /\ ScratchpadBlockTimeout \in Nat \ {0}
  /\ MaxDown \in Nat

Callers == Threads \cup {Dispatch}
Default == CHOOSE d \in Durations : d \in 1..(DurationSpan - 1)

VARIABLES
  node,     \* running, down (time until it answers), firmware, pad, marked (to
            \* be processed), told (has no indication of a reboot to give)
  open,     \* is the library initialised?
  m_mtu,
  m_timeout_after_stop_task_s,
  m_disabled_poll_request,
  silence,  \* time since m_last_successful_answer_ts
  exited,   \* the process has ended itself
  call,     \* [Callers -> call in progress]
  answer,   \* what the last step returned to a caller
  stale,    \* history: the last reading of the MTU failed or was overtaken
  lost, boots

host == <<open, m_mtu, m_timeout_after_stop_task_s, m_disabled_poll_request>>
line == <<silence, exited, lost>>
vars == <<node, host, line, call, answer, stale, boots>>

DEFAULT_MTU_SIZE == 102
Mtu(firmware) == DEFAULT_MTU_SIZE + firmware
Version(firmware) == <<firmware, firmware + 4, firmware + 2, firmware + 6>>
NoPad == [size |-> 0, octets |-> <<>>]
Complete(pad) == pad.size > 0 /\ Len(pad.octets) = pad.size

(* data: the octets to send; base: start offset, or the reboot to be waited *)
(* for; left: time before the status is given up; clean: no other caller,   *)
(* reboot or lost request has interfered.                                  *)
Call(op, at, data, base) ==
  [op |-> op, at |-> at, data |-> data, base |-> base, size |-> 0, got |-> <<>>,
   left |-> 0, res |-> "", clean |-> TRUE]
Idle == Call("idle", "", <<>>, 0)
None == [c |-> Idle, res |-> ""]

Ops == {"idle", "init", "state", "start", "stop", "version", "begin", "upload", "blocks",
        "download", "clear", "update", "scan"}
Places == {"", "mtu", "store", "status", "stop", "wait", "end", "version", "start", "max", "block"}
app_res_e ==
  {"OK", "STACK_NOT_STOPPED", "STACK_ALREADY_STOPPED", "STACK_ALREADY_STARTED", "INVALID_VALUE",
   "ROLE_NOT_SET", "NODE_ADD_NOT_SET", "NET_ADD_NOT_SET", "STACK_IS_STOPPED",
   "ATTRIBUTE_NOT_SET", "ACCESS_DENIED", "DATA_ERROR", "NO_SCRATCHPAD_START",
   "NO_VALID_SCRATCHPAD", "INVALID_START_ADDRESS", "INVALID_NUMBER_OF_BYTES",
   "INVALID_SCRATCHPAD", "INTERNAL_ERROR"}
Results == app_res_e \cup {""}
Calls == [op : Ops, at : Places, data : Seq(Octet), base : Nat, size : Nat, got : Seq(Octet),
          left : 0..(DurationSpan - 1), res : Results, clean : BOOLEAN]
Nodes == [running : BOOLEAN, down : Nat, firmware : {0, 1},
          pad : [size : Nat, octets : Seq(Octet)], marked : BOOLEAN, told : BOOLEAN]
TypeOK ==
  /\ node \in Nodes
  /\ open \in BOOLEAN /\ m_mtu \in Nat /\ m_timeout_after_stop_task_s \in Durations
  /\ m_disabled_poll_request \in BOOLEAN /\ exited \in BOOLEAN /\ stale \in BOOLEAN
  /\ silence \in Nat /\ lost \in Nat /\ boots \in Nat
  /\ call \in [Callers -> Calls] /\ answer \in [c : Calls, res : Results]

OK == 0
TIMEOUT == -2
convert_error_code(lut, code) ==
  IF code \in 0..(Len(lut) - 1) THEN lut[code + 1] ELSE "INTERNAL_ERROR"
ATT_READ == <<"OK", "INTERNAL_ERROR", "STACK_NOT_STOPPED", "INTERNAL_ERROR",
              "ATTRIBUTE_NOT_SET", "ACCESS_DENIED", "ACCESS_DENIED">>
SCRATCHPAD_LOCAL_START == <<"OK", "STACK_NOT_STOPPED", "INVALID_VALUE",
                            "INTERNAL_ERROR", "ACCESS_DENIED">>
SCRATCHPAD_LOCAL_BLOCK == <<"OK", "OK", "DATA_ERROR", "STACK_NOT_STOPPED",
                            "NO_SCRATCHPAD_START", "INVALID_START_ADDRESS",
                            "INVALID_NUMBER_OF_BYTES", "INVALID_SCRATCHPAD">>
SCRATCHPAD_CLEAR_LOCAL == <<"OK", "STACK_NOT_STOPPED", "ACCESS_DENIED">>
SCRATCHPAD_UPDATE_LOCAL == <<"OK", "STACK_NOT_STOPPED", "NO_VALID_SCRATCHPAD", "ACCESS_DENIED">>
SCRATCHPAD_LOCAL_BLOCK_READ == <<"OK", "STACK_NOT_STOPPED", "INVALID_START_ADDRESS",
                                 "INVALID_NUMBER_OF_BYTES", "NO_VALID_SCRATCHPAD", "ACCESS_DENIED">>
SCAN_NEIGHBORS == <<"OK", "STACK_IS_STOPPED", "ACCESS_DENIED">>

-------------------------------------------------------------------------------
(* How a request goes on: the call continues as c, or returns res.          *)
Goes(c) == [c |-> c, ends |-> FALSE, res |-> ""]
Returns(c, res) == [c |-> c, ends |-> TRUE, res |-> res]

(* Caller t goes on as r says, cost units of time later.  A caller has lost  *)
(* its cleanness when another one changed the scratchpad or the firmware, or *)
(* stopped the stack, and a stop, which is about time, when another one      *)
(* took some.                                                              *)
Down(n, cost) == IF n > cost THEN n - cost ELSE 0
Proceeds(t, r, cost, disturbs) ==
  /\ call' = [u \in Callers |->
       IF u = t THEN IF r.ends THEN Idle ELSE r.c
       ELSE IF call[u] = Idle THEN Idle
       ELSE [call[u] EXCEPT !.left = Down(@, cost),
                            !.clean = @ /\ ~disturbs /\ (call[u].op = "stop" => cost = 0)]]
  /\ answer' = IF r.ends THEN [c |-> r.c, res |-> r.res] ELSE None
AllDisturbed == [t \in Callers |-> IF call[t] = Idle THEN Idle ELSE [call[t] EXCEPT !.clean = FALSE]]
Disturbs(n) == \/ n.pad # node.pad \/ n.firmware # node.firmware \/ n.down > node.down
               \/ node.running /\ ~n.running

(* WPC_Int_send_request: the node executes the request, becoming `after',   *)
(* and the caller goes on as `answered' says; or the request or its confirm  *)
(* is lost, it goes on as `unanswered' says, and the process ends itself if  *)
(* nothing was heard for too long.                                         *)
Answered(t, after, answered) ==
  /\ node.down = 0
  /\ node' = after
  /\ Proceeds(t, answered, 0, Disturbs(after))
  /\ silence' = 0 /\ UNCHANGED <<exited, lost>>
Spent(c, cost, tidy) == [c EXCEPT !.left = Down(@, cost), !.clean = @ /\ tidy]
Lost(t, cost, n, unanswered) ==
  LET c == IF unanswered.c = Idle THEN Idle
           ELSE Spent(unanswered.c, cost, n # node \/ node.down > 0)
  IN  /\ node' = [n EXCEPT !.down = Down(@, cost)]
      /\ Proceeds(t, [unanswered EXCEPT !.c = c], cost, Disturbs(n))
      /\ lost' = lost + (IF node.down > 0 THEN 0 ELSE 1) /\ lost' <= MaxLost
      /\ silence' = silence + cost
      /\ exited' = (m_timeout_after_stop_task_s > 0 /\ silence' > m_timeout_after_stop_task_s)
Request(t, cost, after, answered, unanswered) ==
  /\ open /\ ~exited
  /\ \/ Answered(t, after, answered)
     \/ Lost(t, cost, node, unanswered)
     \/ node.down = 0 /\ after # node /\ Lost(t, cost, after, unanswered)
  /\ UNCHANGED <<boots, m_timeout_after_stop_task_s, open>>
Requests(t, cost, after, answered, unanswered) ==
  /\ Request(t, cost, after, answered, unanswered)
  /\ UNCHANGED <<m_mtu, m_disabled_poll_request, stale>>

Begins(t, c) ==
  /\ open /\ ~exited /\ call[t] = Idle
  /\ call' = [call EXCEPT ![t] = c] /\ answer' = None
At(t, at) == call[t].at = at

(* A reboot that takes r units.  A firmware that was marked for processing  *)
(* takes over; a scratchpad that is not complete is lost.                  *)
Rebooted(r) ==
  [node EXCEPT !.running = FALSE, !.down = r, !.told = FALSE, !.marked = FALSE,
     !.firmware = IF node.marked THEN 1 - @ ELSE @,
     !.pad = IF Complete(@) THEN @ ELSE NoPad]

-------------------------------------------------------------------------------
(* Initialisation, MTU, polls                                              *)

(* WPC_Int_initialize fails, or WPC_initialize goes on with the MTU.  The   *)
(* static variables keep the values they have.                             *)
Initialize(t) ==
  /\ ~open /\ ~exited
  /\ \/ Proceeds(t, Returns(Call("init", "", <<>>, 0), "INTERNAL_ERROR"), 0, FALSE)
        /\ UNCHANGED <<open, silence>>
     \/ Proceeds(t, Goes(Call("init", "mtu", <<>>, 0)), 0, FALSE) /\ open' = TRUE /\ silence' = 0
  /\ UNCHANGED <<node, m_mtu, m_timeout_after_stop_task_s, m_disabled_poll_request,
                 exited, lost, stale, boots>>
Close ==
  /\ open /\ ~exited /\ \A t \in Callers : call[t] = Idle
  /\ open' = FALSE /\ answer' = None
  /\ UNCHANGED <<node, m_mtu, m_timeout_after_stop_task_s, m_disabled_poll_request,
                 line, call, stale, boots>>

SetsMtu(c) == Goes([c EXCEPT !.at = "mtu"])
(* The poll thread: the indication of a reboot is handed to the dispatch    *)
(* thread, whose handler tells the client and reads the MTU.  The node      *)
(* keeps an indication that was not fetched.                               *)
TellsOnly == Goes(Idle)
Handler == SetsMtu(Call("state", "", <<>>, 0))
Poll ==
  LET Then(code) == IF code # OK \/ node.told THEN Goes(Idle) ELSE Handler
  IN  /\ ~m_disabled_poll_request /\ call[Dispatch] = Idle
      /\ Requests(Dispatch, 1, [node EXCEPT !.told = TRUE], Then(OK), Then(TIMEOUT))
      /\ node'.told # node.told => silence' = 0

(* WPC_Int_set_mtu: m_mtu is written after the request, outside any lock.   *)
ReadMtu(t) ==
  LET Then(code) ==
        IF code = OK THEN Goes([call[t] EXCEPT !.at = "store", !.got = <<Mtu(node.firmware)>>])
        ELSE Goes([call[t] EXCEPT !.at = "store"])
  IN  /\ At(t, "mtu") /\ Request(t, 1, node, Then(OK), Then(TIMEOUT))
      /\ stale' = (call'[t].got = <<>> \/ \E u \in Callers \ {t} : At(u, "store"))
      /\ UNCHANGED <<m_mtu, m_disabled_poll_request>>
StoreMtu(t) ==
  /\ At(t, "store") /\ ~exited
  /\ m_mtu' = IF call[t].got = <<>> THEN m_mtu ELSE call[t].got[1]
  /\ Proceeds(t, Returns(call[t], "OK"), 0, FALSE)
  /\ UNCHANGED <<node, open, m_timeout_after_stop_task_s, m_disabled_poll_request, line, stale, boots>>

(* The watchdog and the wait after a stop are given the same duration.      *)
SetMaxPollFailDuration(d) ==
  /\ ~exited /\ m_timeout_after_stop_task_s' = d
  /\ silence' = IF m_timeout_after_stop_task_s = 0 /\ d > 0 THEN 0 ELSE silence
  /\ answer' = None
  /\ call' = AllDisturbed
  /\ UNCHANGED <<node, open, m_mtu, m_disabled_poll_request, exited, lost, stale, boots>>

-------------------------------------------------------------------------------
(* Start and stop                                                          *)

Bit(res, b) == (res \div b) % 2 = 1
StartResult(c, res) ==
  CASE res < 0     -> Returns(c, "INTERNAL_ERROR")
    [] Bit(res, 1) -> Returns(c, "STACK_ALREADY_STARTED")
    [] Bit(res, 2) -> Returns(c, "NET_ADD_NOT_SET")
    [] Bit(res, 4) -> Returns(c, "NODE_ADD_NOT_SET")
    [] Bit(res, 8) -> Returns(c, "ROLE_NOT_SET")
    [] res # 0     -> Returns(c, "INTERNAL_ERROR")
    [] OTHER       -> Goes([c EXCEPT !.at = "status", !.left = StartWait])
StartStack(t) ==
  LET Then(res) == StartResult(Call("start", "", <<>>, 0), res)
  IN  /\ call[t] = Idle
      /\ \E code \in IF node.running THEN {1} ELSE {0} \cup Missing :
           Requests(t, 1, IF code = 0 THEN [node EXCEPT !.running = TRUE] ELSE node, Then(code), Then(TIMEOUT))

StopStack(t) ==
  /\ Begins(t, [Call("stop", "stop", <<>>, 0) EXCEPT !.clean = (silence = 0 /\ node.down = 0)])
  /\ m_disabled_poll_request' = TRUE
  /\ UNCHANGED <<node, open, m_mtu, m_timeout_after_stop_task_s, line, stale, boots>>
(* Of the results only 1 and 128 are errors: a lost confirm is normal.      *)
LostStopIsError(c, res) ==
  IF res < 0 THEN Goes([c EXCEPT !.at = "end", !.res = "INTERNAL_ERROR"])
  ELSE Goes([c EXCEPT !.at = "wait"])
StopResult(c, res) ==
  CASE res = 1   -> Goes([c EXCEPT !.at = "end", !.res = "STACK_ALREADY_STOPPED"])
    [] res = 128 -> Goes([c EXCEPT !.at = "end", !.res = "ACCESS_DENIED"])
    [] OTHER     -> Goes([c EXCEPT !.at = "wait"])
RequestStop(t) ==
  /\ At(t, "stop")
  /\ \E r \in 1..MaxDown :
       LET Then(res) == StopResult([call[t] EXCEPT !.base = r], res)
       IN  \/ node.running /\ Requests(t, 1, Rebooted(r), Then(OK), Then(TIMEOUT))
           \/ ~node.running /\ r = 1 /\ Requests(t, 1, node, Then(r), Then(TIMEOUT))
           \/ r = 1 /\ Requests(t, 1, node, Then(128), Then(TIMEOUT))
(* get_stack_status takes the duration as a uint16_t.                       *)
timeout_s(duration) == duration % DurationSpan
WaitAfterStop(t) ==
  /\ At(t, "wait") /\ ~exited
  /\ node' = [node EXCEPT !.down = Down(@, 1)]
  /\ Proceeds(t, Goes([call[t] EXCEPT !.at = "status",
                         !.left = timeout_s(m_timeout_after_stop_task_s)]), 1, FALSE)
  /\ silence' = silence + 1
  /\ UNCHANGED <<host, exited, lost, stale, boots>>

(* get_stack_status                                                        *)
StatusEnds(c, res) ==
  IF c.op = "stop" THEN Goes([c EXCEPT !.at = "end", !.res = res]) ELSE Returns(c, res)
ReadStatus(t) ==
  LET Then(code) == IF code = OK THEN StatusEnds(call[t], "OK") ELSE Goes(call[t])
  IN  At(t, "status") /\ call[t].left > 0 /\ Requests(t, 1, node, Then(OK), Then(TIMEOUT))
StatusTimesOut(t) ==
  /\ At(t, "status") /\ call[t].left = 0 /\ ~exited
  /\ Proceeds(t, StatusEnds(call[t], "INTERNAL_ERROR"), 0, FALSE)
  /\ UNCHANGED <<node, host, line, stale, boots>>
StopEnds(t) ==
  /\ At(t, "end") /\ ~exited
  /\ m_disabled_poll_request' = FALSE
  /\ Proceeds(t, Returns(call[t], call[t].res), 0, FALSE)
  /\ UNCHANGED <<node, open, m_mtu, m_timeout_after_stop_task_s, line, stale, boots>>

-------------------------------------------------------------------------------
(* Firmware version and scratchpad                                         *)

Next1(c, o) == [c EXCEPT !.got = @ \o o]
ReadVersion(t) ==
  LET c == call[t]
      n == Len(c.got) + 1
      read == [c EXCEPT !.got = Append(@, Version(node.firmware)[n])]
      Then(code) ==
        IF code # OK THEN Returns(c, convert_error_code(ATT_READ, code))
        ELSE IF n = 4 THEN Returns(read, "OK") ELSE Goes(read)
  IN  At(t, "version") /\ Requests(t, 1, node, Then(OK), Then(TIMEOUT))

StartUpdate(t) ==
  LET c == call[t]
      code == IF node.running THEN 1 ELSE 0
      Then(res) ==
        IF res = OK /\ c.op = "upload" THEN Goes([c EXCEPT !.at = "max"])
        ELSE Returns(c, convert_error_code(SCRATCHPAD_LOCAL_START, res))
      after == [node EXCEPT !.pad = [size |-> Len(c.data), octets |-> <<>>]]
  IN  At(t, "start") /\ Requests(t, ScratchpadStartTimeout, IF code = 0 THEN after ELSE node, Then(code), Then(TIMEOUT))

(* The loop over the blocks, once the node has told the size of a block.    *)
EndsEarly(c) ==
  IF Len(c.got) + c.size >= Len(c.data) THEN Returns(c, "OK") ELSE Goes([c EXCEPT !.at = "block"])
Loads(c) == IF Len(c.got) = Len(c.data) THEN Returns(c, "OK") ELSE Goes([c EXCEPT !.at = "block"])
ReadBlockMax(t) ==
  LET Then(code) ==
        IF code = OK THEN Loads([call[t] EXCEPT !.size = BlockMax])
        ELSE Returns(call[t], convert_error_code(ATT_READ, code))
  IN  At(t, "max") /\ Requests(t, 1, node, Then(OK), Then(TIMEOUT))
BlockSize(c) == IF Len(c.data) - Len(c.got) > c.size THEN c.size ELSE Len(c.data) - Len(c.got)
WithoutStart(c) == Len(c.got)
Address(c) == c.base + Len(c.got)
Block(c) == SubSeq(c.data, Len(c.got) + 1, Len(c.got) + BlockSize(c))

(* The node takes the blocks of a scratchpad in order, the last one with    *)
(* another result.                                                         *)
BlockCode(c) ==
  CASE node.running -> 3
    [] node.pad.size = 0 -> 4
    [] Address(c) # Len(node.pad.octets) -> 5
    [] Address(c) + BlockSize(c) > node.pad.size -> 6
    [] OTHER -> IF Address(c) + BlockSize(c) = node.pad.size THEN 1 ELSE 0
UploadBlock(t) ==
  LET c == call[t]
      Then(res) ==
        IF res > 1 \/ res < 0 THEN Returns(c, convert_error_code(SCRATCHPAD_LOCAL_BLOCK, res))
        ELSE Loads(Next1(c, Block(c)))
      after == [node EXCEPT !.pad.octets = @ \o Block(c)]
  IN  /\ At(t, "block") /\ c.op # "download" /\ ~exited
      /\ IF BlockSize(c) > MAXIMUM_SCRATCHPAD_BLOCK_SIZE
         THEN /\ Proceeds(t, Then(6), 0, FALSE) /\ UNCHANGED <<node, host, line, stale, boots>>
         ELSE Requests(t, ScratchpadBlockTimeout, IF BlockCode(c) \in {0, 1} THEN after ELSE node,
                       Then(BlockCode(c)), Then(TIMEOUT))

(* Result 1 is "stack not stopped" in the table, but the test that comes    *)
(* before it takes it for the last block: nothing is copied, the call goes   *)
(* on and returns APP_RES_OK.                                              *)
ReadCode(c) ==
  CASE node.running -> 1
    [] ~Complete(node.pad) -> 4
    [] Address(c) >= node.pad.size -> 2
    [] Address(c) + BlockSize(c) > node.pad.size -> 3
    [] OTHER -> 0
NotCopied(c) == Next1(c, Block(c))
DownloadBlock(t) ==
  LET c == call[t]
      octets == SubSeq(node.pad.octets, Address(c) + 1, Address(c) + BlockSize(c))
      Then(res) ==
        CASE res > 1 \/ res < 0 -> Returns(c, convert_error_code(SCRATCHPAD_LOCAL_BLOCK_READ, res))
          [] res = 1 -> Loads(NotCopied(c))
          [] OTHER   -> Loads(Next1(c, octets))
  IN  /\ At(t, "block") /\ c.op = "download" /\ ~exited
      /\ IF BlockSize(c) > MAXIMUM_SCRATCHPAD_BLOCK_SIZE
         THEN /\ Proceeds(t, Then(6), 0, FALSE) /\ UNCHANGED <<node, host, line, stale, boots>>
         ELSE Requests(t, 1, node, Then(ReadCode(c)), Then(TIMEOUT))

ClearLocalScratchpad(t) ==
  LET Then(res) == Returns(Call("clear", "", <<>>, 0), convert_error_code(SCRATCHPAD_CLEAR_LOCAL, res))
  IN  /\ call[t] = Idle
      /\ IF node.running THEN Requests(t, ScratchpadStartTimeout, node, Then(1), Then(TIMEOUT))
         ELSE Requests(t, ScratchpadStartTimeout, [node EXCEPT !.pad = NoPad, !.marked = FALSE], Then(OK), Then(TIMEOUT))
UpdateLocalScratchpad(t) ==
  LET Then(res) == Returns(Call("update", "", <<>>, 0), convert_error_code(SCRATCHPAD_UPDATE_LOCAL, res))
      code == IF node.running THEN 1 ELSE IF Complete(node.pad) THEN 0 ELSE 2
  IN  /\ call[t] = Idle
      /\ Requests(t, 1, IF code = 0 THEN [node EXCEPT !.marked = TRUE] ELSE node, Then(code), Then(TIMEOUT))
StartScanNeighbors(t) ==
  LET Then(res) == Returns(Call("scan", "", <<>>, 0), convert_error_code(SCAN_NEIGHBORS, res))
  IN  call[t] = Idle /\ Requests(t, 1, node, Then(IF node.running THEN 0 ELSE 1), Then(TIMEOUT))

(* Entry of the calls whose first request is one of those above.            *)
Transfers ==
  {Call("version", "version", <<>>, 0)}
  \cup {Call(op, "start", i, 0) : op \in {"begin", "upload"}, i \in Images}
  \cup {Call("blocks", "max", SubSeq(i, b + 1, Len(i)), b) : i \in Images, b \in {0, BlockMax}}
  \cup {Call("download", "max", [n \in 1..len |-> 0], b) : len \in {3}, b \in {0, 1}}
BeginTransfer(t) ==
  /\ \E c \in Transfers : Begins(t, c)
  /\ UNCHANGED <<node, host, line, stale, boots>>

NodeReboots ==
  /\ boots < MaxBoots /\ ~exited /\ boots' = boots + 1
  /\ \E r \in 1..MaxDown : node' = Rebooted(r)
  /\ call' = AllDisturbed
  /\ answer' = None
  /\ UNCHANGED <<host, line, stale>>

-------------------------------------------------------------------------------
Init ==
  /\ node = [running |-> FALSE, down |-> 0, firmware |-> 0, pad |-> NoPad,
             marked |-> FALSE, told |-> TRUE]
  /\ open = FALSE /\ m_mtu = DEFAULT_MTU_SIZE /\ m_timeout_after_stop_task_s = Default
  /\ m_disabled_poll_request = FALSE
  /\ silence = 0 /\ exited = FALSE /\ lost = 0 /\ boots = 0
  /\ call = [t \in Callers |-> Idle] /\ answer = None /\ stale = TRUE

ThreadStep(t) ==
  \/ Initialize(t) \/ StartStack(t) \/ StopStack(t) \/ RequestStop(t) \/ WaitAfterStop(t)
  \/ ReadStatus(t) \/ StatusTimesOut(t) \/ StopEnds(t)
  \/ BeginTransfer(t) \/ ReadVersion(t) \/ StartUpdate(t) \/ ReadBlockMax(t)
  \/ UploadBlock(t) \/ DownloadBlock(t)
  \/ ClearLocalScratchpad(t) \/ UpdateLocalScratchpad(t) \/ StartScanNeighbors(t)
OtherStep ==
  \/ \E t \in Callers : ReadMtu(t) \/ StoreMtu(t)
  \/ \E d \in Durations : SetMaxPollFailDuration(d)
  \/ Close \/ Poll \/ NodeReboots
Step == (\E t \in Threads : ThreadStep(t)) \/ OtherStep
(* A caller looks at its result before anything else happens.               *)
Returned ==
  answer # None /\ answer' = None /\ UNCHANGED <<node, host, line, call, stale, boots>>
Next == Returned \/ (answer = None /\ Step)

Spec == Init /\ [][Next]_vars

-------------------------------------------------------------------------------
(* What the node has at the place of the octets a call is about.            *)
There(c) ==
  LET last == c.base + Len(c.data)
  IN  IF Len(node.pad.octets) < last THEN <<>> ELSE SubSeq(node.pad.octets, c.base + 1, last)

(* A transfer that returns APP_RES_OK has moved every octet to its place:    *)
(* what the node has is what was uploaded, what the caller has is what the   *)
(* node had, and the four parts of the version are one firmware's.  This is  *)
(* for a call during which nobody else changed the scratchpad and the node   *)
(* did not reboot.  A download says nothing while the stack runs.           *)
OkMeansTransferred ==
  LET c == answer.c
  IN  answer.res = "OK" /\ c.clean =>
        CASE c.op = "upload"   -> node.pad = [size |-> Len(c.data), octets |-> c.data]
          [] c.op = "blocks"   -> There(c) = c.data
          [] c.op = "download" -> node.running \/ There(c) = c.got
          [] c.op = "version"  -> c.got = Version(node.firmware)
          [] OTHER             -> TRUE

(* The table gives result 1 of a block read, which is the answer while the   *)
(* stack runs, the meaning APP_RES_STACK_NOT_STOPPED: a download that        *)
(* returns APP_RES_OK has got its octets.                                  *)
DownloadMeansCopied ==
  LET c == answer.c
  IN  answer.res = "OK" /\ c.clean /\ c.op = "download" => There(c) = c.got

(* The reboot after a stop may last as long as the maximum poll fail        *)
(* duration, even if the confirm of the stop is lost with it: the stop       *)
(* returns APP_RES_OK and the watchdog does not end the process.  This is    *)
(* for a node that was heard just before, and no other thread whose request  *)
(* is lost or which waits after a stop meanwhile: both outlast the timeout.  *)
StopToleratesReboot ==
  /\ answer.c.op = "stop" /\ answer.c.clean /\ answer.res = "INTERNAL_ERROR"
       /\ m_timeout_after_stop_task_s \in 1..(DurationSpan - 1)
     => answer.c.base > m_timeout_after_stop_task_s
  /\ \A t \in Threads :
       exited /\ call[t].op = "stop" /\ call[t].clean => call[t].base > m_timeout_after_stop_task_s

(* Unless its last reading failed or two of them crossed, the MTU that       *)
(* decides about fragments is the node's, whatever firmware it boots.       *)
MtuIsCurrent ==
  open /\ ~stale /\ node.told /\ (\A t \in Callers : call[t].at \notin {"mtu", "store"})
    => m_mtu = Mtu(node.firmware)
===============================================================================

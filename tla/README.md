# A TLA+ model of the Wirepas C mesh API

The repository is a C library through which a gateway talks to the sink of a Wirepas Mesh
network over a serial line. This directory holds TLA+ modules translated from its source, the TLC
configurations that check them, and proofs checked by TLAPS. Paths below are relative to
`src/lib/`; `PROJECT.json` gives, for every definition, the lines it stands for, the list of
hazards with the properties that cover them, and the findings.

## 1. The system

```
   application ── api/wpc.h ──┐                ┌── wpc_proto (protobuf front end: data, config, otap)
                              v                v
            wpc.c, dsap.c, msap.c, csap.c, attribute.c      (services: one request per operation)
                              │  request / confirm           ^ indication handlers
                              v                              │
            wpc_internal.c   sending_mutex                   │ callbacks
                              │        ^                      │
              slip.c, serial.c         │ poll request         │
                              │        │                      │
                              │   poll thread ──> ring ──> dispatch thread   (platform/linux/platform.c)
                              v                 m_queue_mutex
                        the sink (node)
```

| component | state it keeps | operations | hard behaviours |
|---|---|---|---|
| platform (`platform/linux/platform.c`) | ring of 20 indications with `m_ind_queue_write`, `m_ind_queue_read`, `m_queue_empty`; `m_polling_thread_state_request`; `m_dispatch_thread_running`; two mutexes | start, poll loop, dispatch loop, insert, close | unlocked reads, in-place handling of a slot, closing while either thread works or asks for the close itself |
| requests (`wpc/wpc_internal.c`) | static `frame_id`, time of the last successful exchange, poll-disabled flag | send a request and wait for its confirm; poll and fetch indications | lost, late and garbled frames, retries, ids that wrap, a node silent for too long |
| slip, serial (`wpc/slip.c`, `platform/linux/serial.c`) | the file descriptor, the static read buffer of `get_single_char` | encode, decode, read, write, reopen | lost frame borders, CRC errors, 8-bit indexes, timeouts, octets left from before a closing |
| data transmission (`wpc/dsap.c`) | static `packet_id`, table of sent-callbacks | send a message in fragments; report from the node | unlocked read-modify-write, a report that overtakes its registration |
| data reception (`wpc/dsap.c`, `wpc/reassembly`) | hash of incomplete packets, `m_is_queue_empty` | store a fragment, deliver, collect | repeats, reordering, no memory, the flag read by another thread |
| services (`wpc/msap.c`, `csap.c`, `wpc.c`) | `m_disabled_poll_request`, `m_mtu`, `m_timeout_no_answer_ms` (in `wpc_internal.c`), `m_timeout_after_stop_task_s` | initialise, start, stop, scratchpad upload and download, firmware version, scan | the node reboots on a stop, perhaps into another firmware; calls of several requests interleave |
| parameter accessors (`wpc/wpc.c`, `msap.c`, `csap.c`, `attribute.c`) | none | some 50 getters and setters | octet order, paddings, conversions, refusals and lost answers |
| OTAP (`wpc_proto/internal_modules/proto_otap.c`) | `m_scratchpad_load_current_seq`, `m_restart_after_load` | upload in chunks or at once, clear, process | multi-message protocol around a stack that must be restarted |
| configuration (`wpc_proto/internal_modules/proto_config.c`) | `m_sink_config`, a cache of what the node holds | set, get, refresh on stack status | cache written by two threads |
| front end (`wpc_proto.c`, `proto_data.c`) | callbacks of both sides, buffers allocated | start, close, dispatch of requests, events | failures on every path, closing while callbacks run |
| gateway (`../example/linux/gw-example/main.c`) | publish queue of 32 messages, MQTT connection | publish from three threads, reconnect, answer requests | the payload is used without the lock, the connection goes while anything is under way |
| `common.c`, logger, generated code, containers, other examples | | convert, log | none with state of its own |

Interactions. A *request* is a blocking call: `sending_mutex` is taken, the frame written, frames are
read until the confirm is recognised or the timeout passes. The *poll thread* makes such a call
every 20 ms, and, if the node has indications, reads and acknowledges them one by one, inserting
each into the ring under `m_queue_mutex` while it holds `sending_mutex`. The *dispatch thread* takes the
oldest indication, releases `m_queue_mutex`, calls its handler and, through it, the application,
which may make requests of its own; then it retakes the mutex and frees the slot.
`reassembly_is_queue_empty` is read by the poll thread, without a lock, to decide whether it may end.

What makes each part correct:

- platform: every acknowledged indication is handled exactly once, in order, from a slot nobody
  changes; neither thread waits for ever; a close drains everything and returns.
- requests: a confirm is never taken for another call's; a request is executed at most once unless
  the caller is told otherwise; an acknowledged indication is in the ring, or in the
  hands of the poll thread, which puts it there next.
- transmission: success means every fragment is with the node; packet ids do not mix unless two threads read
  the same one; a report calls one callback, once, after the message has been sent, and it is that of the message unless an entry
  of the table changed hands at the wrong moment; a callback registered in time is called.
- reception: what is delivered is one whole message; a complete message is delivered; the flag is
  only set when nothing is stored and comes back when nothing more arrives.
- configuration: what is cached is what the node holds; success means every parameter asked for is in the node
  and the stack is in the state asked for; a change is told in an event, which may show an old value only where a reading failed or was overtaken.
- line: what is written reads back; a damaged frame is never taken for another, save for a dummy confirm; one fault costs at most one sound frame.
- services: success of a transfer means every octet is in its place; a stop bears the reboot it causes; the MTU kept is the node's.
- accessors: together they are a store: what is read is what was written, an error changes nothing.
- front end and gateway: nothing leaks whatever fails; callbacks find their module; the queue is first in, first out; the
  broker shows the gateway online when it is.
- OTAP: the node holds blocks of one scratchpad only; success of the last chunk means all of it; a
  stack stopped for an upload is started again, or the request whose start
  failed says so.

## 2. Modules

| module | models | composition |
|---|---|---|
| `IndicationFifo` | what the platform promises the callbacks (abstract) | |
| `IndicationQueue` | the ring at the grain of single loads and stores | refines `IndicationFifo` |
| `PlatformThreads` | both threads, both mutexes, the store of fragments in outline, close | ring as a sequence (what the refinement justifies), fragments as a set of packets and the flag |
| `PlatformThreadsProofs` | theorems about the two threads | extends `PlatformThreads` |
| `RequestConfirm` | requests, polls and acknowledgements over a faulty line | one host thread: `sending_mutex` excludes the others |
| `RequestConfirmProofs` | theorems about the exchanges | extends `RequestConfirm` |
| `DsapTx` | fragments, packet ids and callbacks of sent messages | a request is one step with three outcomes (what `RequestConfirm` justifies) |
| `MCDsapTx` | the symmetry TLC uses for it | extends `DsapTx` |
| `DsapTxProofs` | theorems about sending | extends `DsapTx` |
| `Reassembly` | fragments received | the part of it the poll thread sees is in `PlatformThreads` |
| `ReceptionProofs` | theorems about the way of an indication: the ring and the store of fragments | extends `IndicationQueue` and `Reassembly`, whose definitions have names of their own for that |
| `ScratchpadUpload` | the OTAP handlers with the stop and start of the stack under them | calls of the node with the outcomes of `RequestConfirm` |
| `ScratchpadUploadProofs` | theorems about uploads | extends `ScratchpadUpload` |
| `SinkConfig` | the cached configuration: requests, refreshes, events | calls of the node as in `ScratchpadUpload`; alone, without an upload under way |
| `SinkConfigProofs` | theorems about the configuration | extends `SinkConfig` |
| `MCSinkConfig` | the symmetry TLC uses for it | extends `SinkConfig` |
| `Slip`, `MCSlip` | frames on the serial line, with the real CRC and escaping; octets that exercise them | below `RequestConfirm`: its outcomes of a read are what `Slip` shows |
| `ParameterStore` | what the parameter accessors promise (abstract) | |
| `NodeAccess`, `MCNodeAccess` | every parameter accessor; the values used | refines `ParameterStore` |
| `NodeServices`, `MCNodeServices` | the services of several requests, and what the library keeps of the node | requests with the outcomes of `RequestConfirm`, interleaved with those of the dispatch thread |
| `NodeServicesProofs` | theorems about the services, for any number of threads | extends `NodeServices` |
| `FrontEnd` | start, close, dispatch, events, memory; what the application's callback does is a parameter | on top of `SinkConfig` and `ScratchpadUpload`, which say what requests do |
| `Gateway` | the gateway example | extends `FrontEnd`; its queue refines `IndicationFifo` |
| `GatewayProofs` | theorems about the gateway and the front end | extends `Gateway` |

### IndicationQueue

`slots`, `wr`, `rd`, `empty` are the four C variables of the ring. `ppc` is the place of the poll
thread among its unlocked reads: the two operands of line 221, the second look at
`m_queue_empty` in line 230, the comparison of 238 and the subtraction of 240 or 245. `seen` is the
value of `m_ind_queue_read` loaded at 221. C allows a compiler to load a plain variable again at every use,
or to keep it: `reload`, fixed at the start, says which the build does. The unsigned subtraction of line 245 is a
remainder by `UIntSpan`. Both accesses of the poll thread under the mutex are one step
(`OnIndicationReceivedLocked`); the two stores of the dispatch thread, which the unlocked reads of
the poll thread can separate, are two (`DispatchAdvance`, `DispatchMarkEmpty`).

### PlatformThreads

`ppc` and `dpc` are the two program counters, `cpc[c]` that of each caller of `Platform_close`: the
application (`"app"`) or a thread that gave up on a silent node (`"poll"`, `"dispatch"`, from
`check_if_timeout_reached_locked`). `sender` is the owner of `sending_mutex`; the owner of
`m_queue_mutex` follows from `dpc`. `pthread_join` is external: it returns when the thread has
ended, and at once with an error when the two threads join each other or another thread is
already joining, as glibc does. A stop request made before the poll thread's first statement
is overwritten (line 192), so that `Platform_close` waits for ever: `CloseTerminates` is stated for requests made after it. The node may send indications
for ever; `NodeFallsSilent` says that from now on it has none (`silent`). While fragments keep coming the flag stays cleared and the poll thread
goes on, and with a fragment duration of 0 (`forever`, "Zero equals forever") an incomplete packet is never collected: `CloseTerminates`
has both as conditions, and `QueueMoves`, which says that the two mutexes are never waited for in a circle, has neither. The fragments a
handler stores or completes are `HandleFragment`, the collection `GarbageCollect`; `Reassembly` studies both in detail.

### RequestConfirm

`toNode` and `toHost` are the frames on the line in each direction; faults remove or garble the
newest. `phase`, `attempt`, `retries` and `left` are the loop counters of `send_request_locked` and
`get_indication_locked`, `nextId` the static frame id. An indication read is answered first (line 301) and handed to the platform after that (306), in two steps:
in between it is `held`, and the node may have forgotten it. A write may fail because the link breaks and is closed, or because it is short: the link then stays
open and the node gets a truncated request, or nothing. Dummy confirms come from the node here; `Slip` shows how the line can forge one. The node is external: it executes requests in
order, answers a request with a wrong CRC by a dummy confirm, and forgets an indication once it is
acknowledged. `executed`, `answer`, `clean`, `outcome`, `garbage` record history for the properties.

### DsapTx

A sender's `dsap_data_tx_request` is read of `packet_id`, its write, one step per fragment (accepted,
refused, or accepted with a lost confirm), then the three stores that `set_indication_cb` makes in an
entry of the table, which `Scan` has chosen without a lock. The dispatch thread takes the node's report of any accepted,
tracked fragment (`OnReport`), searches the table entry by entry (`Look`, which stores `busy = false` when it finds the pdu id), loads the callback
in a step of its own (`LoadCb`), and calls it (`CallBack`), so that a sender can reclaim the entry between lines 67 and 68 of `dsap.c`.

History tells the cases apart in which the table is right from those in which it cannot be: `taken` lists the packet ids in the order
they were read, `raced` says that a sender has read one another was about to write; `crossed` holds the pairs of a message reported and a callback stored
in its entry between the release and the load; `clashed` says that two senders chose the same entry; `inTime` holds the callbacks that were in the table
before the report of their message was handled.

### Reassembly

`packets`, `flag` and `buffer` are `m_packets`, `m_is_queue_empty` and `reassembly_buffer`. A fragment
indication is handled in steps, because the poll thread reads the flag in between: the flag is cleared first
(`Receive`), then the fragment stored, refused as a duplicate, or lost for want of memory; then
the packet delivered if complete; then old packets collected if it is time. `old` is the set of
packets whose timestamp is too far back.

### ScratchpadUpload

`pc` walks through a handler: status, autostart off, stop, the work, restart, autostart on,
answer. The blocks of a chunk and of a full upload go to the node one by one (`next`), and any of them can fail. Every call of the node has the outcomes
"done", "done but the confirm was lost" and "not done"; the stop that makes the node process a scratchpad can be lost and still be answered `APP_RES_OK`, since the
status is read after the wait and shows a node that is there.
`restart["load"]` is `m_restart_after_load`, which outlives a request, `restart["process"]` the local
flag of the processing request. `debt`, `upset` and `answer` are history. `debt` follows the stack the host has stopped: its start is
`"owed"` from the moment the host finds it running and has to stop it, `"paid"` when this request has started it, `"failed"` when this request has tried in vain, and
`"lost"` when an earlier one had: the code forgets such a stack (`proto_otap.c:213` clears the flag before the start), later requests find it stopped and may be answered with success.
`upset` says whether power was lost since the request began, `answer` what was answered.

### SinkConfig

`cache` is `m_sink_config`, reduced to the stack status, some parameters and the scratchpad target; `running`,
`autostart`, `stored` are what the node holds. Two threads work on the cache: `"app"` handles one request after
the other, `"dispatch"` the stack status indications. `pc`, `todo` and `held` are each thread's place: a refresh
reads the fields of `todo` one by one, and a value read is `held` until it is written to the cache, since
`sending_mutex` is released in between. `Take`, `Plan`, `AutostartOff`, `StopConfirmed` ... `Finish`, `Answer` follow
`Proto_config_handle_set_config` from top to bottom; a parameter is set in two steps, the request
(`SetConfirmed`) and the store of the cache (`StoresSet`), because `sending_mutex` is released between them, and so are a stop, a start and the value read by a
refresh (`StoresStopped`, `StoresRunning`, `StoresHeld`). An event is lost when there is no memory for it or it cannot be encoded (`EventFails`). A confirmed start refreshes the cache
on the thread that made it, because `msap_stack_start_request` emulates the indication the node does not send.
`changed`, `restart` and `res` are the local variables of that function. History: `unsure`, the fields whose cached value
nobody can vouch for (their last change failed without saying how, the node changed by itself, or a reading was overtaken by a change
before it was stored), `blind`, the fields the present request decided about while they were unsure, `applied` and
`told`, what it has changed and the last event it sent, `missed`, the fields it has changed and then failed to read back or had an older reading stored over, `ran` and `upset` as in `ScratchpadUpload`.

The model shows four weaknesses of the unprotected cache, which the properties except by `unsure`, `blind` and `missed`: a
reading overtaken by a set leaves the old value in the cache until the next refresh; a set whose confirm was lost does so too, if nothing
else in the request has changed; and in both cases a later set to the value the cache wrongly shows is skipped and answered
with success; and a target whose read-back fails (`proto_config.c:236-243`) is told with its old value by a request answered with success (`TargetInSync`, section 5).

### Slip

Octets are numbers and the CRC is computed, because what matters is which octets need escaping, the two of the CRC
included, and which damaged frames would pass. `line` holds the octets not yet read, `buffered` the rest of the static
buffer of `get_single_char`, which a closing does not empty. `rx` is the state of one call of `Slip_get_buffer`;
`BetweenFrames`, `StartOfFrame`, `Inside` and `EndOfFrame` are the paths of its loop for one octet. Sending a request
is one step, since the host never reads and writes at once. The node is external; the line loses or changes a run of octets of a frame, or adds some
in front. `got` lists the frames returned, `intact` those that reached the line whole. `forged` counts the frames whose CRC field the line has turned into 0xFFFF:
`Slip_get_buffer` takes them for dummy confirms, which `OnlySentFrames` excepts and `DummyIsSent` does not.

### NodeAccess and ParameterStore

`memory` holds octets, under the access point and attribute id of `Table`, which is the list of parameters with the size and the
codec their accessors use. `Encode` and `Decode` are the conversions; `GetAttribute`, `SetAttribute` and the actions named after
one function do what the function does, a lost request, a lost confirm and every refusal of `Refusals` included. `OctetBase`
scales 256 down to 16, so that 32-bit values have four digits and a multicast address its top bit. Reading or writing the
application configuration takes two requests, which other calls can separate. `ParameterStore` knows values only: which
parameters were set to what, and that a result other than success or an internal error changes nothing. `answer` is
history: what the last call returned.

### NodeServices

A request is one step with the outcomes executed, lost, and executed with a lost confirm; `call[t]` is where caller `t` is
between requests and the local variables it keeps. Time is counted in units of 500 ms, and passes only in lost requests (a lost scratchpad block
costs `ScratchpadBlockTimeout`, a lost scratchpad start `ScratchpadStartTimeout`) and in the wait of `WPC_stop_stack`; `silence` is the time since `m_last_successful_answer_ts`. The node reboots on a stop and when it pleases,
stays down up to `MaxDown`, takes over a firmware marked for processing and forgets an incomplete scratchpad. `Poll` is the poll
thread when it fetches the indication of a reboot, `Handler` what the dispatch thread does with it. The duration given to
`WPC_set_max_poll_fail_duration` is kept twice in the code with the same value, once here. `clean` is history: nothing has
interfered with this call, be it another caller that changed the scratchpad, a reboot nobody asked for or a request that was lost when
the node could have answered. Of a stop, which is about time, it says more: it began with a node just heard, and no other caller let
time pass. A download from a running stack is refused with result 1, which the code takes for a last block of no octets (`NotCopied`): such a call is as clean as
any other, and `OkMeansTransferred` has the running stack as a stated exception. `MCNodeServices` restricts the interleavings TLC explores: one thread of the application meets every
fault and reboot, and a second one joins it once these are used up, for the calls that transfer something or start the stack, so that uploads, downloads and
version readings of two threads are interleaved request by request. `stale` is history of the MTU: the last reading failed, or began while another caller had one to store.

### FrontEnd and Gateway

`main` is the place of the application's main thread; `registered` the four callbacks; `event[t]` the event thread `t` makes, at one of the places "allocate" (the submessage exists, the encoding not yet),
"encode", "call" and "free"; `request` the request in progress, at "decoded", "handle", "encoded" or "failed", "respond"; `heap` the buffers allocated. Decoding, encoding and
each allocation may fail (`MaxFaults`), and each failure has its own release. Of the four closings of the modules two are empty functions; the other two are `UnregisterFromStackStatus`
and `ProtoDataClose`. `Gateway` gives the callback its body, `MQTT_publish`, and adds the queue, the publish thread,
the connection and the steps of `reconnect`, run by the main thread and by the client's callback thread. Paho's client calls back on one thread,
which is external like the broker: it keeps the last retained status and publishes the will when the connection is lost.
Events of both threads may be made at once, and the publish thread runs between the release and the taking of the lock.

## 3. Runs

| run | module | states | what it shows |
|---|---|---|---|
| `ring` | `IndicationQueue` | 949 thousand | no overrun with one load, refinement of the FIFO under every build, polling resumes |
| `threads` | `PlatformThreads` | 76 thousand | draining, nothing left after a close, a close ends once the node is silent, the queue moves |
| `fatal_on_dispatch` | same | violation | the dispatch thread giving up on the node never gets to `exit` |
| `rpc` | `RequestConfirm` | 973 thousand | confirms are matched, requests executed once, polls fetch indications, acknowledged means queued or in hand, calls return |
| `slip` | `MCSlip` | 872 thousand | requests read back, only sent frames are received (and forged dummies), a fault costs one frame |
| `access` | `MCNodeAccess` | 125 thousand | the accessors implement the store |
| `services` | `MCNodeServices` | 4.9 million | success means transferred, a stop bears the reboot, the MTU is current |
| `send` | `MCDsapTx` | 4.7 million | success is complete, ids do not mix, callbacks are called once, for the right message, after it is sent, and at all |
| `receive` | `Reassembly` | 822 thousand | whole messages only, none withheld, the flag is true and comes back |
| `upload` | `ScratchpadUpload` | 115 thousand | one scratchpad, complete on success, the restart is not forgotten, a stopped stack is started or its failure told |
| `config` | `MCSinkConfig` | 4.4 million | the cache is true but for fields in doubt, success means applied and running, a change is told |
| `gateway` | `Gateway` | 1.2 million | nothing leaks, the status is true, callbacks find their modules, the queue is a FIFO that empties |

The run that is meant to be violated checks one sentence of a comment; its counterexample is described in the `findings` of
`PROJECT.json`. Each modelled component has a `TypeOK` (that of `FrontEnd` is in `Gateway`; `NodeAccess` has
none), which any of these configurations can take as an invariant; the runs are spent on the
other properties, and the theorems of section 4 prove types for every size.

Bounds, and why they are enough:

- `ring`: `MaxInd = 3`, six slots, two indications. No counter is bounded, the state space is
  complete. Six slots give every relation of the two indexes on both sides of the wrap, a budget
  smaller and larger than the room; two values are enough to see a slot overwritten, lost or
  swapped, since the ring never looks at them. The theorems hold for every size.
- `threads`: ring of three, polls of two, one packet key, three closers, as many indications as the node cares to send. A ring can be full
  with an indication in hand, a packet can be incomplete, completed and begun again, and each pair of
  closers can overlap.
- `rpc`: three frame ids for five calls, so that they wrap; two attempts and one retry, so that each
  limit is met and exceeded; two faults, enough for a lost request and a late confirm of it; two
  indications per poll and two at the node. The guard of `Call` keeps the node's backlog below the number of
  ids: with 256 ids and calls of 500 ms or more, a backlog that long takes longer than the 60 s after which the
  library ends the process.
- `send`: two interchangeable senders, three calls of one or two fragments, a table of two entries and packet ids
  modulo two: the ids wrap, the table fills, both senders are in a call while the dispatch thread is between its steps, and an entry is released and taken again.
  Every way to each of `raced`, `crossed`, `clashed` and a callback registered too late is among the behaviours.
- `receive`: two keys, lengths of three and four fragments with a buffer of three, so that one length fits and one
  does not; two messages per key, so that a key is used again; four fragment indications and one
  failed allocation.
- `upload`: two sequence numbers, scratchpads of three blocks, chunks that are any ranges of them (so that a first, a middle and a
  last chunk exist, and chunks of several blocks fail in the middle), any number of requests.
  Everything is finite without a bound.
- `config`: one parameter of two values, two targets, keys as the other thing a request sets, any number of requests; one indication counted
  at a time and one failure. A second parameter adds only independent copies of the first, a second value shows
  a stale one; one failure at any call, of memory or of the node's power, is enough for every case above. Values are interchangeable, hence
  the symmetry.
- `slip`: requests that need escaping at every octet, the CRC included; three frames of the node, one of them a dummy confirm; a read
  buffer of two octets, so that one frame takes several reads and a closing leaves octets behind; a frame room of four octets, so
  that an overlong frame happens; octets damaged to END, ESC, 0 and 255, in runs of two, which is what turns a CRC field into 0xFFFF; two faults, so that the second can hit what the first left unsynchronised. `IndexSpan` is
  the real 256: no frame here reaches it, which the hazard of `slip.c:127` says.
- `access`: one cell of the node away from its factory value at a time, since accessors of different parameters share nothing but
  the application configuration's two. Values on both sides of every check, buffers smaller and larger than what is stored,
  refusals inside and outside each table, a parameter the node holds longer than asked for. One thread: calls are single
  requests but for two, and the properties speak of what each returns.
- `services`: scratchpads of three and two octets in blocks of two (a full and a shorter last block), start offsets, reboots
  of one to three units against durations of two and of five, where five does not fit the counter of four (`DurationSpan`, 2^16 in the code)
  that `get_stack_status` has for it; a block timeout of two units, between one
  and the scratchpad start's three; one request lost, one reboot nobody asked for, two threads and the dispatch thread. How long the node
  may stay silent is not bounded: `MaxLost` and the process that ends itself keep it finite.
  With two threads free to do everything at any time the state space is beyond TLC: `MCNodeServices` lets the second thread in when the faults are used up and the node
  is calm, which keeps every interleaving of two transfers. The theorems hold for `Spec`, without that restriction and for any number of threads.
- `gateway`: a queue of two slots, two packets, one request, one status and one failure, one loss of the connection: the
  queue fills, wraps and refuses, and each failure, each allocation and encoding of an event or a request among them, meets each state of the other threads.

Fairness, and why the code justifies it:

- the threads are scheduled by the operating system and the application's callbacks return: weak
  fairness of each thread's steps (`ring`, `threads`, `receive`);
- a mutex waited for is obtained: strong fairness of `PollLock`, `PollInsert` and `DispatchLock`. The poll thread sleeps 20 ms between two
  polls with no mutex held, and the dispatch thread blocks in a callback or a wait with `m_queue_mutex` released;
- time passes: an incomplete packet grows old and is collected, provided the maximum fragment
  duration is positive, which the documentation asks for when fragments are used (`receive`). In `threads` the collection is fair only once the node is silent, and never happens when the
  duration is 0;
- the publish thread is scheduled (`gateway`): weak fairness of `PublishThread`, which never waits for a lock held across a wait;
- nothing is assumed of the node or of the line: in `rpc` only the calling thread is fair, and
  timeouts do the rest;
- every call of the node returns (`CallReturns`), so a handler ends (`upload`, where no liveness is checked).

`CHECK_DEADLOCK FALSE` is used where calls, messages or fragments are bounded and the system comes
to rest when they are used up, or the process ends (`send`, `rpc`, `services`, `gateway`); every other run checks for deadlock.

## 4. Theorems

All theorems hold for every value of the constants that meets the named assumptions of the module
that declares them; the runs instantiate the same definitions. The assumptions say what the code's
constants and types give: sizes are positive, bounds of the model are natural numbers, a value that means "nothing" is none
of the values it stands beside (`NoInd`, `NULL`, `NoSeq`, `Unset`, the `Others` that are no parameter), the threads are different
threads. TLC evaluates them in every run. Each theorem follows from an inductive invariant `Inv`, which holds initially
(`InvInit`), is kept by every step (`InvNext`, one lemma or step per action), and implies the property.

**The ring** (`ReceptionProofs`, for every `MaxInd > 0`, every set of indications and every
`UIntSpan` larger than the ring). `Inv = TypeOK /\ RingInv /\ BudgetInv /\ NoOverrun` is inductive, which gives
`TypeCorrect` (indexes stay in the array, no budget exceeds `MaxInd`) and `NoOverrunHolds` (with one
load of `m_ind_queue_read` per poll, an acknowledged indication always finds a free slot).
`NoOverrun` alone is not inductive: it speaks of the moment of the insertion, while the poll thread measured
the room long before. `BudgetInv` carries the measure across the unlocked reads: from the load of the
read index to the last insertion, the dispatch thread can only advance that index, so the occupancy
seen by the poll thread is an upper bound of the real one. `RingInv` is needed because two equal indexes mean
full or empty according to `m_queue_empty`. `ImplementsFifoSafety` shows that every step of the ring is a step of `IndicationFifo` or
a stutter, whatever the build loads: it needs `HeldInv`, that every occupied slot holds an indication, and computes what the
sequence of occupied slots becomes when the write index moves (an element more at its end) and when the read index does (the
first one less). The arithmetic rests on two lemmas about remainders
(`ModSmall`, `ModOnce`), one about the successor of an index, one about the occupancy.

**Threads** (`PlatformThreadsProofs`, for every capacity, poll size and set of closers). `DrainedHolds` is about the last
moments of the platform, and needs to know all that came before: `RoomInv` (the room measured without a lock is still there
at the last insertion), `DrainInv` (what the poll thread has found empty stays empty, as only it inserts, and the flag
of the fragments never hides one), `ClosingInv` (a thread that closes the platform does nothing else; `exit` ends all of them), `JoinInv`
(the application gets past a join because that thread has ended, or because a thread that is ending the process joins it already),
`PlaceInv` (what each thread holds where).

**Exchanges** (`RequestConfirmProofs`, for every number of frame ids, attempts, retries and indications, any number of calls and
faults). None of the four properties is inductive: they speak of results, which depend on what was left on the line. `IdInv` gives `AnswerIsOwnHolds`: every
request or confirm on the line is of a call less than `IdSpan` calls back and carries the id that call had (`IdBefore`), so a
confirm with the present id is the present call's. `CleanInv` gives the two properties of a call begun on a
silent line: `CleanConfirm` lists the five contents the two directions of the line can have while it
waits for its confirm, `CleanIndication` what is on it while indications are read. `ExecutedInv` says that such a call has
one request on the line at most and none once it has been executed, `AnsweredInv` that an answer on the line, or taken by the node, is of an indication that the platform has or the
poll, which holds `sending_mutex`, has in hand,
`FutureInv` that calls to come have left no trace, `LoopInv` that the loops have a turn left.

**Transmission** (`DsapTxProofs`, for every number of senders, table size, number of ids and length). `OkMeansCompleteHolds` and `TypeCorrect` rest on `CallInv`
(senders work on different calls), `FragInv` (fragments go out in order) and `DoneInv`
(who has got as far as the table has all of them at the node). `LinkInv` and `SpacedInv` give `NoMixedPacketsHolds`: while no sender has read an id that another was about to write, ids are
taken in turn, and `SpacedInv` counts how many turns later an id comes again (`Distance`). `ReportInv` says that a report still to come, or in the hands of the dispatch thread, is the
only one of a complete message that has called nobody, and gives `CalledAfterSentHolds` without any exception. `TableInv` follows the table while no two senders have chosen the same entry: one sender at most fills an entry, which holds the callback and the pdu id of one call
except between two stores; a pdu id left behind in a free entry matches no report any more; and what the dispatch thread loads is the callback of the
message reported, or one that crossed the release. With `SettledInv`, which says the same of calls already made, it gives `CallbackIsOwnHolds`. `InTimeInv` follows a callback
registered in time from the table through the search into the hands of the dispatch thread (`Kept`) and gives `RegisteredIsCalledHolds`. The
exceptions are the code's races, not the instance's bounds: what happens in each of them, section 5 and the hazards of `dsap.c` say.

**Fragments** (`ReceptionProofs`, for every set of keys, finite set of lengths of at least two fragments,
buffer size and bound). `EmptyFlagIsTrue` is inductive as it stands (`EmptyFlagHolds`): every
step that stores finds the flag cleared before it, every step that sets it looks at the store it leaves.
`WholeMessagesHold` and `NothingWithheldHolds` are proved under `Collecting` (packets are collected before their key is used again; without it
`WholeMessages` is false, see the hazard of `reassembly.c:266`). The code decides that a packet is complete by comparing a sum
of sizes with a size, so the invariant has to say that the sum means what it should: `PacketInv` states of each
stored packet that its fragments are different fragments of the message now sent with its key, that the sum
is their number, that its last fragment has told it the size, and that a packet marked complete holds all of them; that a subset of a finite set with as
many elements is the whole set closes the argument (`FragmentAdded`). `WithheldInv` adds the converse for `NothingWithheld`: what came of a
message that nothing disturbed is in its packet, but for the fragment being stored, and a packet that holds everything is about to be handed over.

**Configuration** (`SinkConfigProofs`, for every set of parameters and values, any number of indications and failures).
`CacheIsTrue` is part of the invariant (`CacheIsTrueHolds`). `PlaceInv` ties the place of the thread to the kind of its request and to
what that has left to do; `AppliedInv` says that a parameter that is done with has the value asked for unless the answer will be an error, and rests on
`CacheIsTrue`, since the code skips what the cache already shows; `RunInv` says at each place whether the stack runs or which
flag will start it; `ToldInv` that what was changed is remembered until an event tells it and not changed after, `MissedInv` that a field which was changed and is in doubt has been missed, or is the one
about to be stored or read. They give
`OkMeansAppliedHolds`, `StackRunsHolds` and `ChangeIsToldHolds`.

**Uploads** (`ScratchpadUploadProofs`, for every number of blocks from two on and every set of sequence
numbers that does not contain the value meaning "none": they are 8 bits wide, `proto_otap.c:122`, and
the variable that holds them is wider). `Inv` is the conjunction of `TypeInv` (types, and that
the program counter belongs to the kind of request under way), `RestartInv`, `ImageInv`, `CompleteInv` and
`DebtInv`, and gives one theorem per property of the run `upload`. `ImageInv` adds to
"blocks of one scratchpad" that it is the one being loaded, which is what makes the next block fit;
`DebtInv` says which of the two restart flags remembers a stopped stack at each place of a handler,
and that a start that failed is in the answer of its request. What it cannot say is that the stack of an earlier failure runs: `OkMeansRunning` says so.

**Gateway** (`GatewayProofs`, for every size of the queue, any number of packets, requests, status events, failures and lost connections).
`NothingLeaksHolds` has two halves. A slot is found by its distance from the read index (`Dist`), and `SlotsInv` says that it holds memory if it is in use and not yet freed,
which also shows that the failure branch of `MQTT_publish` clears a slot that was empty; `RingInv` is again what tells full from empty. Buffers are
covered by `HeapInv`: each has an owner, the event, request or reconnection that will free it, which depends on how far that has got (`Owned`): a
submessage is owned until its encoding, the encoding until the callback is over.
`StatusIsTrueHolds` speaks of the moment when everything has settled; `StatusInv` says of every moment before that the status of the
present connection is still to be announced, or waits in the queue, or has been published, and `ConnInv` that nobody connects while the
connection is up, so that a failed connection cannot skip the status of one that works. `CallbacksFindModulesHolds` needs `MainInv`, the order in which the link and the modules open and close.
`QueueIsFifoSafety` shows that every step is a step of `IndicationFifo` or a stutter (`InsertArrives`, `CheckBegins`, `PublishEnds`, `ReleaseStutters`, `RestStutters`);
the abstract queue drops a message when the broker's client returns, two steps before the ring does.

**Services** (`NodeServicesProofs`, for every set of threads and of scratchpads, every size of a block, every set of durations of which one
fits its counter, any number of lost requests and reboots). The assumptions are `ImagesAssumption` (scratchpads consist of octets), `SizesAssumption` and
`TimesAssumption`. None of the properties is inductive, as all speak of what is returned at the end of several requests. `CallsInv` says of
each call how far it has got: `Shape` (what may be read or sent at each place), `TransferGood` (the octets moved so far, of a download those moved while the stack was stopped,
agree with the node's, and those of an upload with its own scratchpad, which is why the next block has the address the node waits for)
and `StopGood`, the budget of a stop: while the node reboots, the time it was silent and the time it still needs make at most the
length of its reboot, and the time already waited and the time left before the status is given up make more than the timeout. So giving up, like the watchdog, proves the reboot
longer than the duration (`ExitInv`). `AnswerInv` carries what `CallsInv` gives when a call returns to the answer. `MtuInv` says that when nobody is about to read the
MTU it is stored, or one caller is about to store the right one. A step of one caller is a step beside all others: `ProceedsKeeps` and
`RequestKeeps` prove once what a request does to the calls of the others, whatever its outcome (answered, lost, executed with a lost confirm), so that
each action only shows that its own call goes on well.

Only model-checked:

- liveness (`PollResumes`, `CloseTerminates`, `QueueMoves`, `FatalExits`, `CallReturns`, `FlagComesBack`, the fairness of `IndicationFifo`
  in `ImplementsFifo`, the part of `QueueIsFifo` that says the queue empties), which TLAPS 1.4.5 cannot prove under fairness;
- `ImplementsStore`: `NodeAccess` is a table of some fifty conversions over octets, bounded by values rather than by sizes, and its digits are
  computed with recursion over data;
- `Slip`: it uses the library's exclusive or (`Bitwise`), which is recursive, so nothing can be proved about it.

## 5. Where the code departs from its comments, beyond the findings

These properties state what a comment promises and are false of the model; the definitions are in the modules, and TLC refutes each of them when it is
given with the configuration of the run named.

- `MustNeverHappen` (`IndicationQueue`, `ring`): `platform.c:216-218` says that no lock is needed to measure the room. In a build
  that loads `m_ind_queue_read` at each use (the makefile does not optimise), the index may wrap between the comparison
  of line 238 and the subtraction of 245, the unsigned difference is huge, and an indication already acknowledged meets
  "No more room for indications! Must never happen!" (161).
- `OnlyUnhandledIsResent` (`RequestConfirm`, `rpc`): `wpc_internal.c:164-165` says that a request refused for its CRC was not handled and is safe
  to repeat. The refusal has no frame id: that of an older request, given up on, repeats the current one, which is executed twice.
- `PacketIdsApart` (`DsapTx`, `send`): `platform.c:349-352` says that other calls can be made on different threads. Two threads that
  read `packet_id` before either has written it (`dsap.c:218`) send fragments of two messages under one id.
- `CallbackGetsItsPduId` (`DsapTx`, `send`): `wpc.h:179-180` says the callback gets the pdu id set in `send_data`. The dispatch thread frees the entry (`dsap.c:67`) before it loads the
  callback (68): a sender that takes the entry in between has its callback called with the pdu id of the message reported.
- `SentIsReported` (`DsapTx`, `send`): `wpc.h:195-196` promises a callback when the message is sent. It is registered (`dsap.c:281`) after the
  confirm has been received and the lock released, so that the report can be handled first: the callback is lost and its entry stays busy;
  sixteen of them fill the table, and the failure is ignored.
- `DummyIsSent` (`Slip`, `slip`): `wpc_internal.c:164-165` takes a dummy confirm as the node's word that it has not handled the request. A frame whose CRC field the
  line turned into 0xFFFF is returned as one (`slip.c:162`).
- `OkMeansProcessed` (`ScratchpadUpload`, `upload`): `proto_otap.c:266` says the node must be rebooted to process the scratchpad. When the request of the stop is
  lost, `WPC_stop_stack` reads the status from the node that did not reboot (`wpc.c:645`) and returns `APP_RES_OK`.
- `TargetInSync` (`SinkConfig`, `config`): `proto_config.c:1068-1069` reads the target back "to be sure everything is in sync". When that fails (236-243) the event tells the
  old target and the request is answered with success.
- `DownloadMeansCopied` (`NodeServices`, `services`): the table at `wpc.c:1060-1068` gives result 1 of a block read the meaning `APP_RES_STACK_NOT_STOPPED`, but `wpc.c:1091` takes it for a
  last block: the download of a running stack returns `APP_RES_OK` without data.
- `AutostartRestored` (`ScratchpadUpload`, `upload`): `proto_otap.c:137` says a failed step needs no action as the next fails, too. After a
  refused stop the restart reports "already started", which counts as a failure, and autostart stays 0 on a running stack.

Seen while modelling, and excepted by the properties where they would break them:

- `WPC_get_app_config_data` refuses a buffer smaller than the largest configuration, though `wpc.h:569-570` allows a lower size.
- The list of configuration data items compares octets with a capacity in entries (`wpc.c:1273`), so that half the buffer is refused.
- `WPC_set_multicast_groups` accepts `0x80000000` and stores an unused entry.
- `WPC_is_cipher_key_set` reports "not set" for every refusal but one (`wpc.c:271`).
- `Common_convert_error_code` compares with the size of its table in octets, and the table lacks the last result (`common.c:99`).
- The encoder of `slip.c` wraps beyond 255 escaped octets (`slip.c:127`), which needs an MTU above the default.
- The gateway never tries again after a reconnection that failed for 60 s, drops its status when the queue is full, and leaves
  the status "online" behind on a clean exit (`main.c:353`, `324`, `571`).

## 6. Not modelled, and plan

Not modelled, because there is no state or only I/O in it: the protobuf encoding, `common.c`, the logger, port setup,
generated code, vendored containers, the other examples, option parsing. `SinkConfig` leaves out read-only fields, the getters that only copy the cache, and the
layout of events. Thread and mutex creation failures are left out, but for the gateway's publish thread.

What comes next, most important first:

1. The composition of `SinkConfig` and `ScratchpadUpload`: an upload stops the stack behind the cache's back, refreshes it when it
   is done, and the node's status indication refreshes it meanwhile; events of two threads can then leave in the wrong order.
2. Stops of the stack by two application threads at once, and the flag that disables polls, in a smaller instance of `NodeServices`: the theorems cover any number of threads, the run only
   stops with one.
3. Proofs: the refusals of `NodeAccess` (an error changes nothing), the half of `ImplementsStore` that needs no arithmetic.

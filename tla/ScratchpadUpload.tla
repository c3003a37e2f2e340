-------------------------- MODULE ScratchpadUpload --------------------------
(***************************************************************************)
(* Over-the-air update of the sink's scratchpad (lib/wpc_proto/internal_   *)
(* modules/proto_otap.c on top of lib/wpc/wpc.c): an upload in chunks, a   *)
(* full upload, a clearing and a processing request, each of which stops   *)
(* the stack, if it runs, and starts it again when its work is done.       *)
(* Chunk and full upload go to the node block by block.                    *)
(* Between two chunks the stack stays stopped, remembered in               *)
(* m_restart_after_load.  The handlers run one after the other on the      *)
(* thread of the gateway; every call of the node may be executed or not,   *)
(* and its confirm may be lost; the node may lose power.                   *)
(***************************************************************************)
EXTENDS Naturals, Sequences, FiniteSets

CONSTANTS Seqs,    \* scratchpad sequence numbers
          Blocks   \* number of blocks of a scratchpad

ASSUME BlocksAssumption == Blocks \in Nat \ {0, 1}

VARIABLES
  pc, req, res,   \* the handler: step, request, result so far
  restart,        \* m_restart_after_load, or restart_after_process
  loading,        \* m_scratchpad_load_current_seq
  next,           \* number of the block to send next (start + loaded)
  running, autostart,      \* node: the stack, and whether a boot starts it
  started, image, \* node: upload accepted, and the seq of each block written
  marked,         \* node: the scratchpad will be processed at the next boot
  debt,           \* of the stack the host has stopped: "owed" is its restart,
                  \* "paid" or "failed" by this request, "lost" by an earlier one
  upset,          \* power was lost since the request began
  answer          \* answer to the last request

host == <<pc, req, res, restart, loading, next>>
node == <<running, autostart, started, image, marked>>
history == <<debt, upset, answer>>
vars == <<host, node, history>>

NoSeq == "none"     \* INVALID_CURRENT_SEQ

\* Line 122: a sequence number of more than 8 bits is refused, so that of an
\* upload is never INVALID_CURRENT_SEQ.
ASSUME SeqsAssumption == NoSeq \notin Seqs

Requests ==
  {r \in [kind : {"chunk"}, seq : Seqs, from : 0 .. Blocks - 1, to : 1 .. Blocks] :
     r.from < r.to}
  \cup [kind : {"full"}, seq : Seqs, from : {0}, to : {Blocks}]
  \cup [kind : {"clear", "process"}]
NoRequest == [kind |-> "none"]

Steps == {"idle", "status", "autostart off", "stop", "begin", "check", "block",
          "full", "clear", "update", "stop again", "restart?", "autostart on", "answer"}

Debts == {"none", "owed", "paid", "failed", "lost"}

TypeOK ==
  /\ pc \in Steps
  /\ req \in Requests \cup {NoRequest} /\ res \in {"ok", "error"}
  /\ restart \in [{"load", "process"} -> BOOLEAN]
  /\ loading \in Seqs \cup {NoSeq}
  /\ next \in 0 .. Blocks
  /\ running \in BOOLEAN /\ autostart \in BOOLEAN /\ marked \in BOOLEAN
  /\ started \in Seqs \cup {NoSeq} /\ image \in Seq(Seqs) /\ Len(image) <= Blocks
  /\ debt \in Debts /\ upset \in BOOLEAN /\ answer \in {"none", "ok", "error"}

Init ==
  /\ pc = "idle" /\ req = NoRequest /\ res = "ok"
  /\ restart = [h \in {"load", "process"} |-> FALSE]
  /\ loading = NoSeq /\ next = 0
  /\ running \in BOOLEAN /\ autostart = running
  /\ started = NoSeq /\ image = << >> /\ marked = FALSE
  /\ debt = "none" /\ upset = FALSE /\ answer = "none"

\* The flag of the handler of the current request.
Flag == IF req.kind = "process" THEN "process" ELSE "load"
FirstChunk == req.kind = "chunk" /\ req.from = 0
LastChunk == req.kind = "chunk" /\ req.to = Blocks

----------------------------------------------------------------------------
(* The node (external)                                                     *)

\* A boot, after a stop or a power loss.
Boots == /\ running' = autostart
         /\ started' = NoSeq
         /\ marked' = FALSE
         /\ UNCHANGED <<autostart, image>>

PowerLoss ==
  /\ Boots
  /\ upset' = TRUE
  /\ UNCHANGED <<host, debt, answer>>

\* A block is taken where the last one ended, the stack being stopped.
TakesBlock(seq, at) ==
  /\ ~running /\ started # NoSeq /\ Len(image) = at
  /\ image' = Append(image, seq)
  /\ UNCHANGED <<running, autostart, started, marked>>

\* Accepting an upload erases what was there.
Erases(seq) == /\ started' = seq /\ image' = << >> /\ marked' = FALSE
               /\ UNCHANGED <<running, autostart>>

----------------------------------------------------------------------------
(* Stopping the stack                                                      *)

\* Upload of chunks, full upload and clear come in one message, processing in
\* another; chunks may come in any order, and be repeated.
Take(r) ==
  /\ pc = "idle"
  /\ req' = r /\ res' = "ok"
  /\ pc' = "status"
  /\ upset' = FALSE /\ answer' = "none"
  /\ restart' = IF r.kind = "process" THEN [restart EXCEPT !["process"] = FALSE] ELSE restart
  /\ debt' = CASE debt = "paid" -> "none" [] debt = "failed" -> "lost" [] OTHER -> debt
  /\ UNCHANGED <<loading, next, node>>

\* What follows the stop in each handler.
Work == IF FirstChunk THEN "begin"
        ELSE IF req.kind = "chunk" THEN "check"
        ELSE IF req.kind = "process" THEN "update"
        ELSE req.kind

\* Lines 133-134 and 241-242: without an answer the stack is taken as stopped.
AsksStatus ==
  /\ pc = "status"
  /\ \/ running /\ pc' = "autostart off" /\ debt' = "owed"
     \/ pc' = Work /\ UNCHANGED debt
  /\ UNCHANGED <<req, res, restart, loading, next, node, upset, answer>>

\* Line 138 or 246; the result is not looked at.
AutostartOff ==
  /\ pc = "autostart off"
  /\ autostart' \in {autostart, FALSE}
  /\ pc' = "stop"
  /\ UNCHANGED <<req, res, restart, loading, next, running, started, image, marked,
                 history>>

\* WPC_stop_stack, lines 624-665 of wpc.c: it is refused; or the node reboots,
\* or the request was lost, and its status is asked until it answers, or for
\* too long.  The result is not looked at.
StopStack ==
  /\ pc = "stop"
  /\ Boots \/ UNCHANGED node
  /\ pc' = Work
  /\ restart' = [restart EXCEPT ![Flag] = TRUE]
  /\ UNCHANGED <<req, res, loading, next, history>>

----------------------------------------------------------------------------
(* The work                                                                *)

Fails == res' = "error" /\ pc' = "restart?"

\* handle_scratchpad_chunk, lines 55-80: the first chunk starts a new upload,
\* whatever was in progress; the node refuses while the stack runs, and may
\* have accepted even if the confirm is lost.
BeginUpload ==
  /\ pc = "begin"
  /\ \/ ~running /\ Erases(req.seq) /\ pc' = "check" /\ loading' = req.seq /\ UNCHANGED res
     \/ ~running /\ Erases(req.seq) /\ loading' = NoSeq /\ Fails
     \/ UNCHANGED node /\ loading' = NoSeq /\ Fails
  /\ UNCHANGED <<req, restart, next, history>>

AnySeq(seq) == loading # NoSeq
ValidSeq(seq) == seq = loading

\* Lines 82-89.
CheckSeq ==
  /\ pc = "check"
  /\ \/ /\ ValidSeq(req.seq)
        /\ pc' = "block" /\ next' = req.from
        /\ UNCHANGED res
     \/ ~ValidSeq(req.seq) /\ Fails /\ UNCHANGED next
  /\ UNCHANGED <<req, restart, loading, node, history>>

\* Lines 163-169 and 922-935 of wpc.c: the start of a full upload.
BeginFull ==
  /\ pc = "full"
  /\ \/ /\ ~running /\ Erases(req.seq)
        /\ pc' = "block" /\ next' = 0
        /\ UNCHANGED <<loading, res>>
     \/ /\ (~running /\ Erases(req.seq)) \/ UNCHANGED node
        /\ Fails /\ loading' = NoSeq /\ UNCHANGED next
  /\ UNCHANGED <<req, restart, history>>

AfterLoad == IF req.to = Blocks THEN NoSeq ELSE loading
AfterError == IF req.kind = "full" THEN NoSeq ELSE loading

BlockDone ==
  /\ next' = next + 1
  /\ \/ next + 1 < req.to /\ pc' = "block" /\ UNCHANGED loading
     \/ next + 1 = req.to /\ pc' = "restart?" /\ loading' = AfterLoad

IgnoresBlockError ==
  /\ pc = "block"
  /\ TakesBlock(req.seq, next) \/ UNCHANGED node
  /\ BlockDone
  /\ UNCHANGED <<req, res, restart, history>>

\* Lines 959-1002 of wpc.c, for lines 91-111 and 165-180: an error ends the
\* loop at any block.  After it the upload in chunks stays in progress, the
\* stack stopped, with the blocks so far at the node.
LoadBlock ==
  /\ pc = "block"
  /\ \/ TakesBlock(req.seq, next) /\ BlockDone /\ UNCHANGED res
     \/ /\ TakesBlock(req.seq, next) \/ UNCHANGED node
        /\ Fails /\ loading' = AfterError /\ UNCHANGED next
  /\ UNCHANGED <<req, restart, history>>

\* Lines 184-197.
Clear ==
  /\ pc = "clear"
  /\ loading' = NoSeq
  /\ \/ ~running /\ Erases(NoSeq) /\ pc' = "restart?" /\ UNCHANGED res
     \/ ((~running /\ Erases(NoSeq)) \/ UNCHANGED node) /\ Fails
  /\ UNCHANGED <<req, restart, next, history>>

\* Lines 258-263: only a complete scratchpad can be processed.
Update ==
  /\ pc = "update"
  /\ \/ /\ ~running /\ Len(image) = Blocks
        /\ marked' = TRUE
        /\ UNCHANGED <<running, autostart, started, image>>
        /\ \/ pc' = "stop again" /\ UNCHANGED res
           \/ Fails
     \/ UNCHANGED node /\ Fails
  /\ UNCHANGED <<req, restart, loading, next, history>>

\* Lines 264-271.  A stop that is lost and one that reboots the node too early
\* to confirm look the same (lines 632-636 of wpc.c), so that success may be
\* answered while the scratchpad is still marked.
StopAgain ==
  /\ pc = "stop again"
  /\ Boots \/ UNCHANGED node
  /\ (pc' = "restart?" /\ UNCHANGED res) \/ Fails
  /\ UNCHANGED <<req, restart, loading, next, history>>

----------------------------------------------------------------------------
(* Starting the stack again                                                *)

DueUnlessFailed == restart[Flag] /\ (Flag = "load" => loading = NoSeq /\ res = "ok")
Due == restart[Flag] /\ (Flag = "load" => loading = NoSeq)

NothingToRestart ==
  /\ pc = "restart?" /\ ~Due
  /\ pc' = "answer"
  /\ UNCHANGED <<req, res, restart, loading, next, node, history>>

\* The host forgets the stack, unless the upload in progress remembers it.
ForgetsStack ==
  /\ restart' = [restart EXCEPT ![Flag] = FALSE]
  /\ debt' = IF restart'["load"] THEN debt ELSE "failed"

StartFailureIgnored ==
  /\ pc = "restart?" /\ Due
  /\ running' \in {running, TRUE} /\ UNCHANGED <<autostart, started, image, marked>>
  /\ ForgetsStack
  /\ pc' = "answer"
  /\ UNCHANGED <<req, res, loading, next, upset, answer>>

\* Lines 203-221 and 277-286: WPC_start_stack fails when the stack runs
\* already, when it is refused, or when an answer is lost.
StartFails ==
  /\ pc = "restart?" /\ Due
  /\ running' \in {running, TRUE} /\ UNCHANGED <<autostart, started, image, marked>>
  /\ ForgetsStack
  /\ res' = "error" /\ pc' = "answer"
  /\ UNCHANGED <<req, loading, next, upset, answer>>

StartSucceeds ==
  /\ pc = "restart?" /\ Due /\ ~running
  /\ running' = TRUE /\ UNCHANGED <<autostart, started, image, marked>>
  /\ restart' = [restart EXCEPT ![Flag] = FALSE]
  /\ debt' = "paid"
  /\ pc' = "autostart on"
  /\ UNCHANGED <<req, res, loading, next, upset, answer>>

\* Line 210 or 289; the result is not looked at.
AutostartOn ==
  /\ pc = "autostart on"
  /\ autostart' \in {autostart, TRUE}
  /\ pc' = "answer"
  /\ UNCHANGED <<req, res, restart, loading, next, running, started, image, marked,
                 history>>

Answer ==
  /\ pc = "answer"
  /\ answer' = res /\ pc' = "idle"
  /\ UNCHANGED <<req, res, restart, loading, next, node, debt, upset>>

----------------------------------------------------------------------------
Stop == AsksStatus \/ AutostartOff \/ StopStack

DoWork == \/ BeginUpload \/ CheckSeq \/ BeginFull \/ LoadBlock \/ Clear
          \/ Update \/ StopAgain

Start == NothingToRestart \/ StartFails \/ StartSucceeds \/ AutostartOn

Next == \/ \E r \in Requests : Take(r)
        \/ Stop \/ DoWork \/ Start \/ Answer
        \/ PowerLoss

\* Every call returns (RequestConfirm), so every request is answered.
Spec == Init /\ [][Next]_vars /\ WF_vars(Stop \/ DoWork \/ Start \/ Answer)

----------------------------------------------------------------------------
(* Properties                                                              *)

\* Lines 55-111 of proto_otap.c: what the node holds comes from one
\* scratchpad, whatever order and repetition the chunks come in.
OneScratchpad == \A i, j \in DOMAIN image : image[i] = image[j]

\* Lines 82-111 and 959-1002 of wpc.c: a last chunk answered with success means
\* the node holds all the blocks, whatever failed or was repeated before it.
LastChunkMeansComplete ==
  pc = "idle" /\ answer = "ok" /\ LastChunk =>
    image = [i \in 1 .. Blocks |-> req.seq]

\* Lines 147 and 199-213: between two requests the host owes a restart only
\* while an upload is in progress.
RestartIsOwed == pc = "idle" /\ restart["load"] => loading # NoSeq

\* Lines 199-221 and 275-290: when no upload is going on, every stack the host
\* has stopped was started again, or the very request whose start failed was
\* answered with an error.  One started by a request answered with success
\* runs, if no power loss came between.  A stack whose start failed is
\* forgotten (line 213): later requests find it stopped, leave it so and may be
\* answered with success, and this property does not deny it.
OkMeansRunning ==
  pc = "idle" /\ loading = NoSeq =>
    /\ debt # "owed"
    /\ debt = "failed" => answer = "error"
    /\ answer = "ok" /\ debt = "paid" /\ ~upset => running

\* "Node must be rebooted to process the scratchpad" (line 266): after a success
\* it has been.  It is false when the request of the stop is lost.
OkMeansProcessed ==
  pc = "idle" /\ answer = "ok" /\ req.kind = "process" => ~marked

\* "No action required on fail as next step will anyway fail" (lines 137 and
\* 245): once a request is over, a running stack starts by itself again.  It is
\* false when the stop fails: the restart then finds the stack running.
AutostartRestored == pc = "idle" /\ loading = NoSeq /\ running => autostart
=============================================================================

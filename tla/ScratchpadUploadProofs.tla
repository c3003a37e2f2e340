----------------------- MODULE ScratchpadUploadProofs -----------------------
(***************************************************************************)
(* Proofs about ScratchpadUpload for every number of blocks and every set  *)
(* of sequence numbers.                                                    *)
(***************************************************************************)
EXTENDS ScratchpadUpload, TLAPS

Working == {"begin", "check", "block", "full", "clear", "update", "stop again"}
Ending == {"restart?", "autostart on", "answer"}

\* The work under way is the one the request asks for.
PcInv ==
  /\ pc # "idle" => req \in Requests
  /\ pc \in {"begin", "check"} => req.kind = "chunk"
  /\ pc = "full" => req.kind = "full"
  /\ pc = "block" => req.kind \in {"chunk", "full"} /\ next \in req.from .. req.to - 1
  /\ pc = "clear" => req.kind = "clear"
  /\ pc \in {"update", "stop again"} => req.kind = "process"

\* A restart due to a load is made before the request that ended it is over.
RestartInv ==
  restart["load"] /\ loading = NoSeq =>
    pc \notin {"idle", "autostart on", "answer"} /\ req.kind # "process"

\* All blocks come from one scratchpad: the one a request sends, or else the one
\* being loaded if there is one.
ImageInv ==
  /\ OneScratchpad
  /\ pc = "block" => \A i \in DOMAIN image : image[i] = req.seq
  /\ pc = "block" /\ req.kind = "chunk" => loading = req.seq
  /\ loading # NoSeq /\ pc # "block" => \A i \in DOMAIN image : image[i] = loading

FullImage == [i \in 1 .. Blocks |-> req.seq]

\* Once the last chunk has succeeded the image is complete and stays so.
CompleteInv ==
  /\ res = "ok" /\ LastChunk /\ pc \in Ending => image = FullImage
  /\ pc = "idle" /\ answer = "ok" /\ LastChunk => image = FullImage

\* A stack that was stopped is remembered by one of the two flags until it is
\* started again or the request whose start failed says so.
DebtInv ==
  /\ debt = "owed" =>
       /\ pc \in {"idle", "status"} => restart["load"]
       /\ pc \in Working \cup {"restart?"} => restart["load"] \/ restart[Flag]
       /\ pc = "answer" => restart["load"]
       /\ pc # "autostart on"
  /\ debt = "failed" => /\ pc \in {"answer", "idle"}
                        /\ pc = "answer" => res = "error"
                        /\ pc = "idle" => answer = "error"
  /\ debt = "paid" => pc \in {"autostart on", "answer", "idle"} /\ (~upset => running)

\* The types, the flags on one side and the other variables on the other.
FlagType == /\ upset \in BOOLEAN
            /\ running \in BOOLEAN /\ autostart \in BOOLEAN /\ marked \in BOOLEAN
ControlType == /\ pc \in Steps
               /\ req \in Requests \cup {NoRequest} /\ res \in {"ok", "error"}
               /\ loading \in Seqs \cup {NoSeq}
               /\ restart \in [{"load", "process"} -> BOOLEAN]
               /\ next \in 0 .. Blocks
               /\ debt \in Debts /\ answer \in {"none", "ok", "error"}
ImageType == /\ started \in Seqs \cup {NoSeq}
             /\ image \in Seq(Seqs) /\ Len(image) <= Blocks

TypeInv == FlagType /\ ControlType /\ ImageType /\ PcInv
Inv == TypeInv /\ RestartInv /\ ImageInv /\ CompleteInv /\ DebtInv

\* What the fields of a request can be.
LEMMA RequestFields ==
  ASSUME NEW r \in Requests
  PROVE  /\ r.kind \in {"chunk", "full", "clear", "process"}
         /\ r.kind \in {"chunk", "full"} =>
              /\ r.seq \in Seqs
              /\ r.from \in 0 .. Blocks - 1 /\ r.to \in 1 .. Blocks /\ r.from < r.to
         /\ r.kind = "full" => r.from = 0 /\ r.to = Blocks
  BY BlocksAssumption DEF Requests

Extent ==
  /\ req.kind \in {"chunk", "full"} =>
       req.from \in Nat /\ req.to \in Nat /\ req.from < req.to /\ req.to <= Blocks
  /\ req.kind = "full" => req.from = 0
  /\ Blocks \in Nat

LEMMA ExtentNow ==
  ASSUME PcInv, pc # "idle"
  PROVE  Extent
<1>1. req \in Requests
  BY DEF PcInv
<1>. QED BY <1>1, RequestFields, BlocksAssumption DEF Extent

\* Where a handler goes once the stack is stopped (lines 150-198).
LEMMA WorkValue ==
  ASSUME req \in Requests
  PROVE  /\ Work \in Working
         /\ Work \in {"begin", "check"} => req.kind = "chunk"
         /\ Work = "full" => req.kind = "full"
         /\ Work = "clear" => req.kind = "clear"
         /\ Work = "update" => req.kind = "process"
         /\ Work \notin {"block", "stop again"}
  BY RequestFields DEF Work, FirstChunk, Working

\* The steps a request may be in when its work begins.
Fits(p, r) ==
  \/ p \in {"autostart off", "stop"}
  \/ p \in {"begin", "check"} /\ r.kind = "chunk"
  \/ p = "full" /\ r.kind = "full"
  \/ p = "clear" /\ r.kind = "clear"
  \/ p = "update" /\ r.kind = "process"

LEMMA WorkFits ==
  ASSUME req \in Requests
  PROVE  Fits(Work, req)
  BY WorkValue DEF Fits, Working

\* The initial state satisfies the invariant.
LEMMA InvInit == Init => Inv
<1>. SUFFICES ASSUME Init PROVE Inv
  OBVIOUS
<1>1. FlagType
  BY Zenon DEF Init, FlagType
<1>2. ControlType /\ PcInv
  BY BlocksAssumption DEF Init, ControlType, Steps, PcInv, Debts
<1>3. ImageType
  BY BlocksAssumption DEF Init, ImageType
<1>4. RestartInv
  BY DEF Init, RestartInv
<1>5. ImageInv /\ CompleteInv /\ DebtInv
  BY DEF Init, ImageInv, OneScratchpad, CompleteInv, DebtInv, Ending, Working
<1>. QED BY <1>1, <1>2, <1>3, <1>4, <1>5 DEF Inv, TypeInv

----------------------------------------------------------------------------
(* Types                                                                   *)

\* The flags are only ever given flags.
LEMMA FlagNext == FlagType /\ [Next]_vars => FlagType'
<1>. SUFFICES ASSUME FlagType, [Next]_vars PROVE FlagType'
  OBVIOUS
<1>. USE DEF FlagType
<1>1. CASE UNCHANGED vars
  BY <1>1, Zenon DEF vars, host, node, history
<1>2. CASE \E r \in Requests : Take(r)
  BY <1>2, Zenon DEF Take, node
<1>3. CASE AsksStatus \/ AutostartOff
  BY <1>3, Zenon DEF AsksStatus, AutostartOff, node, history
<1>4. CASE StopStack
  BY <1>4, Zenon DEF StopStack, Boots, node, history
<1>5. CASE BeginUpload \/ CheckSeq \/ LoadBlock
  BY <1>5, Zenon DEF BeginUpload, CheckSeq, LoadBlock, TakesBlock, Erases, node, history
<1>6. CASE BeginFull \/ Clear
  BY <1>6, Zenon DEF BeginFull, Clear, Erases, node, history
<1>7. CASE Update \/ StopAgain
  BY <1>7, Zenon DEF Update, StopAgain, Boots, node, history
<1>8. CASE Start
  BY <1>8, Zenon DEF Start, NothingToRestart, StartFails, StartSucceeds, AutostartOn, node,
     history
<1>9. CASE Answer \/ PowerLoss
  BY <1>9, Zenon DEF Answer, PowerLoss, Boots, host, node
<1>. QED BY <1>1, <1>2, <1>3, <1>4, <1>5, <1>6, <1>7, <1>8, <1>9 DEF Next, Stop, DoWork

\* The control variables keep their types, and each step of a handler is
\* followed by one that fits the request.
LEMMA ControlNext ==
  ControlType /\ PcInv /\ [Next]_vars => ControlType' /\ PcInv'
<1>. SUFFICES ASSUME ControlType, PcInv, [Next]_vars PROVE ControlType' /\ PcInv'
  OBVIOUS
<1>. USE DEF ControlType, PcInv, Steps, Debts
<1>1. CASE UNCHANGED vars
  BY <1>1, ZenonT(40) DEF vars, host, node, history
<1>2. ASSUME NEW r \in Requests, Take(r) PROVE ControlType' /\ PcInv'
  BY <1>2 DEF Take
<1>3. CASE AsksStatus
  <2>1. req \in Requests /\ (pc' = "autostart off" \/ pc' = Work)
    BY <1>3 DEF AsksStatus
  <2>2. debt' \in {debt, "owed"} /\ UNCHANGED <<req, res, restart, loading, next, answer>>
    BY <1>3 DEF AsksStatus
  <2>3. Fits(pc', req)
    BY <2>1, WorkFits DEF Fits
  <2>. QED BY <2>1, <2>2, <2>3 DEF Fits
<1>4. CASE AutostartOff
  BY <1>4 DEF AutostartOff, history
<1>5. CASE StopStack
  <2>1. req \in Requests /\ pc' = Work
    BY <1>5 DEF StopStack
  <2>2. restart' \in [{"load", "process"} -> BOOLEAN]
    BY <1>5 DEF StopStack, Flag
  <2>3. Fits(pc', req) /\ UNCHANGED <<req, res, loading, next, debt, answer>>
    BY <1>5, <2>1, WorkFits DEF StopStack, history
  <2>. QED BY <2>1, <2>2, <2>3 DEF Fits
<1>6. CASE BeginUpload
  BY <1>6, RequestFields DEF BeginUpload, Fails, history
<1>0. ASSUME pc # "idle" PROVE Extent
  BY <1>0, ExtentNow
<1>7. CASE CheckSeq
  <2>1. /\ pc' \in {"block", "restart?"} /\ UNCHANGED <<req, restart, loading, debt, answer>>
        /\ res' \in {res, "error"} /\ pc = "check"
    BY <1>7 DEF CheckSeq, Fails, history
  <2>2. (pc' = "block" /\ next' = req.from) \/ (pc' # "block" /\ next' = next)
    BY <1>7 DEF CheckSeq, Fails
  <2>3. req.kind = "chunk" /\ Extent /\ next \in 0 .. Blocks
    BY <1>0, <2>1
  <2>4. next' \in 0 .. Blocks /\ (pc' = "block" => next' \in req.from .. req.to - 1)
    <3>. HIDE DEF ControlType, PcInv, Steps, Debts
    <3>. QED BY <2>2, <2>3 DEF Extent
  <2>. QED BY <2>1, <2>3, <2>4
<1>8. CASE LoadBlock
  <2>1. pc' \in {"block", "restart?"} /\ UNCHANGED <<req, restart, debt, answer>>
    BY <1>8 DEF LoadBlock, BlockDone, Fails, history
  <2>2. loading' \in {loading, NoSeq} /\ res' \in {res, "error"}
    BY <1>8 DEF LoadBlock, BlockDone, AfterLoad, AfterError, Fails
  <2>3. next' \in 0 .. Blocks /\ (pc' = "block" => next' \in req.from .. req.to - 1)
    <3>1. Extent /\ req.kind \in {"chunk", "full"} /\ next \in req.from .. req.to - 1
      BY <1>8, <1>0 DEF LoadBlock
    <3>2. next \in 0 .. Blocks
      OBVIOUS
    <3>. HIDE DEF ControlType, PcInv, Steps, Debts
    <3>. QED BY <1>8, <3>1, <3>2 DEF LoadBlock, BlockDone, Fails, Extent
  <2>4. pc = "block"
    BY <1>8 DEF LoadBlock
  <2>. QED BY <2>1, <2>2, <2>3, <2>4
<1>12. CASE BeginFull
  <2>1. /\ pc' \in {"block", "restart?"} /\ UNCHANGED <<req, restart, debt, answer>>
        /\ loading' \in {loading, NoSeq} /\ res' \in {res, "error"} /\ pc = "full"
    BY <1>12 DEF BeginFull, Fails, history
  <2>2. (pc' = "block" /\ next' = 0) \/ (pc' # "block" /\ next' = next)
    BY <1>12 DEF BeginFull, Fails
  <2>3. req.kind = "full" /\ Extent /\ next \in 0 .. Blocks
    BY <1>0, <2>1
  <2>4. next' \in 0 .. Blocks /\ (pc' = "block" => next' \in req.from .. req.to - 1)
    <3>. HIDE DEF ControlType, PcInv, Steps, Debts
    <3>. QED BY <2>2, <2>3 DEF Extent
  <2>. QED BY <2>1, <2>3, <2>4
<1>13. CASE Clear
  BY <1>13 DEF Clear, Fails, history
<1>9. CASE Update \/ StopAgain
  BY <1>9 DEF Update, StopAgain, Fails, history
<1>10. CASE NothingToRestart \/ StartFails \/ StartSucceeds \/ AutostartOn
  BY <1>10 DEF NothingToRestart, StartFails, StartSucceeds, AutostartOn, ForgetsStack,
     history
<1>11. CASE Answer \/ PowerLoss
  BY <1>11, ZenonT(40) DEF Answer, PowerLoss, host
<1>. QED BY <1>1, <1>2, <1>3, <1>4, <1>5, <1>6, <1>7, <1>8, <1>9, <1>10, <1>11,
     <1>12, <1>13 DEF Next, Stop, DoWork, Start

----------------------------------------------------------------------------
(* The image                                                               *)

\* Writing one block, or a whole image, of one sequence number.
LEMMA BlockAppended ==
  ASSUME ImageType, NEW seq \in Seqs, NEW at \in 0 .. Blocks - 1, TakesBlock(seq, at)
  PROVE  /\ ImageType'
         /\ image' = Append(image, seq) /\ Len(image) = at
         /\ DOMAIN image' = 1 .. at + 1
         /\ \A i \in 1 .. at : image'[i] = image[i]
         /\ image'[at + 1] = seq
  BY BlocksAssumption DEF ImageType, TakesBlock

\* The last block completes an image that held the others.
LEMMA LastBlock ==
  ASSUME ImageType, NEW seq \in Seqs, TakesBlock(seq, Blocks - 1),
         \A i \in DOMAIN image : image[i] = seq
  PROVE  image' = [i \in 1 .. Blocks |-> seq]
<1>. DEFINE at == Blocks - 1
<1>1. at \in 0 .. Blocks - 1 /\ at + 1 = Blocks
  BY BlocksAssumption
<1>2. /\ ImageType' /\ Len(image) = at /\ DOMAIN image' = 1 .. at + 1
      /\ \A i \in 1 .. at : image'[i] = image[i]
      /\ image'[at + 1] = seq
  BY <1>1, BlockAppended
<1>3. DOMAIN image = 1 .. at /\ image' \in Seq(Seqs)
  BY <1>2 DEF ImageType
<1>. HIDE DEF at
<1>4. \A i \in 1 .. at + 1 : image'[i] = seq
  BY <1>1, <1>2, <1>3, BlocksAssumption
<1>5. image' = [i \in 1 .. at + 1 |-> seq]
  BY <1>2, <1>3, <1>4
<1>. QED BY <1>1, <1>5

\* A node that does anything else keeps its image or erases it.
ImageKept == image' = image /\ started' \in {started, NoSeq}

LEMMA KeptType ==
  ASSUME ImageType, ImageKept
  PROVE  ImageType'
  BY DEF ImageType, ImageKept

LEMMA ErasedType ==
  ASSUME ImageType, NEW seq \in Seqs \cup {NoSeq}, Erases(seq)
  PROVE  ImageType' /\ image' = << >>
  BY BlocksAssumption DEF ImageType, Erases

\* The steps that touch neither the image nor the upload in progress.
OtherSteps == \/ Stop \/ CheckSeq \/ Update \/ StopAgain \/ Start \/ Answer \/ PowerLoss
              \/ \E r \in Requests : Take(r)

LEMMA OtherStepsKeep ==
  ASSUME OtherSteps
  PROVE  ImageKept /\ loading' = loading
<1>1. CASE Stop
  BY <1>1 DEF Stop, AsksStatus, AutostartOff, StopStack, Boots, ImageKept, node, history
<1>2. CASE CheckSeq \/ Update \/ StopAgain
  BY <1>2 DEF CheckSeq, Update, StopAgain, Boots, ImageKept, node, history
<1>3. CASE Start
  BY <1>3 DEF Start, NothingToRestart, StartFails, StartSucceeds, AutostartOn, ImageKept, node
<1>4. CASE Answer \/ PowerLoss \/ (\E r \in Requests : Take(r))
  BY <1>4 DEF Answer, PowerLoss, Take, Boots, ImageKept, node, host
<1>. QED BY <1>1, <1>2, <1>3, <1>4 DEF OtherSteps

\* The image has its type and comes from one scratchpad after every step.
LEMMA ImageNext ==
  TypeInv /\ ImageInv /\ [Next]_vars => ImageType' /\ ImageInv'
<1>. SUFFICES ASSUME TypeInv, ImageInv, [Next]_vars PROVE ImageType' /\ ImageInv'
  OBVIOUS
<1>. USE SeqsAssumption
<1>1. CASE UNCHANGED vars
  BY <1>1 DEF vars, host, node, TypeInv, ImageType, ImageInv, OneScratchpad
<1>2. CASE OtherSteps
  <2>1. ImageKept /\ loading' = loading
    BY <1>2, OtherStepsKeep
  <2>2. CASE CheckSeq
    <3>1. req' = req /\ req.seq \in Seqs /\ pc = "check"
      BY <2>2, RequestFields DEF CheckSeq, TypeInv, PcInv
    <3>2. CASE pc' = "block"
      BY <2>1, <2>2, <3>1, <3>2, KeptType
      DEF CheckSeq, ValidSeq, Fails, TypeInv, ImageKept, ImageInv, OneScratchpad
    <3>3. CASE pc' # "block"
      BY <2>1, <3>1, <3>3, KeptType DEF TypeInv, ImageKept, ImageInv, OneScratchpad
    <3>. QED BY <3>2, <3>3
  <2>3. CASE PowerLoss
    BY <2>1, <2>3, KeptType, Zenon
    DEF PowerLoss, host, TypeInv, ImageKept, ImageInv, OneScratchpad
  <2>4. CASE OtherSteps /\ ~CheckSeq /\ ~PowerLoss
    <3>1. pc # "block" /\ pc' # "block"
      BY <2>4, WorkValue
      DEF OtherSteps, Stop, AsksStatus, AutostartOff, StopStack, Update, StopAgain, Fails, Start,
          NothingToRestart, StartFails, StartSucceeds, AutostartOn, Answer, Take, TypeInv, PcInv
    <3>. QED BY <2>1, <3>1, KeptType DEF TypeInv, ImageKept, ImageInv, OneScratchpad
  <2>. QED BY <1>2, <2>2, <2>3, <2>4
<1>3. CASE BeginUpload
  <2>1. req.seq \in Seqs /\ pc' # "block"
    BY <1>3, RequestFields DEF BeginUpload, Fails, TypeInv, PcInv
  <2>2. CASE Erases(req.seq)
    BY <2>1, <2>2, ErasedType DEF TypeInv, ImageInv, OneScratchpad
  <2>3. CASE UNCHANGED node /\ loading' = NoSeq
    BY <2>1, <2>3 DEF TypeInv, ImageType, ImageInv, OneScratchpad, node
  <2>. QED BY <1>3, <2>2, <2>3 DEF BeginUpload
<1>4. CASE LoadBlock
  <2>1. /\ req.kind \in {"chunk", "full"} /\ req.seq \in Seqs /\ req' = req
        /\ req.kind = "full" => req.to = Blocks
        /\ next \in 0 .. Blocks - 1
    <3>1. /\ pc = "block" /\ req' = req /\ req \in Requests
          /\ req.kind \in {"chunk", "full"} /\ next \in req.from .. req.to - 1
      BY <1>4 DEF LoadBlock, TypeInv, PcInv
    <3>2. /\ req.seq \in Seqs /\ req.from \in Nat /\ req.to \in Nat /\ req.to <= Blocks
          /\ req.kind = "full" => req.to = Blocks
      BY <3>1, RequestFields, BlocksAssumption
    <3>. QED BY <3>1, <3>2, BlocksAssumption
  <2>2. /\ pc' # "block" /\ loading' # NoSeq => loading' = req.seq
        /\ pc' = "block" /\ req.kind = "chunk" => loading' = req.seq
    <3>1. pc = "block" /\ (req.kind = "chunk" => loading = req.seq)
      BY <1>4 DEF LoadBlock, ImageInv
    <3>2. CASE pc' = "block"
      BY <1>4, <2>1, <3>1, <3>2 DEF LoadBlock, BlockDone, AfterError, Fails
    <3>3. CASE pc' # "block"
      BY <1>4, <2>1, <3>1, <3>3 DEF LoadBlock, BlockDone, AfterLoad, AfterError
    <3>. QED BY <3>2, <3>3
  <2>3. pc' = "block" => loading' = loading
    BY <1>4 DEF LoadBlock, BlockDone, Fails
  <2>4. ImageType' /\ \A i \in DOMAIN image' : image'[i] = req.seq
    <3>1. \A i \in DOMAIN image : image[i] = req.seq
      BY <1>4 DEF LoadBlock, ImageInv
    <3>2. CASE TakesBlock(req.seq, next)
      <4>1. /\ ImageType' /\ Len(image) = next
            /\ DOMAIN image = 1 .. next /\ DOMAIN image' = 1 .. next + 1
            /\ \A i \in 1 .. next : image'[i] = image[i]
            /\ image'[next + 1] = req.seq
        BY <2>1, <3>2, BlockAppended DEF TypeInv, ImageType
      <4>. QED BY <2>1, <3>1, <4>1
    <3>3. CASE UNCHANGED node
      BY <3>1, <3>3 DEF TypeInv, ImageType, node
    <3>. QED BY <1>4, <3>2, <3>3 DEF LoadBlock
  <2>. QED BY <1>4, <2>1, <2>2, <2>3, <2>4 DEF LoadBlock, ImageInv, OneScratchpad
<1>5. CASE BeginFull
  <2>1. req.seq \in Seqs /\ req.kind = "full" /\ req' = req
    BY <1>5, RequestFields DEF BeginFull, TypeInv, PcInv
  <2>2. CASE Erases(req.seq)
    BY <1>5, <2>1, <2>2, ErasedType DEF BeginFull, Fails, TypeInv, ImageInv, OneScratchpad
  <2>3. CASE UNCHANGED node /\ loading' = NoSeq /\ Fails
    BY <2>3 DEF Fails, TypeInv, ImageType, ImageInv, OneScratchpad, node
  <2>. QED BY <1>5, <2>2, <2>3 DEF BeginFull
<1>6. CASE Clear
  <2>1. loading' = NoSeq /\ pc' # "block"
    BY <1>6 DEF Clear, Fails
  <2>2. CASE Erases(NoSeq)
    BY <2>1, <2>2, ErasedType DEF TypeInv, ImageInv, OneScratchpad
  <2>3. CASE UNCHANGED node
    BY <2>1, <2>3 DEF TypeInv, ImageType, ImageInv, OneScratchpad, node
  <2>. QED BY <1>6, <2>2, <2>3 DEF Clear
<1>. QED BY <1>1, <1>2, <1>3, <1>4, <1>5, <1>6 DEF Next, DoWork, OtherSteps

\* A success of the last chunk is recorded only over a complete image, which
\* nothing changes until the next request.
LEMMA CompleteNext ==
  Inv /\ [Next]_vars => CompleteInv'
<1>. SUFFICES ASSUME Inv, [Next]_vars PROVE CompleteInv'
  OBVIOUS
<1>. USE DEF CompleteInv, Ending, LastChunk, FullImage
<1>1. CASE UNCHANGED vars
  BY <1>1 DEF vars, host, node, history, Inv
<1>2. ASSUME NEW r \in Requests, Take(r) PROVE CompleteInv'
  BY <1>2 DEF Take
<1>3. CASE Stop
  <2>1. req \in Requests /\ Work \in Working
    BY <1>3, WorkValue DEF Inv, TypeInv, PcInv, Stop, AsksStatus, AutostartOff, StopStack
  <2>. QED BY <1>3, <2>1 DEF Stop, AsksStatus, AutostartOff, StopStack, Working
<1>4. CASE BeginUpload \/ CheckSeq
  BY <1>4 DEF BeginUpload, CheckSeq, Fails
<1>5. CASE LoadBlock
  <2>1. CASE Fails
    BY <1>5, <2>1 DEF LoadBlock, Fails
  <2>2. CASE TakesBlock(req.seq, next) /\ pc' = "restart?" /\ req.to = Blocks /\ next + 1 = req.to
    <3>1. req.seq \in Seqs /\ next = Blocks - 1
      BY <1>5, <2>2, RequestFields, BlocksAssumption DEF LoadBlock, Inv, TypeInv, PcInv,
         ControlType
    <3>2. \A i \in DOMAIN image : image[i] = req.seq
      BY <1>5 DEF LoadBlock, Inv, ImageInv
    <3>3. TakesBlock(req.seq, Blocks - 1)
      BY <2>2, <3>1
    <3>4. image' = FullImage
      BY <3>1, <3>2, <3>3, LastBlock DEF Inv, TypeInv
    <3>. QED BY <1>5, <2>2, <3>4 DEF LoadBlock
  <2>3. CASE pc' = "block" \/ req.to # Blocks
    BY <1>5, <2>3 DEF LoadBlock, BlockDone, Fails
  <2>. QED BY <1>5, <2>1, <2>2, <2>3 DEF LoadBlock, BlockDone
<1>6. CASE BeginFull \/ Clear \/ Update \/ StopAgain
  <2>1. req.kind # "chunk" /\ req' = req /\ pc' # "idle"
    BY <1>6 DEF BeginFull, Clear, Update, StopAgain, Fails, Inv, TypeInv, PcInv
  <2>. QED BY <2>1
<1>7. CASE Start
  <2>1. /\ pc \in {"restart?", "autostart on"} /\ pc' \in Ending
        /\ UNCHANGED <<req, image>> /\ res' \in {res, "error"}
    BY <1>7 DEF Start, NothingToRestart, StartFails, StartSucceeds, AutostartOn, node
  <2>. QED BY <2>1 DEF Inv
<1>8. CASE Answer
  BY <1>8 DEF Answer, Inv, node
<1>9. CASE PowerLoss
  BY <1>9 DEF PowerLoss, Boots, host, Inv
<1>. QED BY <1>1, <1>2, <1>3, <1>4, <1>5, <1>6, <1>7, <1>8, <1>9 DEF Next, DoWork

----------------------------------------------------------------------------
(* The restart of the stack                                                *)

\* One of the two flags is changed.
LEMMA FlagSet ==
  ASSUME ControlType, NEW h \in {"load", "process"}, NEW v \in BOOLEAN,
         restart' = [restart EXCEPT ![h] = v]
  PROVE  /\ restart'[h] = v
         /\ \A g \in {"load", "process"} \ {h} : restart'[g] = restart[g]
  BY DEF ControlType

LEMMA FlagValue == Flag = IF req.kind = "process" THEN "process" ELSE "load"
  BY DEF Flag

\* The restart of a load and the pay-off of its debt go together.
RestartInvs == RestartInv /\ DebtInv

LEMMA RestartNext ==
  Inv /\ [Next]_vars => RestartInvs'
<1>. SUFFICES ASSUME Inv, [Next]_vars PROVE RestartInvs'
  OBVIOUS
<1>. USE FlagValue DEF RestartInvs, RestartInv, DebtInv, Inv, TypeInv, ControlType, PcInv,
         Debts
<1>1. CASE UNCHANGED vars
  BY <1>1 DEF vars, host, node, history, Flag
<1>2. ASSUME NEW r \in Requests, Take(r) PROVE RestartInvs'
  BY <1>2 DEF Take, node, Working
<1>3. CASE AsksStatus
  BY <1>3, WorkValue DEF AsksStatus, node, Working, Flag
<1>4. CASE AutostartOff
  BY <1>4 DEF AutostartOff, node, history, Working, Flag
<1>5. CASE StopStack
  BY <1>5, WorkValue, FlagSet DEF StopStack, node, history, Working, Flag
<1>6. CASE BeginUpload \/ CheckSeq \/ LoadBlock
  BY <1>6, RequestFields DEF BeginUpload, CheckSeq, LoadBlock, BlockDone, Fails, history,
     Working, Flag
<1>7. CASE BeginFull \/ Clear
  BY <1>7 DEF BeginFull, Clear, Fails, history, Working, Flag
<1>8. CASE Update \/ StopAgain
  BY <1>8 DEF Update, StopAgain, Fails, history, Working, Flag
<1>9. CASE NothingToRestart
  BY <1>9 DEF NothingToRestart, Due, node, history, Working, Flag
<1>10. CASE StartFails
  BY <1>10, FlagSet DEF StartFails, ForgetsStack, Due, Working, Flag
<1>11. CASE StartSucceeds
  BY <1>11, FlagSet DEF StartSucceeds, Due, Working, Flag
<1>12. CASE AutostartOn
  BY <1>12 DEF AutostartOn, history, Working, Flag
<1>13. CASE Answer
  BY <1>13 DEF Answer, node, Working, Flag
<1>14. CASE PowerLoss
  BY <1>14 DEF PowerLoss, host, Working, Flag
<1>. QED BY <1>1, <1>2, <1>3, <1>4, <1>5, <1>6, <1>7, <1>8, <1>9, <1>10, <1>11, <1>12, <1>13,
     <1>14 DEF Next, Stop, DoWork, Start

----------------------------------------------------------------------------
(* The theorems                                                            *)

\* Inv is inductive.
LEMMA InvNext == Inv /\ [Next]_vars => Inv'
  BY FlagNext, ControlNext, ImageNext, CompleteNext, RestartNext
  DEF Inv, TypeInv, RestartInvs

\* The inductive invariant of the handlers of proto_otap.c.
THEOREM Invariance == Spec => []Inv
<1>. QED BY InvInit, InvNext, PTL DEF Spec

\* Every variable of the handlers and of the node keeps its type; in particular
\* no more blocks are written than a scratchpad has.
THEOREM TypeCorrect == Spec => []TypeOK
<1>1. Inv => TypeOK
  BY DEF Inv, TypeInv, FlagType, ControlType, ImageType, TypeOK
<1>. QED BY <1>1, Invariance, PTL

\* Blocks of two scratchpads are never mixed in the node (lines 55-111).
THEOREM OneScratchpadHolds == Spec => []OneScratchpad
<1>1. Inv => OneScratchpad
  BY DEF Inv, ImageInv
<1>. QED BY <1>1, Invariance, PTL

\* A last chunk answered with success ends a complete upload (lines 91-111).
THEOREM LastChunkHolds == Spec => []LastChunkMeansComplete
<1>1. Inv => LastChunkMeansComplete
  BY DEF Inv, CompleteInv, FullImage, LastChunkMeansComplete
<1>. QED BY <1>1, Invariance, PTL

\* A restart is owed between two requests only during an upload (199-213).
THEOREM RestartIsOwedHolds == Spec => []RestartIsOwed
<1>1. Inv => RestartIsOwed
  BY DEF Inv, RestartInv, RestartIsOwed
<1>. QED BY <1>1, Invariance, PTL

\* No stack the host stopped is left so unless the request whose start failed
\* says it (lines 199-221 and 275-290).
THEOREM OkMeansRunningHolds == Spec => []OkMeansRunning
<1>1. Inv => OkMeansRunning
  BY DEF Inv, RestartInv, DebtInv, OkMeansRunning
<1>. QED BY <1>1, Invariance, PTL
=============================================================================

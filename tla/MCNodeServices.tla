---------------------------- MODULE MCNodeServices ----------------------------
(***************************************************************************)
(* NodeServices for TLC.  One thread of the application meets every fault    *)
(* and every reboot; a second one joins it when these are used up and the    *)
(* node is calm, for the calls that transfer something.                     *)
(***************************************************************************)
EXTENDS NodeServices, FiniteSets

(* An image of two blocks, the last one shorter, and one of a single block.  *)
MCImages == {<<1, 2, 3>>, <<4, 5>>}

Busy == {t \in Threads : call[t] # Idle}
Shared == {"start", "begin", "upload", "blocks", "download", "version"}
MayShare == /\ lost = MaxLost /\ boots = MaxBoots /\ silence = 0 /\ ~stale /\ node.told
            /\ m_timeout_after_stop_task_s = Default /\ call[Dispatch] = Idle
            /\ \A t \in Busy : call[t].op \in Shared

Active ==
  CASE Busy = {}               -> {CHOOSE t \in Threads : TRUE}
    [] Busy # {} /\ MayShare   -> Threads
    [] Busy # {} /\ ~MayShare  -> Busy

MCNext ==
  \/ Returned
  \/ /\ answer = None
     /\ (\E t \in Active : ThreadStep(t)) \/ OtherStep
     /\ (Cardinality(Busy) > 1 => MayShare)'
MCSpec == Init /\ [][MCNext]_vars
===============================================================================

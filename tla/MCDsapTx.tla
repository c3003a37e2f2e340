------------------------------ MODULE MCDsapTx ------------------------------
(***************************************************************************)
(* DsapTx for TLC: senders are interchangeable.                            *)
(***************************************************************************)
EXTENDS DsapTx, TLC

Symmetry == Permutations(Senders)
=============================================================================

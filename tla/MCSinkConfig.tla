---------------------------- MODULE MCSinkConfig ----------------------------
(***************************************************************************)
(* SinkConfig for TLC: values of parameters are interchangeable, and so    *)
(* are values of the target.                                               *)
(***************************************************************************)
EXTENDS SinkConfig, TLC

Symmetry == Permutations(Values) \cup Permutations(Targets)
=============================================================================

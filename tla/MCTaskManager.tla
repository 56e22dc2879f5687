--------------------------- MODULE MCTaskManager ---------------------------
(***************************************************************************)
(* TaskManager for TLC.  Callers and run ids are interchangeable in Init,  *)
(* in every action and in every safety property; liveness is checked       *)
(* without symmetry.                                                       *)
(***************************************************************************)
EXTENDS TaskManager, TLC

Symmetry == Permutations(Callers) \cup Permutations(Ids)
=============================================================================

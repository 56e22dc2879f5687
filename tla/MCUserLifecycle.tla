-------------------------- MODULE MCUserLifecycle --------------------------
(***************************************************************************)
(* UserLifecycle for TLC.  Handlers and session ids are interchangeable in *)
(* Init, in every action and in every safety property; liveness is checked *)
(* without symmetry.                                                       *)
(***************************************************************************)
EXTENDS UserLifecycle, TLC

Symmetry == Permutations(Procs) \cup Permutations(Sessions)
=============================================================================

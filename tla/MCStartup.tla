----------------------------- MODULE MCStartup ------------------------------
(***************************************************************************)
(* Startup on a small instance: the processes are interchangeable, and so  *)
(* are the pids.                                                           *)
(***************************************************************************)
EXTENDS Startup, TLC

Symmetry == Permutations(Procs) \cup Permutations(Pids)
=============================================================================

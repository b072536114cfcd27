-------------------------- MODULE MCActiveStreams --------------------------
(***************************************************************************)
(* A small instance of ActiveStreams: twice as many threads as slots.      *)
(***************************************************************************)
EXTENDS ActiveStreams, TLC

ThreadSymmetry == Permutations(Threads)
=============================================================================

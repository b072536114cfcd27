---------------------------- MODULE MCRateLimit ----------------------------
(***************************************************************************)
(* A small instance of RateLimit.                                          *)
(***************************************************************************)
EXTENDS RateLimit, TLC

RequestSymmetry == Permutations(Requests)
=============================================================================

------------------------- MODULE MCTokenAccounting -------------------------
(***************************************************************************)
(* Small instances of TokenAccounting for TLC.                             *)
(***************************************************************************)
EXTENDS TokenAccounting, TLC

Both(d, w) == [daily |-> d, weekly |-> w]

(* Room for one budget of 2 in a day and for two in a week.                *)
OneLimit == {Both(3, 4)}
(* A day limit alone, and the same engineer after it was removed.          *)
MixedLimits == {Both(3, NoLimit), NoLimits}

RequestSymmetry == Permutations(Requests)
=============================================================================

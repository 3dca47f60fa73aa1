--------------------------- MODULE MCMentalModels ----------------------------
(***************************************************************************)
(* Small instances of MentalModels for TLC.                                *)
(***************************************************************************)
EXTENDS MentalModels, TLC

CONSTANTS m1, m2, m3

Symmetry ==
  Permutations(Caller) \cup Permutations(Request) \cup Permutations({m2, m3})
=============================================================================

------------------------------- MODULE MCHolders -------------------------------
(***************************************************************************)
(* HolderRefinement for TLC.  Characters and users are only ever compared  *)
(* for equality, and none of the properties needs fairness.                *)
(***************************************************************************)
EXTENDS HolderRefinement, TLC

Symmetry == Permutations(Char) \cup Permutations(User)

===============================================================================

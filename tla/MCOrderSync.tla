------------------------------- MODULE MCOrderSync -------------------------------
(***************************************************************************)
(* Instances of OrderSync for TLC: a notebook of one or two cells.         *)
(***************************************************************************)
EXTENDS OrderSync, TLC

CONSTANTS x, y   \* the cells in the notebook at first

OneCell  == <<x>>
TwoCells == <<x, y>>

Symmetry == Permutations(Client)

===============================================================================

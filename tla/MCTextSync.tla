------------------------------- MODULE MCTextSync -------------------------------
(***************************************************************************)
(* Instances of TextSync for TLC: the users type their own names into a    *)
(* cell that holds one character, or none.                                 *)
(***************************************************************************)
EXTENDS TextSync, TLC

CONSTANTS letter   \* the letter the cell was inserted with

OneLetter == <<letter>>

Symmetry == Permutations(Client)

===============================================================================

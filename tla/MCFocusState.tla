------------------------------ MODULE MCFocusState ------------------------------
(* FocusState for TLC.  Users are only ever compared for equality.          *)
EXTENDS FocusState, TLC

OneLetter == <<"x">>

Symmetry == Permutations(User)

===============================================================================

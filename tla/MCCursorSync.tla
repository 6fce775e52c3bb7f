------------------------------ MODULE MCCursorSync ------------------------------
(* Two users who type their own names into an empty cell, one of whom has a cursor *)
(* that moves without typing.                                              *)
EXTENDS CursorSync

NoText == <<>>

===============================================================================

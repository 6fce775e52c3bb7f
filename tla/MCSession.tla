------------------------------- MODULE MCSession -------------------------------
(* Three users: one is there, one is connected and one comes; all may leave at any time. *)
EXTENDS Session

CONSTANTS a, b, c

Everybody == {a, b, c}
Host == {a}
Visitor == {b}
===============================================================================

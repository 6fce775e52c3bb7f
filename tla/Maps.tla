---------------------------------- MODULE Maps ----------------------------------
(***************************************************************************)
(* The hash maps of the code: functions with a changing domain.            *)
(***************************************************************************)

With(f, x, v) == [y \in DOMAIN f \cup {x} |-> IF y = x THEN v ELSE f[y]]

Without(f, x) == [y \in DOMAIN f \ {x} |-> f[y]]

\* The entries of both, those of g where they meet.
Overridden(f, g) ==
  [y \in DOMAIN f \cup DOMAIN g |-> IF y \in DOMAIN g THEN g[y] ELSE f[y]]

===============================================================================

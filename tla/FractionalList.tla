----------------------------- MODULE FractionalList -----------------------------
(***************************************************************************)
(* The list of cells ordered by fractional indexes that server and client  *)
(* share: crates/crdt/src/list.rs, and its wasm wrapper for the client.    *)
(*                                                                         *)
(* A list is two maps that mirror each other, by_id and by_index.  The     *)
(* fractional_index crate makes a new index between any two.  Its byte     *)
(* strings, ordered like words in a dictionary, are sequences of integers  *)
(* here, which do not run out on either side.                              *)
(***************************************************************************)
EXTENDS Integers, Sequences, FiniteSets

Index == Seq(Int) \ {<<>>}

\* i and j differ at k first, and i is less there or has ended.
LessAt(i, j, k) ==
  /\ k \in DOMAIN j
  /\ \A n \in 1..k-1 : n \in DOMAIN i /\ i[n] = j[n]
  /\ k \in DOMAIN i => i[k] < j[k]

i \prec j == \E k \in DOMAIN j : LessAt(i, j, k)

EmptyList == [byId |-> <<>>, byIndex |-> <<>>]

Put(f, x, v) == [y \in DOMAIN f \cup {x} |-> IF y = x THEN v ELSE f[y]]
Without(f, x) == [y \in DOMAIN f \ {x} |-> f[y]]

----------------------------------------------------------------------------
(* Making indexes (the fractional_index crate). *)

DefaultIndex == <<0>>
After(i)  == <<i[1] + 1>>
Before(i) == <<i[1] - 1>>

\* i is less than j.
Between(i, j) ==
  LET k == CHOOSE n \in DOMAIN j : LessAt(i, j, n)
  IN  IF k \notin DOMAIN i THEN Append(i, j[k] - 1)
      ELSE IF i[k] + 1 = j[k] THEN Append(i, 0)
      ELSE Append(SubSeq(i, 1, k - 1), (i[k] + j[k]) \div 2)

\* An end of the list is given as NoIndex.
NoIndex == {}
The(index) == CHOOSE i \in index : TRUE
NewIndexBetween(left, right) ==
  CASE left = NoIndex /\ right = NoIndex -> DefaultIndex
    [] left # NoIndex /\ right = NoIndex -> After(The(left))
    [] left = NoIndex /\ right # NoIndex -> Before(The(right))
    [] OTHER -> Between(The(left), The(right))

----------------------------------------------------------------------------
(* The list. *)

Has(l, id)      == id \in DOMAIN l.byId
Occupied(l, i)  == i \in DOMAIN l.byIndex
Above(l, i)     == {j \in DOMAIN l.byIndex : i \prec j}
Below(l, i)     == {j \in DOMAIN l.byIndex : j \prec i}
Lowest(S)       == CHOOSE i \in S : \A j \in S \ {i} : i \prec j
Highest(S)      == CHOOSE i \in S : \A j \in S \ {i} : j \prec i
Ids(l)          == DOMAIN l.byId

\* The two maps mirror each other.
MapsMirror(l) ==
  /\ \A id \in DOMAIN l.byId :
       l.byId[id] \in DOMAIN l.byIndex /\ l.byIndex[l.byId[id]] = id
  /\ \A i \in DOMAIN l.byIndex :
       l.byIndex[i] \in DOMAIN l.byId /\ l.byId[l.byIndex[i]] = i

\* The index asked for or, when it is taken, one right behind the holder.
RealIndex(l, i) ==
  IF ~Occupied(l, i) THEN i
  ELSE IF Above(l, i) = {} THEN After(i) ELSE Between(i, Lowest(Above(l, i)))

\* A slip: a taken index is taken over.
InsertAtTakingOver(l, id, i) ==
  [byId |-> Put(l.byId, id, i), byIndex |-> Put(l.byIndex, i, id)]

InsertAt(l, id, i) ==
  [byId    |-> Put(l.byId, id, RealIndex(l, i)),
   byIndex |-> Put(l.byIndex, RealIndex(l, i), id)]

Delete(l, id) ==
  IF Has(l, id)
  THEN [byId |-> Without(l.byId, id), byIndex |-> Without(l.byIndex, l.byId[id])]
  ELSE l

\* A slip: the place the cell leaves stays taken.
MoveToLeavingTrace(l, id, i) ==
  IF Has(l, id)
  THEN [byId    |-> Put(l.byId, id, RealIndex(l, i)),
        byIndex |-> Put(l.byIndex, RealIndex(l, i), id)]
  ELSE l

MoveTo(l, id, i) ==
  IF Has(l, id)
  THEN [byId    |-> Put(l.byId, id, RealIndex(l, i)),
        byIndex |-> Put(Without(l.byIndex, l.byId[id]), RealIndex(l, i), id)]
  ELSE l

\* The exact index, whoever stands there; the occupant moves right behind it.
MoveToStrict(l, id, i) ==
  IF ~Occupied(l, i) THEN MoveTo(l, id, i)
  ELSE IF l.byIndex[i] = id THEN l
  ELSE MoveTo(MoveTo(l, l.byIndex[i], RealIndex(l, i)), id, i)

===============================================================================

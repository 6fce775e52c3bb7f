------------------------------ MODULE IndexedList ------------------------------
(***************************************************************************)
(* A fractional list (FractionalList) under any sequence of calls, with    *)
(* the one thing its callers see to: a cell is inserted under an id of its *)
(* own, which no cell in the list has (uuidv4, useNotebookSync.ts:428).    *)
(***************************************************************************)
EXTENDS FractionalList

CONSTANTS
  Id,
  Asked,     \* the indexes that are asked for
  MaxCalls   \* bound: calls

ASSUME AskedAssumption == Asked \subseteq Index
ASSUME CallsAssumption == MaxCalls \in Nat

VARIABLES list, calls

listVars == <<list, calls>>

Call(l) ==
  /\ calls < MaxCalls
  /\ list' = l
  /\ calls' = calls + 1

Insert(id, i) ==
  /\ ~Has(list, id)
  /\ Call(InsertAt(list, id, i))

Remove(id) == Call(Delete(list, id))

Move(id, i) == Call(MoveTo(list, id, i))

MoveStrict(id, i) == Call(MoveToStrict(list, id, i))

ListInit ==
  /\ list = EmptyList
  /\ calls = 0

ListNext ==
  \E id \in Id :
    \/ Remove(id)
    \/ \E i \in Asked : Insert(id, i) \/ Move(id, i) \/ MoveStrict(id, i)

ListSpec == ListInit /\ [][ListNext]_listVars

----------------------------------------------------------------------------

\* No cell is shown twice, none is lost and none that was deleted is still
\* shown, whatever calls are made (list.rs:14-17).
Mirrored == MapsMirror(list)

\* What a call may do to the cells it does not name: an insertion, a deletion
\* and a move leave every other cell its index; only a strict move takes a
\* cell from its place, the one at the index, and puts it right behind, in
\* front of every cell that was behind it (list.rs:107-119).
OthersStay ==
  [][\A id \in Id :
       /\ \A i \in Asked :
            Insert(id, i) \/ Move(id, i) \/ Remove(id) =>
              \A other \in Ids(list) \ {id} :
                other \in Ids(list') /\ list'.byId[other] = list.byId[other]
       /\ \A i \in Asked :
            MoveStrict(id, i) =>
              \A other \in Ids(list) \ {id} :
                /\ other \in Ids(list')
                /\ ~ (list'.byId[other] \prec list.byId[other])
                /\ \A behind \in Ids(list) \ {id} :
                     list.byId[other] \prec list.byId[behind] =>
                       list'.byId[other] \prec list'.byId[behind]]_listVars

===============================================================================

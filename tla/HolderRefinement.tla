---------------------------- MODULE HolderRefinement ----------------------------
(***************************************************************************)
(* The two implementations of NotebookStateHolder compared: the cell of    *)
(* ConcurrentStateHolder (CellHistory), which forgets old edits, does what *)
(* the cell of NaiveStateHolder does, which never forgets one.             *)
(*                                                                         *)
(* past is a history variable: every result apply_text_operation has       *)
(* returned.  Nothing depends on it; it stands for the naive holder's      *)
(* history, of which the cell has kept only the end.                       *)
(***************************************************************************)
EXTENDS CellHistory

VARIABLE past

refinementVars == <<vars, past>>

\* The result of an edit of the cell as it is, as it is sent to the clients.
ResultOf(baseVersion, operation, origin) ==
  [version |-> cell.version + 1,
   operation |-> Rebased(cell, baseVersion, operation)[1], origin |-> origin]

RefinementInit == Init /\ past = <<>>

RefinementNext ==
  \E origin \in User, shown, baseVersion \in 0..cell.version :
    \E operation \in Edits(TextAt(shown)) :
      /\ ApplyTextOperation(origin, shown, baseVersion, operation)
      /\ past' = Append(past, ResultOf(baseVersion, operation, origin))

RefinementSpec == RefinementInit /\ [][RefinementNext]_refinementVars

----------------------------------------------------------------------------
(* Properties. *)

\* The same cell in the naive holder.
NaiveCell ==
  [content |-> cell.content,
   version |-> IF cell.version = 0 THEN <<>> ELSE <<cell.version>>,
   history |-> past]

Naive == INSTANCE NaiveHolder WITH naive <- NaiveCell

\* Every step of the cell is a step of the naive holder's: the cap loses
\* nothing but the edits that are refused as too old (resolver.rs:242-248).
ImplementsNaive == Naive!NaiveSpec

\* Where the cell still knows the version a request names, both holders give
\* the same answer: they turn an edit into the same one or refuse it, and a
\* cursor comes out at the same place, except that the naive holder knows no
\* cursor in a cell that was never edited.
AnswersAgree ==
  \A v \in cell.base..cell.version :
    /\ \A operation \in Edits(TextAt(v)) :
         /\ Rebased(cell, v, operation)
              = Naive!NaiveRebased(NaiveCell, v, operation)
         /\ Accepts(cell, v, operation)
              <=> Naive!NaiveAccepts(NaiveCell, v, operation)
    /\ cell.version > 0 =>
         \A u \in User, p \in 0..Len(TextAt(v)) :
           Naive!NaiveRebasePosition(NaiveCell, v, p, u)
             = <<RebasePosition(cell, v, p, u)>>

===============================================================================

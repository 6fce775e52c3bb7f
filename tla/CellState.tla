------------------------------- MODULE CellState -------------------------------
(***************************************************************************)
(* The text of one cell as the server keeps it: CellState of               *)
(* crates/notebook/src/conflict_resolver/resolver.rs.  Every accepted edit *)
(* gives the cell its next version and is remembered, transformed, in a    *)
(* bounded history; an edit made against an older version is transformed   *)
(* over the remembered edits it has not seen.                              *)
(*                                                                         *)
(* These are operators on the record of a cell.  CellHistory is the cell   *)
(* on its own, TextSync the cell with its clients.                         *)
(***************************************************************************)
EXTENDS TextOT, Integers

CONSTANT HistoryCap  \* CELL_OPERATION_HISTORY_CAP, 1000 in the code

ASSUME HistoryCapAssumption == HistoryCap \in Nat

\* The cell as apply_insert makes it from the content a cell_insert carries.
NewCell(text) ==
  [content |-> text, version |-> 0, base |-> 0, history |-> <<>>]

\* A slip: the oldest remembered text itself counts as forgotten.
TooOldByOne(c, baseVersion) == baseVersion <= c.base

TooOld(c, baseVersion) == baseVersion < c.base

\* A slip: the edit that produced the base version itself counts as unseen.
UnseenOffByOne(c, baseVersion) ==
  SubSeq(c.history,
         IF baseVersion = c.base THEN 1 ELSE baseVersion - c.base,
         Len(c.history))

\* history.iter().skip(start); skipping more than there is leaves nothing.
Unseen(c, baseVersion) ==
  SubSeq(c.history, baseVersion - c.base + 1, Len(c.history))

\* The operation transformed over past edits: <<operation>>, or <<>> when a
\* transformation fails because the lengths do not fit.
RebaseOver(past, operation) ==
  FoldLeft(LAMBDA r, edit :
             IF r # <<>> /\ Transformable(edit.operation, r[1])
             THEN <<Transform(edit.operation, r[1]).bPrime>>
             ELSE <<>>,
           <<operation>>, past)

Rebased(c, baseVersion, operation) ==
  RebaseOver(Unseen(c, baseVersion), operation)

\* apply_text_operation returns Ok.
Accepts(c, baseVersion, operation) ==
  /\ ~TooOld(c, baseVersion)
  /\ LET r == Rebased(c, baseVersion, operation)
     IN  r # <<>> /\ Applicable(r[1], c.content)

\* A slip: the oldest edit is forgotten but still counted as the oldest.
RememberMiscounting(c, edit) ==
  [c EXCEPT !.history =
     IF Len(@) + 1 > HistoryCap THEN Tail(Append(@, edit)) ELSE Append(@, edit)]

\* push_back, then pop_front when the history exceeds the cap.
Remember(c, edit) ==
  LET grown == Append(c.history, edit)
  IN  IF Len(grown) > HistoryCap
      THEN [c EXCEPT !.history = Tail(grown), !.base = @ + 1]
      ELSE [c EXCEPT !.history = grown]

\* A slip: the rebased operation is applied but the original is remembered.
EditedRemembersOriginal(c, baseVersion, operation, origin) ==
  LET real == Rebased(c, baseVersion, operation)[1]
  IN  Remember([c EXCEPT !.content = Apply(real, @), !.version = @ + 1],
               [version |-> c.version + 1, operation |-> operation,
                origin |-> origin])

\* The cell after an accepted edit.
Edited(c, baseVersion, operation, origin) ==
  LET real == Rebased(c, baseVersion, operation)[1]
  IN  Remember([c EXCEPT !.content = Apply(real, @), !.version = @ + 1],
               [version |-> c.version + 1, operation |-> real,
                origin |-> origin])

\* A position moved over past edits.
PositionOver(past, position, origin) ==
  FoldLeft(LAMBDA p, edit :
             TransformPosition(p, edit.operation, edit.origin = origin),
           position, past)

\* A slip: the whole history is replayed, the edits already seen included.
RebasePositionOverAll(c, baseVersion, position, origin) ==
  PositionOver(c.history, position, origin)

\* A cursor position reported against an older version; best effort when the
\* history no longer reaches back that far (saturating_sub).
RebasePosition(c, baseVersion, position, origin) ==
  PositionOver(Unseen(c, IF baseVersion > c.base THEN baseVersion ELSE c.base),
               position, origin)

===============================================================================

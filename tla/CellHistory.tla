------------------------------ MODULE CellHistory ------------------------------
(***************************************************************************)
(* A cell on its own (CellState), fed by edits against any version and     *)
(* with the memory of every text it held.  The map entry of the cell is    *)
(* locked for the whole of apply_text_operation, so an edit is one step.   *)
(***************************************************************************)
EXTENDS CellState

CONSTANTS
  User,        \* the origin of an edit
  MaxVersion,  \* bound: edits accepted
  MaxText      \* bound: the length of the texts that edits produce

ASSUME BoundsAssumption == MaxVersion \in Nat /\ MaxText \in Nat

VARIABLES
  cell,
  texts    \* what the cell said at every version so far; texts[v + 1] for v

vars == <<cell, texts>>

TextAt(v) == texts[v + 1]

Edits(text) == {ComputeDiff(text, new) : new \in BoundedSeq(Char, MaxText)}

Init ==
  /\ cell = NewCell(<<>>)
  /\ texts = <<cell.content>>

\* An edit made by a user whose editor shows TextAt(shown) and who names
\* baseVersion.  The two differ for a client that lost track (TextSync), so
\* an edit may not fit: it is refused and the cell stays as it is.
ApplyTextOperation(origin, shown, baseVersion, operation) ==
  /\ cell.version < MaxVersion
  /\ operation \in Edits(TextAt(shown))
  /\ Accepts(cell, baseVersion, operation)
  /\ cell' = Edited(cell, baseVersion, operation, origin)
  /\ Len(cell'.content) <= MaxText
  /\ texts' = Append(texts, cell'.content)

Next ==
  \E origin \in User, shown, baseVersion \in 0..cell.version :
    \E operation \in Edits(TextAt(shown)) :
      ApplyTextOperation(origin, shown, baseVersion, operation)

Spec == Init /\ [][Next]_vars

----------------------------------------------------------------------------
(* Properties. *)

\* The history is the unbroken tail of the accepted edits: it ends at the
\* current version, holds no more than the cap and, once edits have been
\* forgotten, no less (resolver.rs:266-270).  An index computed from a
\* version therefore always finds the edit that produced the next version.
HistoryIsTail ==
  /\ cell.version = cell.base + Len(cell.history)
  /\ Len(cell.history) <= HistoryCap
  /\ cell.base > 0 => Len(cell.history) = HistoryCap
  /\ \A i \in 1..Len(cell.history) : cell.history[i].version = cell.base + i

\* Replaying the remembered edits from the oldest remembered text gives every
\* later text, up to the current content: what the server transforms against
\* is what really happened to the text.
HistoryReplays ==
  /\ Len(texts) = cell.version + 1
  /\ cell.content = TextAt(cell.version)
  /\ \A i \in 1..Len(cell.history) :
       TextAt(cell.base + i)
         = Apply(cell.history[i].operation, TextAt(cell.base + i - 1))

\* An edit made against a text the server still remembers is never refused,
\* however many edits it has missed; and the last HistoryCap versions are all
\* remembered.
RecentEditsAccepted ==
  \A v \in 0..cell.version :
    v + HistoryCap >= cell.version =>
      \A operation \in Edits(TextAt(v)) : Accepts(cell, v, operation)

\* Cursors inside a remembered text are, rebased, inside the current text and
\* in the order they were in (rebase_position, resolver.rs:276-289): a
\* selection never turns around and no cursor leaves the text.  A cursor in a text
\* that is forgotten is moved over the edits that are left, which the code calls
\* best effort; that is not meant here.
CursorsKeepOrder ==
  \A v \in cell.base..cell.version, u \in User :
    \A p \in 0..Len(TextAt(v)) :
      LET q == RebasePosition(cell, v, p, u)
      IN  /\ q \in 0..Len(cell.content)
          /\ \A p2 \in 0..p : RebasePosition(cell, v, p2, u) <= q

===============================================================================

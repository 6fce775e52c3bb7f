------------------------------ MODULE TextOTCheck ------------------------------
(***************************************************************************)
(* Two sites edit the same text at the same time, exchange their edits and *)
(* go on from the text they agree on.  Each site first types one text and  *)
(* then another before it sends, so what it sends is a composed operation, *)
(* as in the client's buffer (localTextEdit in notebookEngine.ts).  The    *)
(* invariants compare the operators of TextOT with what they are for.      *)
(***************************************************************************)
EXTENDS TextOT, FiniteSets

CONSTANT MaxLen    \* bound: the longest text a site types

VARIABLES
  doc,                    \* the text both sites start from
  firstEdit, secondEdit,  \* two successive edits of the first site
  otherEdit               \* the edit of the second site

textVars == <<doc, firstEdit, secondEdit, otherEdit>>

Texts == BoundedSeq(Char, MaxLen)

Diffs(text) == {ComputeDiff(text, new) : new \in Texts}

Sent      == Compose(firstEdit, secondEdit)
Exchanged == Transform(Sent, otherEdit)

\* What computeDiff makes of an unchanged text.
Untouched(text) == ComputeDiff(text, text)

Synced(text) ==
  /\ doc' = text
  /\ firstEdit' = Untouched(text)
  /\ secondEdit' = Untouched(text)
  /\ otherEdit' = Untouched(text)

TextInit ==
  /\ doc \in Texts
  /\ firstEdit = Untouched(doc)
  /\ secondEdit = Untouched(doc)
  /\ otherEdit = Untouched(doc)

TypeFirst ==
  /\ firstEdit = Untouched(doc) /\ secondEdit = firstEdit
  /\ firstEdit' \in Diffs(doc)
  /\ secondEdit' = Untouched(Apply(firstEdit', doc))
  /\ UNCHANGED <<doc, otherEdit>>

TypeAgain ==
  /\ secondEdit = Untouched(Apply(firstEdit, doc))
  /\ secondEdit' \in Diffs(Apply(firstEdit, doc))
  /\ UNCHANGED <<doc, firstEdit, otherEdit>>

TypeOther ==
  /\ otherEdit = Untouched(doc)
  /\ otherEdit' \in Diffs(doc)
  /\ UNCHANGED <<doc, firstEdit, secondEdit>>

\* The sites exchange their edits and go on from the text they reach.
Exchange ==
  LET merged == Apply(Exchanged.bPrime, Apply(Sent, doc))
  IN  /\ Len(merged) <= MaxLen
      /\ Synced(merged)

TextNext == TypeFirst \/ TypeAgain \/ TypeOther \/ Exchange

TextSpec == TextInit /\ [][TextNext]_textVars

----------------------------------------------------------------------------

\* The client's diff turns the old text into the new one and is in the form
\* the crate keeps operations in (computeDiff, textDiff.ts:3-44).
DiffIsExact ==
  \A new \in Texts :
    LET d == ComputeDiff(doc, new)
    IN  /\ Applicable(d, doc)
        /\ Apply(d, doc) = new
        /\ d = FoldLeft(Push, <<>>, d)

\* Composing two edits does what applying one after the other does, and
\* fits exactly where the first one fits (compose, text.rs:102-104).
ComposeIsSequential ==
  /\ Composable(firstEdit, secondEdit)
  /\ Applicable(Sent, doc)
  /\ Apply(Sent, doc) = Apply(secondEdit, Apply(firstEdit, doc))
  /\ Sent = FoldLeft(Push, <<>>, Sent)

\* Whichever of two concurrent edits is applied first, the other one,
\* transformed, leads to the same text, and the transformed operations fit
\* the texts they meet (transform, text.rs:93-99).
TransformConverges ==
  /\ Applicable(Exchanged.aPrime, Apply(otherEdit, doc))
  /\ Applicable(Exchanged.bPrime, Apply(Sent, doc))
  /\ Apply(Exchanged.bPrime, Apply(Sent, doc))
       = Apply(Exchanged.aPrime, Apply(otherEdit, doc))
  /\ Exchanged.aPrime = FoldLeft(Push, <<>>, Exchanged.aPrime)

\* What the cursor rule is for, said without walking the operation: the
\* characters left of the new position are those left of the old one that
\* survive, with the text inserted among them; and the author's own insertion
\* exactly at the cursor, if any (transform_position, text.rs:112-143).
CursorStaysPut ==
  \A p \in 0..Len(doc), own \in BOOLEAN :
    LET keeps(i) == Sent[i] # Delete
        source(i) == BaseLen(SubSeq(Sent, 1, i - 1))   \* characters of doc before
        left == {i \in 1..Len(Sent) :
                   /\ keeps(i)
                   /\ \/ source(i) < p
                      \/ own /\ Sent[i] \in Char /\ source(i) = p}
    IN  TransformPosition(p, Sent, own) = Cardinality(left)

===============================================================================

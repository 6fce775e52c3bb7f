--------------------------- MODULE CellHistory_proofs ---------------------------
(***************************************************************************)
(* The cell of the server's holder, for every alphabet, every set of users *)
(* and every cap: HistoryIsTail, HistoryReplays, RecentEditsAccepted and   *)
(* CursorsKeepOrder are invariants of CellHistory, and the cell, which     *)
(* forgets old edits, implements the one that keeps them all               *)
(* (HolderRefinement).  What the text operators compute matters only for   *)
(* the last two invariants: it comes from TextOT_proofs, by name.          *)
(***************************************************************************)
EXTENDS HolderRefinement, TextOT_proofs

\* The inductive invariant.  What the history holds can only be said of a cell
\* whose fields are there and whose history is a sequence.
IInv ==
  /\ DOMAIN cell = {"content", "version", "base", "history"}
  /\ cell.base \in Nat
  /\ IsSequence(cell.history)
  /\ IsSequence(texts)
  /\ HistoryIsTail
  /\ HistoryReplays

----------------------------------------------------------------------------
(* What an accepted edit does to the cell. *)

----------------------------------------------------------------------------
(* The invariant. *)

LEMMA InitInv == Init => IInv
<1> SUFFICES ASSUME Init PROVE IInv
  OBVIOUS
<1>1. cell = NewCell(<<>>) /\ texts = <<cell.content>>
  BY DEF Init
<1>2. IsSequence(cell.history) /\ IsSequence(texts)
  BY <1>1 DEF NewCell, IsSequence
<1>3. HistoryIsTail
  BY <1>1, HistoryCapAssumption DEF HistoryIsTail, NewCell
<1>4. HistoryReplays
  BY <1>1 DEF HistoryReplays, NewCell, TextAt
<1>5. QED
  BY <1>1, <1>2, <1>3, <1>4 DEF IInv, NewCell

\* An accepted edit keeps the history the replayable tail of all edits.
LEMMA EditInv ==
  ASSUME IInv, NEW origin, NEW shown, NEW baseVersion, NEW operation,
         ApplyTextOperation(origin, shown, baseVersion, operation)
  PROVE  IInv'
<1> DEFINE real  == Rebased(cell, baseVersion, operation)[1]
           edit  == [version |-> cell.version + 1, operation |-> real,
                     origin |-> origin]
           after == [cell EXCEPT !.content = Apply(real, @),
                                 !.version = @ + 1]
<1>1. cell' = Remember(after, edit)
  BY DEF ApplyTextOperation, Edited
<1>2. texts' = Append(texts, cell'.content)
  BY DEF ApplyTextOperation
<1>3. /\ DOMAIN cell = Fields
      /\ cell.base \in Nat
      /\ IsSequence(cell.history)
      /\ IsSequence(texts)
      /\ HistoryIsTail
      /\ HistoryReplays
  BY DEF IInv, Fields
<1> DEFINE newText == Apply(real, cell.content)
<1>4. /\ DOMAIN after = Fields
      /\ after.content = newText
      /\ after.version = cell.version + 1
      /\ after.base = cell.base
      /\ after.history = cell.history
  BY <1>3 DEF Fields
<1>5. /\ edit.version = cell.version + 1
      /\ edit.operation = real
  OBVIOUS
<1> HIDE DEF after, edit, newText
<1>6. /\ DOMAIN cell' = Fields
      /\ cell'.content = newText
      /\ cell'.version = cell.version + 1
      /\ \/ /\ Len(cell.history) < HistoryCap
            /\ cell'.base = cell.base
            /\ cell'.history = Append(cell.history, edit)
         \/ /\ Len(cell.history) >= HistoryCap
            /\ cell'.base = cell.base + 1
            /\ cell'.history = Tail(Append(cell.history, edit))
  BY <1>1, <1>3, <1>4, RememberEffect
<1> DEFINE grown == Append(cell.history, edit)
           n     == Len(cell.history)
<1>7. /\ n \in Nat
      /\ IsSequence(grown) /\ Len(grown) = n + 1
      /\ \A i \in 1..n : grown[i] = cell.history[i]
      /\ grown[n + 1] = edit
  BY <1>3, AppendIsSequence DEF IsSequence
<1>8. /\ IsSequence(texts')
      /\ Len(texts') = cell.version + 2
      /\ \A j \in 1..cell.version + 1 : texts'[j] = texts[j]
      /\ texts'[cell.version + 2] = newText
      /\ cell.version = cell.base + n
      /\ texts[cell.version + 1] = cell.content
  <2>1. Len(texts) = cell.version + 1 /\ Len(texts) \in Nat
    BY <1>3 DEF HistoryReplays, IsSequence
  <2>2. cell.version = cell.base + n /\ texts[cell.version + 1] = cell.content
    BY <1>3 DEF HistoryIsTail, HistoryReplays, TextAt
  <2>3. /\ IsSequence(texts')
        /\ Len(texts') = Len(texts) + 1
        /\ \A i \in 1..Len(texts) : texts'[i] = texts[i]
        /\ texts'[Len(texts) + 1] = newText
    BY <1>2, <1>3, <1>6, AppendIsSequence
  <2>4. QED
    BY <1>3, <1>7, <2>1, <2>2, <2>3
<1> HIDE DEF grown, n
<1>num. cell.base \in Nat /\ n \in Nat /\ cell.version = cell.base + n
  BY <1>3, <1>7, <1>8
<1>9. \A i \in 1..n + 1 :
        /\ grown[i].version = cell.base + i
        /\ texts'[cell.base + i + 1]
             = Apply(grown[i].operation, texts'[cell.base + i])
  <2> SUFFICES ASSUME NEW i \in 1..n + 1
               PROVE  /\ grown[i].version = cell.base + i
                      /\ texts'[cell.base + i + 1]
                           = Apply(grown[i].operation, texts'[cell.base + i])
    OBVIOUS
  <2>1. CASE i \in 1..n
    <3>1. grown[i] = cell.history[i]
      BY <1>7, <2>1
    <3>2. /\ cell.history[i].version = cell.base + i
          /\ texts[cell.base + i + 1]
               = Apply(cell.history[i].operation, texts[cell.base + i - 1 + 1])
      BY <1>3, <2>1 DEF HistoryIsTail, HistoryReplays, TextAt, n
    <3>3. /\ cell.base + i + 1 \in 1..cell.version + 1
          /\ cell.base + i \in 1..cell.version + 1
          /\ cell.base + i - 1 + 1 = cell.base + i
      BY <1>num, <2>1
    <3>4. /\ texts'[cell.base + i + 1] = texts[cell.base + i + 1]
          /\ texts'[cell.base + i] = texts[cell.base + i]
      BY <1>8, <3>3
    <3>5. QED
      BY <3>1, <3>2, <3>3, <3>4
  <2>2. CASE i = n + 1
    <3>1. grown[i] = edit
      BY <1>7, <2>2
    <3>2. cell.base + i + 1 = cell.version + 2
          /\ cell.base + i = cell.version + 1
          /\ cell.version \in Nat
      BY <1>num, <2>2
    <3>3. texts'[cell.version + 1] = cell.content
      <4>1. cell.version + 1 \in 1..cell.version + 1
        BY <3>2
      <4>2. QED
        BY <1>8, <4>1
    <3>4. newText = Apply(edit.operation, cell.content)
      BY <1>5 DEF newText
    <3>5. QED
      BY <1>5, <1>8, <3>1, <3>2, <3>3, <3>4
  <2>3. QED
    BY <1>7, <2>1, <2>2
<1>10. CASE /\ n < HistoryCap
            /\ cell'.base = cell.base
            /\ cell'.history = grown
  <2>1. HistoryIsTail'
    <3>1. cell'.base > 0 => Len(cell'.history) = HistoryCap
      BY <1>3, <1>7, <1>10, HistoryCapAssumption DEF HistoryIsTail, n
    <3>2. \A i \in 1..Len(cell'.history) :
            cell'.history[i].version = cell'.base + i
      BY <1>7, <1>9, <1>10
    <3>3. /\ cell'.version = cell'.base + Len(cell'.history)
          /\ Len(cell'.history) <= HistoryCap
      BY <1>3, <1>6, <1>7, <1>8, <1>10, HistoryCapAssumption
    <3>4. QED
      BY <3>1, <3>2, <3>3 DEF HistoryIsTail
  <2>2. HistoryReplays'
    <3>1. ASSUME NEW i \in 1..Len(cell'.history)
          PROVE  texts'[cell'.base + i + 1]
                   = Apply(cell'.history[i].operation,
                           texts'[cell'.base + i - 1 + 1])
      <4>1. i \in 1..n + 1 /\ cell'.base + i - 1 + 1 = cell.base + i
        BY <1>3, <1>7, <1>10
      <4>2. QED
        BY <1>9, <1>10, <4>1
    <3>2. /\ Len(texts') = cell'.version + 1
          /\ cell'.content = texts'[cell'.version + 1]
      BY <1>3, <1>6, <1>7, <1>8
    <3>3. QED
      BY <3>1, <3>2 DEF HistoryReplays, TextAt
  <2>3. QED
    BY <1>3, <1>6, <1>7, <1>8, <1>10, <2>1, <2>2 DEF IInv, Fields
<1>11. CASE /\ n >= HistoryCap
            /\ cell'.base = cell.base + 1
            /\ cell'.history = Tail(grown)
  <2>1. /\ IsSequence(Tail(grown))
        /\ Len(Tail(grown)) = n
        /\ \A i \in 1..n : Tail(grown)[i] = grown[i + 1]
    BY <1>7, TailIsSequence
  <2>2. n = HistoryCap
    BY <1>3, <1>7, <1>11, HistoryCapAssumption DEF HistoryIsTail, n
  <2>3. HistoryIsTail'
    <3>1. ASSUME NEW i \in 1..Len(cell'.history)
          PROVE  cell'.history[i].version = cell'.base + i
      <4>1. i \in 1..n /\ i + 1 \in 1..n + 1
        BY <1>7, <1>11, <2>1
      <4>2. grown[i + 1].version = cell.base + (i + 1)
        BY <1>9, <4>1
      <4>3. QED
        BY <1>3, <1>11, <2>1, <4>1, <4>2
    <3>2. /\ cell'.version = cell'.base + Len(cell'.history)
          /\ Len(cell'.history) = HistoryCap
      BY <1>3, <1>6, <1>7, <1>8, <1>11, <2>1, <2>2
    <3>3. QED
      BY <3>1, <3>2, HistoryCapAssumption DEF HistoryIsTail
  <2>4. HistoryReplays'
    <3>1. ASSUME NEW i \in 1..Len(cell'.history)
          PROVE  texts'[cell'.base + i + 1]
                   = Apply(cell'.history[i].operation,
                           texts'[cell'.base + i - 1 + 1])
      <4>1. /\ i \in 1..n /\ i + 1 \in 1..n + 1
            /\ cell'.base + i = cell.base + (i + 1)
            /\ cell'.base + i - 1 + 1 = cell.base + (i + 1)
        <5>1. i \in 1..n
          BY <1>11, <2>1
        <5>2. cell'.base = cell.base + 1
          BY <1>11
        <5>3. QED
          BY <1>num, <5>1, <5>2
      <4>2. texts'[cell.base + (i + 1) + 1]
              = Apply(grown[i + 1].operation, texts'[cell.base + (i + 1)])
        BY <1>9, <4>1
      <4>3. QED
        BY <1>11, <2>1, <4>1, <4>2
    <3>2. /\ Len(texts') = cell'.version + 1
          /\ cell'.content = texts'[cell'.version + 1]
      BY <1>3, <1>6, <1>7, <1>8
    <3>3. QED
      BY <3>1, <3>2 DEF HistoryReplays, TextAt
  <2>5. QED
    BY <1>3, <1>6, <1>8, <1>11, <2>1, <2>3, <2>4 DEF IInv, Fields
<1>12. QED
  BY <1>6, <1>10, <1>11 DEF grown, n

\* Cell and texts keep their form, and both properties hold of them, through every
\* apply_text_operation (resolver.rs:236-274).
THEOREM Invariance == Spec => []IInv
<1>1. IInv /\ UNCHANGED vars => IInv'
  BY DEF IInv, vars, HistoryIsTail, HistoryReplays, TextAt
<1>2. IInv /\ [Next]_vars => IInv'
  BY <1>1, EditInv DEF Next
<1>3. QED
  BY InitInv, <1>2, PTL DEF Spec

\* HistoryIsTail for every cap: versions and history never drift apart, so
\* the index apply_text_operation computes from a base version
\* (resolver.rs:250) is right after any number of edits.
THEOREM HistoryIsTailAlways == Spec => []HistoryIsTail
<1>1. IInv => HistoryIsTail
  BY DEF IInv
<1>2. QED
  BY Invariance, <1>1, PTL

\* HistoryReplays for every cap: the remembered edits, replayed from the
\* oldest remembered text, give every later one up to the current content.
THEOREM HistoryReplaysAlways == Spec => []HistoryReplays
<1>1. IInv => HistoryReplays
  BY DEF IInv
<1>2. QED
  BY Invariance, <1>1, PTL

----------------------------------------------------------------------------
(* The cell against the naive holder's. *)

\* The inductive invariant: the cell has kept the end of everything it has
\* ever answered.
RInv ==
  /\ IInv
  /\ IsSequence(past)
  /\ Len(past) = cell.version
  /\ \A i \in 1..Len(cell.history) : cell.history[i] = past[cell.base + i]

\* What a request has not seen is the same in both holders as long as the cell
\* remembers it.
LEMMA UnseenAgree ==
  ASSUME RInv, NEW v \in cell.base..cell.version
  PROVE  /\ Unseen(cell, v) = Naive!NaiveUnseen(NaiveCell, v)
         /\ ~TooOld(cell, v)
<1>1. /\ IsSequence(cell.history) /\ IsSequence(past)
      /\ cell.base \in Nat /\ Len(cell.history) \in Nat
      /\ cell.version = cell.base + Len(cell.history)
      /\ Len(past) = cell.version
      /\ \A i \in 1..Len(cell.history) : cell.history[i] = past[cell.base + i]
  BY DEF RInv, IInv, HistoryIsTail, IsSequence
<1> DEFINE h == cell.history
<1>2. SubSeq(h, v - cell.base + 1, Len(h)) = SubSeq(past, v + 1, Len(past))
  <2>1. v \in cell.base..Len(past) /\ Len(past) = cell.base + Len(h)
    BY <1>1
  <2> HIDE DEF h
  <2>2. IsSequence(h) /\ \A i \in 1..Len(h) : h[i] = past[cell.base + i]
    BY <1>1 DEF h
  <2>3. QED
    BY <1>1, <2>1, <2>2, EndsAgree
<1>3. NaiveCell.history = past
  BY DEF NaiveCell
<1>4. ~TooOld(cell, v)
  BY <1>1 DEF TooOld
<1>5. QED
  BY <1>2, <1>3, <1>4 DEF Unseen, Naive!NaiveUnseen

\* And so the two transform, accept and refuse alike.
LEMMA RebasedAgree ==
  ASSUME RInv, NEW v \in cell.base..cell.version, NEW operation
  PROVE  /\ Rebased(cell, v, operation)
              = Naive!NaiveRebased(NaiveCell, v, operation)
         /\ Accepts(cell, v, operation)
              <=> Naive!NaiveAccepts(NaiveCell, v, operation)
<1>1. Rebased(cell, v, operation) = Naive!NaiveRebased(NaiveCell, v, operation)
  BY UnseenAgree DEF Rebased, Naive!NaiveRebased
<1>2. NaiveCell.content = cell.content
  BY DEF NaiveCell
<1>3. QED
  BY <1>1, <1>2, UnseenAgree DEF Accepts, Naive!NaiveAccepts

----------------------------------------------------------------------------
(* The invariant and the steps. *)

LEMMA RInit == RefinementInit => RInv /\ Naive!NaiveInit
<1> SUFFICES ASSUME RefinementInit PROVE RInv /\ Naive!NaiveInit
  OBVIOUS
<1>1. Init /\ past = <<>> /\ cell = NewCell(<<>>) /\ texts = <<cell.content>>
  BY DEF RefinementInit, Init
<1>2. RInv
  BY <1>1, InitInv DEF RInv, NewCell, IsSequence
<1>3. NaiveCell = Naive!NaiveNewCell(<<>>)
  BY <1>1 DEF NaiveCell, NewCell, Naive!NaiveNewCell
<1>4. QED
  BY <1>1, <1>2, <1>3 DEF Naive!NaiveInit, NaiveCell

\* What an accepted edit makes of the cell.
LEMMA EditedEffect ==
  ASSUME IInv, NEW baseVersion, NEW operation, NEW origin
  PROVE  LET e == Edited(cell, baseVersion, operation, origin)
             r == ResultOf(baseVersion, operation, origin)
         IN  /\ e.content = Apply(r.operation, cell.content)
             /\ e.version = cell.version + 1
             /\ \/ e.base = cell.base /\ e.history = Append(cell.history, r)
                \/ /\ e.base = cell.base + 1
                   /\ e.history = Tail(Append(cell.history, r))
<1> DEFINE r     == ResultOf(baseVersion, operation, origin)
           after == [cell EXCEPT !.content = Apply(r.operation, @),
                                 !.version = @ + 1]
<1>1. Edited(cell, baseVersion, operation, origin) = Remember(after, r)
  BY DEF Edited, ResultOf
<1>2. /\ DOMAIN cell = Fields /\ IsSequence(cell.history) /\ cell.base \in Nat
  BY DEF IInv, Fields
<1>3. /\ DOMAIN after = Fields
      /\ after.content = Apply(r.operation, cell.content)
      /\ after.version = cell.version + 1
      /\ after.base = cell.base
      /\ after.history = cell.history
  BY <1>2 DEF Fields
<1> HIDE DEF r, after
<1>4. QED
  BY <1>1, <1>2, <1>3, RememberEffect DEF r

LEMMA EditRInv ==
  ASSUME RInv, NEW origin, NEW shown, NEW baseVersion, NEW operation,
         ApplyTextOperation(origin, shown, baseVersion, operation),
         past' = Append(past, ResultOf(baseVersion, operation, origin))
  PROVE  RInv'
<1> DEFINE r == ResultOf(baseVersion, operation, origin)
           h == cell.history
           n == Len(cell.history)
<1>1. /\ IsSequence(h) /\ IsSequence(past)
      /\ cell.base \in Nat /\ n \in Nat
      /\ cell.version = cell.base + n
      /\ Len(past) = cell.version
      /\ \A i \in 1..n : h[i] = past[cell.base + i]
  BY DEF RInv, IInv, HistoryIsTail, IsSequence
<1>2. /\ cell'.version = cell.version + 1
      /\ \/ cell'.base = cell.base /\ cell'.history = Append(h, r)
         \/ cell'.base = cell.base + 1 /\ cell'.history = Tail(Append(h, r))
  BY EditedEffect DEF ApplyTextOperation, RInv
<1> HIDE DEF r
<1>3. /\ IsSequence(past') /\ Len(past') = cell.version + 1
      /\ \A i \in 1..cell.version : past'[i] = past[i]
      /\ past'[cell.version + 1] = r
  BY <1>1, AppendIsSequence DEF r
<1> DEFINE grown == Append(h, r)
<1>4. /\ IsSequence(grown) /\ Len(grown) = n + 1
      /\ \A i \in 1..n : grown[i] = h[i]
      /\ grown[n + 1] = r
  BY <1>1, AppendIsSequence
<1> HIDE DEF grown, h, n
<1>5. \A i \in 1..n + 1 : grown[i] = past'[cell.base + i]
  <2> SUFFICES ASSUME NEW i \in 1..n + 1 PROVE grown[i] = past'[cell.base + i]
    OBVIOUS
  <2>1. CASE i \in 1..n
    <3>1. cell.base + i \in 1..cell.version
      BY <1>1, <2>1
    <3>2. QED
      BY <1>1, <1>3, <1>4, <2>1, <3>1
  <2>2. CASE i = n + 1
    BY <1>1, <1>3, <1>4, <2>2
  <2>3. QED
    BY <1>1, <2>1, <2>2
<1>6. \A i \in 1..Len(cell'.history) :
        cell'.history[i] = past'[cell'.base + i]
  <2>1. CASE cell'.base = cell.base /\ cell'.history = grown
    BY <1>4, <1>5, <2>1
  <2>2. CASE cell'.base = cell.base + 1 /\ cell'.history = Tail(grown)
    <3>1. /\ Len(Tail(grown)) = n
          /\ \A i \in 1..n : Tail(grown)[i] = grown[i + 1]
      BY <1>1, <1>4, TailIsSequence
    <3>2. ASSUME NEW i \in 1..n
          PROVE  grown[i + 1] = past'[cell.base + 1 + i]
      <4> n \in Nat /\ cell.base \in Nat
        BY <1>1
      <4>1. i + 1 \in 1..n + 1 /\ cell.base + (i + 1) = cell.base + 1 + i
        OBVIOUS
      <4>2. grown[i + 1] = past'[cell.base + (i + 1)]
        BY <1>5, <4>1
      <4>3. QED
        BY <4>1, <4>2
    <3>3. QED
      BY <2>2, <3>1, <3>2
  <2>3. QED
    BY <1>2, <2>1, <2>2 DEF grown, h
<1>7. IInv'
  BY EditInv DEF RInv
<1>8. QED
  BY <1>2, <1>3, <1>6, <1>7 DEF RInv

\* An edit of the cell is the naive holder's edit.
LEMMA EditSimulates ==
  ASSUME RInv, NEW origin \in User, NEW shown \in 0..cell.version,
         NEW baseVersion \in 0..cell.version,
         NEW operation \in Edits(TextAt(shown)),
         ApplyTextOperation(origin, shown, baseVersion, operation),
         past' = Append(past, ResultOf(baseVersion, operation, origin))
  PROVE  Naive!NaiveNext
<1> DEFINE r == ResultOf(baseVersion, operation, origin)
<1>1. /\ Accepts(cell, baseVersion, operation)
      /\ cell' = Edited(cell, baseVersion, operation, origin)
      /\ texts' = Append(texts, cell'.content)
  BY DEF ApplyTextOperation
<1>2. /\ cell.base \in Nat /\ cell.version \in Nat
      /\ IsSequence(texts) /\ Len(texts) = cell.version + 1
  BY DEF RInv, IInv, HistoryIsTail, HistoryReplays, IsSequence
<1>3. baseVersion \in cell.base..cell.version
  BY <1>1, <1>2 DEF Accepts, TooOld
<1>4. /\ Naive!NaiveRebased(NaiveCell, baseVersion, operation)
           = Rebased(cell, baseVersion, operation)
  BY <1>3, RebasedAgree
<1>5. /\ Rebased(cell, baseVersion, operation) # <<>>
      /\ Applicable(Rebased(cell, baseVersion, operation)[1], NaiveCell.content)
  BY <1>1 DEF Accepts, NaiveCell
<1>6. Naive!NaiveVersion(NaiveCell) = cell.version
  BY <1>2 DEF Naive!NaiveVersion, NaiveCell
<1>7. NaiveCell' = Naive!NaiveEdited(NaiveCell, r.operation, origin)
  <2>1. cell'.content = Apply(r.operation, cell.content)
        /\ cell'.version = cell.version + 1
    BY <1>1, EditedEffect DEF RInv
  <2>2. NaiveCell' = [content |-> cell'.content, version |-> <<cell.version + 1>>,
                      history |-> past']
    <3> HIDE DEF r
    <3>1. cell'.version # 0
      BY <1>2, <2>1
    <3>2. QED
      BY <2>1, <3>1 DEF NaiveCell
  <2>3. past' = Append(past, [version |-> cell.version + 1,
                              operation |-> r.operation, origin |-> origin])
    BY DEF ResultOf
  <2> HIDE DEF r
  <2>4. NaiveCell.content = cell.content /\ NaiveCell.history = past
    BY DEF NaiveCell
  <2>5. QED
    BY <1>6, <2>1, <2>2, <2>3, <2>4 DEF Naive!NaiveEdited
<1>8. r.operation = Rebased(cell, baseVersion, operation)[1]
  BY DEF ResultOf
<1>9. NaiveCell'.content = cell'.content
  BY DEF NaiveCell
<1>10. Naive!NaiveApplyTextOperation(baseVersion, operation)
  <2> HIDE DEF r
  <2>1. QED
    BY <1>1, <1>4, <1>5, <1>7, <1>8, <1>9 DEF Naive!NaiveApplyTextOperation
<1>11. operation \in UNION {Edits(texts[v]) : v \in DOMAIN texts}
  <2>1. shown + 1 \in DOMAIN texts
    BY <1>2 DEF IsSequence
  <2>2. QED
    BY <2>1 DEF TextAt
<1>12. QED
  BY <1>6, <1>10, <1>11 DEF Naive!NaiveNext

\* RInv is inductive.
LEMMA RStep == RInv /\ [RefinementNext]_refinementVars => RInv'
<1> SUFFICES ASSUME RInv, [RefinementNext]_refinementVars PROVE RInv'
  OBVIOUS
<1>1. CASE RefinementNext
  BY <1>1, EditRInv DEF RefinementNext
<1>2. CASE UNCHANGED refinementVars
  BY <1>2 DEF refinementVars, vars, RInv, IInv, HistoryIsTail, HistoryReplays,
              TextAt
<1>3. QED
  BY <1>1, <1>2

\* The cell has kept the end of everything it has ever answered (resolver.rs:266-271).
THEOREM RInvariance == RefinementSpec => []RInv
BY RInit, RStep, PTL DEF RefinementSpec

\* ImplementsNaive for every cap: what the server's holder makes of an edit is
\* what the holder without a cap makes of it (resolver.rs:236-274,
\* naive_resolver.rs:242-271).
THEOREM HolderImplementsNaive == RefinementSpec => ImplementsNaive
<1>1. RInv /\ [RefinementNext]_refinementVars
        => [Naive!NaiveNext]_(Naive!naiveVars)
  <2> SUFFICES ASSUME RInv, [RefinementNext]_refinementVars
               PROVE  [Naive!NaiveNext]_(Naive!naiveVars)
    OBVIOUS
  <2>1. CASE RefinementNext
    BY <2>1, EditSimulates DEF RefinementNext
  <2>2. CASE UNCHANGED refinementVars
    BY <2>2 DEF refinementVars, vars, Naive!naiveVars, NaiveCell
  <2>3. QED
    BY <2>1, <2>2
<1>2. QED
  BY RInit, RInvariance, <1>1, PTL
     DEF RefinementSpec, ImplementsNaive, Naive!NaiveSpec

\* AnswersAgree for every cap: no client can tell the holders apart by what is
\* refused or by where a cursor comes out, but for a cell that was never edited.
THEOREM AnswersAgreeAlways == RefinementSpec => []AnswersAgree
<1>1. RInv => AnswersAgree
  <2> SUFFICES ASSUME RInv, NEW v \in cell.base..cell.version
               PROVE  /\ \A operation \in Edits(TextAt(v)) :
                           /\ Rebased(cell, v, operation)
                                = Naive!NaiveRebased(NaiveCell, v, operation)
                           /\ Accepts(cell, v, operation)
                                <=> Naive!NaiveAccepts(NaiveCell, v, operation)
                      /\ cell.version > 0 =>
                           \A u \in User, p \in 0..Len(TextAt(v)) :
                             Naive!NaiveRebasePosition(NaiveCell, v, p, u)
                               = <<RebasePosition(cell, v, p, u)>>
    BY DEF AnswersAgree
  <2>1. cell.base \in Nat /\ Len(past) = cell.version /\ v \in Int
    BY DEF RInv, IInv, HistoryIsTail, IsSequence
  <2>2. Unseen(cell, v) = Naive!NaiveUnseen(NaiveCell, v)
    BY UnseenAgree
  <2>3. (IF v > cell.base THEN v ELSE cell.base) = v
    BY <2>1
  <2>4. cell.version > 0 => NaiveCell.history # <<>>
    BY <2>1 DEF NaiveCell
  <2>5. QED
    BY <2>2, <2>3, <2>4, RebasedAgree DEF RebasePosition, Naive!NaiveRebasePosition
<1>2. QED
  BY RInvariance, <1>1, PTL

\* The inductive invariant about what the edits do: every text there was is one,
\* and every remembered edit is an edit of the text it was made in.
EditsFit ==
  /\ \A i \in 1..Len(texts) : texts[i] \in Text
  /\ \A i \in 1..Len(cell.history) :
       Fits(cell.history[i].operation, TextAt(cell.base + i - 1))

\* The edits a request has not seen lead from the text it was made in to the text
\* there is.
LEMMA UnseenTrail ==
  ASSUME IInv, EditsFit, NEW v \in cell.base..cell.version
  PROVE  \E t : /\ Trail(Unseen(cell, v), t)
                /\ t[0] = TextAt(v) /\ t[Len(Unseen(cell, v))] = cell.content
<1> DEFINE h == cell.history
           m == v - cell.base + 1
<1>1. /\ IsSequence(h) /\ cell.base \in Nat /\ Len(h) \in Nat
      /\ cell.version = cell.base + Len(h)
      /\ Len(texts) = cell.version + 1
      /\ cell.content = texts[cell.version + 1]
  BY DEF IInv, HistoryIsTail, HistoryReplays, IsSequence, TextAt
<1>2. m \in 1..Len(h) + 1 /\ Len(h) - m + 1 = cell.version - v
  BY <1>1
<1>3. PICK u : u = Unseen(cell, v)
  OBVIOUS
<1>4. /\ IsSequence(u) /\ Len(u) = cell.version - v
      /\ \A i \in 1..cell.version - v : u[i] = h[m + i - 1]
  <2>1. u = SubSeq(h, m, Len(h))
    BY <1>3 DEF Unseen
  <2> HIDE DEF h, m
  <2>2. QED
    BY <1>1, <1>2, <2>1, SubSeqOfSequence
<1>5. PICK t : t = [k \in 0..cell.version - v |-> texts[v + k + 1]]
  OBVIOUS
<1>6. v \in Int /\ v >= cell.base /\ v <= cell.version /\ cell.version \in Nat
  BY <1>1
<1>7. t[0] = texts[v + 1] /\ t[cell.version - v] = texts[cell.version + 1]
  BY <1>5, <1>6
<1>8. t[0] \in Text
  BY <1>1, <1>6, <1>7 DEF EditsFit
<1>9. ASSUME NEW k \in 1..Len(u)
      PROVE  Fits(u[k].operation, t[k - 1]) /\ t[k] = Apply(u[k].operation, t[k - 1])
  <2>1. PICK i : i = m + k - 1
    OBVIOUS
  <2>0. PICK b, w, n : b = cell.base /\ w = cell.version /\ n = Len(h)
    OBVIOUS
  <2>8. /\ b \in Nat /\ w = b + n /\ n \in Nat /\ v \in Int /\ v >= b /\ v <= w
        /\ k \in Int /\ k >= 1 /\ k <= w - v /\ i = v - b + k
    BY <1>1, <1>4, <1>6, <2>0, <2>1
  <2>2. /\ i \in 1..Len(h)
        /\ cell.base + i - 1 + 1 = v + k /\ cell.base + i + 1 = v + k + 1
        /\ k - 1 \in 0..cell.version - v /\ k \in 0..cell.version - v
        /\ v + (k - 1) + 1 = v + k
    <3>1. i \in Int /\ k \in Int /\ i <= n /\ i >= 1
      BY <2>8
    <3>2. b + i - 1 + 1 = v + k /\ b + i + 1 = v + k + 1
      BY <2>8
    <3>3. k - 1 \in 0..w - v /\ k \in 0..w - v
      BY <2>8
    <3>4. v + (k - 1) + 1 = v + k
      BY <2>8
    <3>5. QED
      BY <2>0, <2>8, <3>1, <3>2, <3>3, <3>4
  <2>3. Fits(h[i].operation, texts[cell.base + i - 1 + 1])
    BY <2>2 DEF EditsFit, TextAt
  <2>4. texts[cell.base + i + 1] = Apply(h[i].operation, texts[cell.base + i - 1 + 1])
    BY <2>2 DEF IInv, HistoryReplays, TextAt
  <2>5. u[k] = h[i]
    BY <1>4, <2>1
  <2>6. t[k - 1] = texts[v + k] /\ t[k] = texts[v + k + 1]
    BY <1>5, <2>2
  <2>7. QED
    BY <2>2, <2>3, <2>4, <2>5, <2>6
<1>10. Trail(u, t)
  BY <1>4, <1>8, <1>9 DEF Trail
<1>11. QED
  BY <1>1, <1>3, <1>4, <1>7, <1>10 DEF TextAt

\* An accepted edit fits the text it is applied to, whatever version its author
\* named: apply_text_operation refuses what does not (resolver.rs:252-257).
LEMMA AcceptedFits ==
  ASSUME IInv, EditsFit, NEW v \in 0..cell.version, NEW operation \in Operation,
         Accepts(cell, v, operation)
  PROVE  Fits(Rebased(cell, v, operation)[1], cell.content)
<1>1. /\ IsSequence(cell.history) /\ cell.base \in Nat /\ Len(cell.history) \in Nat
      /\ cell.version = cell.base + Len(cell.history)
      /\ Len(texts) = cell.version + 1
      /\ cell.content = texts[cell.version + 1]
  BY DEF IInv, HistoryIsTail, HistoryReplays, IsSequence, TextAt
<1>2. PICK u : u = Unseen(cell, v)
  OBVIOUS
<1>3. v \in cell.base..cell.version
  BY <1>1 DEF Accepts, TooOld
<1>4. IsSequence(u) /\ \A i \in 1..Len(u) : IsEdit(u[i])
  <2>1. PICK t : Trail(u, t)
    BY <1>2, <1>3, UnseenTrail
  <2>2. QED
    BY <2>1, TrailTexts DEF Trail
<1>5. PICK o : o = Rebased(cell, v, operation)[1]
  OBVIOUS
<1>6. o \in Operation
  BY <1>2, <1>4, <1>5, RebaseType DEF Accepts, Rebased
<1>7. Applicable(o, cell.content)
  BY <1>5 DEF Accepts
<1>8. cell.content \in Text
  BY <1>1 DEF EditsFit
<1>9. Apply(o, cell.content) \in Text
  BY <1>6, <1>7, <1>8, ApplyType
<1>10. QED
  BY <1>5, <1>6, <1>7, <1>8, <1>9 DEF Fits

\* What a client sends is an operation, whatever text it was made in.
LEMMA EditsAreOperations ==
  ASSUME NEW t \in Text, NEW operation \in Edits(t)
  PROVE  operation \in Operation /\ Fits(operation, t)
<1>1. PICK new \in BoundedSeq(Char, MaxText) : operation = ComputeDiff(t, new)
  BY DEF Edits
<1>2. new \in Text
  BY TextsAreTexts DEF Text
<1>3. QED
  BY <1>1, <1>2, DiffFits DEF Fits

\* Every remembered edit stays an edit of the text it was made in.
LEMMA EditFits ==
  ASSUME IInv, EditsFit, NEW origin, NEW shown \in 0..cell.version,
         NEW baseVersion \in 0..cell.version, NEW operation,
         ApplyTextOperation(origin, shown, baseVersion, operation)
  PROVE  EditsFit'
<1>1. /\ operation \in Edits(TextAt(shown))
      /\ Accepts(cell, baseVersion, operation)
      /\ cell' = Edited(cell, baseVersion, operation, origin)
      /\ texts' = Append(texts, cell'.content)
  BY DEF ApplyTextOperation
<1>2. /\ IsSequence(cell.history) /\ cell.base \in Nat /\ Len(cell.history) \in Nat
      /\ cell.version = cell.base + Len(cell.history)
      /\ IsSequence(texts) /\ Len(texts) = cell.version + 1
      /\ cell.content = texts[cell.version + 1]
  BY DEF IInv, HistoryIsTail, HistoryReplays, IsSequence, TextAt
<1>3. operation \in Operation
  <2>1. shown + 1 \in 1..Len(texts)
    BY <1>2
  <2>2. TextAt(shown) \in Text
    BY <2>1 DEF EditsFit, TextAt
  <2>3. QED
    BY <1>1, <2>2, EditsAreOperations
<1>4. PICK real : real = Rebased(cell, baseVersion, operation)[1]
  OBVIOUS
<1>5. Fits(real, cell.content)
  BY <1>1, <1>3, <1>4, AcceptedFits
<1>6. PICK r : r = ResultOf(baseVersion, operation, origin)
  OBVIOUS
<1>7. r.operation = real
  BY <1>4, <1>6 DEF ResultOf
<1> DEFINE h == cell.history
           n == Len(cell.history)
           grown == Append(h, r)
<1>8. /\ cell'.content = Apply(real, cell.content)
      /\ cell'.version = cell.version + 1
      /\ \/ cell'.base = cell.base /\ cell'.history = grown
         \/ cell'.base = cell.base + 1 /\ cell'.history = Tail(grown)
  BY <1>1, <1>6, <1>7, EditedEffect
<1>9. cell'.content \in Text
  BY <1>5, <1>8 DEF Fits
<1>10. /\ Len(texts') = cell.version + 2
       /\ \A i \in 1..cell.version + 1 : texts'[i] = texts[i]
       /\ texts'[cell.version + 2] = cell'.content
  <2>1. /\ Len(texts') = Len(texts) + 1
        /\ \A i \in 1..Len(texts) : texts'[i] = texts[i]
        /\ texts'[Len(texts) + 1] = cell'.content
    BY <1>1, <1>2, AppendIsSequence
  <2>2. QED
    BY <1>2, <2>1
<1>11. /\ IsSequence(grown) /\ Len(grown) = n + 1
       /\ \A i \in 1..n : grown[i] = h[i]
       /\ grown[n + 1] = r
  BY <1>2, AppendIsSequence
<1> HIDE DEF grown, h, n
<1>12. PICK b, w, m : b = cell.base /\ w = cell.version /\ m = n
  OBVIOUS
<1>13. b \in Nat /\ m \in Nat /\ w = b + m
  BY <1>2, <1>12 DEF n
<1>14. \A i \in 1..Len(texts') : texts'[i] \in Text
  <2>1. ASSUME NEW i \in 1..w + 1 PROVE texts'[i] \in Text
    BY <1>2, <1>10, <1>12, <2>1 DEF EditsFit
  <2>2. texts'[w + 2] \in Text
    BY <1>9, <1>10, <1>12
  <2>3. \A i \in 1..w + 2 : i \in 1..w + 1 \/ i = w + 2
    BY <1>13
  <2>4. QED
    BY <1>10, <1>12, <2>1, <2>2, <2>3
<1>15. \A i \in 1..m + 1 : Fits(grown[i].operation, texts'[b + i])
  <2> SUFFICES ASSUME NEW i \in 1..m + 1 PROVE Fits(grown[i].operation, texts'[b + i])
    OBVIOUS
  <2>1. CASE i \in 1..m
    <3>1. b + i - 1 + 1 = b + i /\ b + i \in 1..w + 1
      BY <1>13, <2>1
    <3>2. Fits(h[i].operation, texts[b + i - 1 + 1])
      BY <1>12, <2>1 DEF EditsFit, TextAt, h, n
    <3>3. grown[i] = h[i] /\ texts'[b + i] = texts[b + i]
      BY <1>10, <1>11, <1>12, <2>1, <3>1
    <3>4. QED
      BY <3>1, <3>2, <3>3
  <2>2. CASE i = m + 1
    <3>1. b + i = w + 1 /\ w + 1 \in 1..w + 1
      BY <1>13, <2>2
    <3>2. texts'[w + 1] = cell.content /\ grown[i] = r
      BY <1>2, <1>10, <1>11, <1>12, <2>2, <3>1
    <3>3. QED
      BY <1>5, <1>7, <3>1, <3>2
  <2>3. QED
    BY <1>13, <2>1, <2>2
<1>16. \A i \in 1..Len(cell'.history) :
         Fits(cell'.history[i].operation, texts'[cell'.base + i - 1 + 1])
  <2>1. CASE cell'.base = cell.base /\ cell'.history = grown
    <3>1. ASSUME NEW i \in 1..m + 1
          PROVE  Fits(grown[i].operation, texts'[b + i - 1 + 1])
      <4>1. b + i - 1 + 1 = b + i
        BY <1>13
      <4>2. QED
        BY <1>15, <4>1
    <3>2. QED
      BY <1>11, <1>12, <2>1, <3>1
  <2>2. CASE cell'.base = cell.base + 1 /\ cell'.history = Tail(grown)
    <3>1. /\ Len(Tail(grown)) = m
          /\ \A i \in 1..m : Tail(grown)[i] = grown[i + 1]
      BY <1>11, <1>12, <1>13, TailIsSequence
    <3>2. ASSUME NEW i \in 1..m
          PROVE  Fits(grown[i + 1].operation, texts'[b + 1 + i - 1 + 1])
      <4>1. b + 1 + i - 1 + 1 = b + (i + 1) /\ i + 1 \in 1..m + 1
        BY <1>13
      <4>2. QED
        BY <1>15, <4>1
    <3>3. QED
      BY <1>12, <2>2, <3>1, <3>2
  <2>3. QED
    BY <1>8, <2>1, <2>2
<1>17. QED
  BY <1>14, <1>16 DEF EditsFit, TextAt

\* Every edit the history holds is one of the text it was made to, so that an edit of
\* any of those texts can be transformed over those that followed
\* (resolver.rs:253-257).
THEOREM EditsFitAlways == Spec => []EditsFit
<1>1. Init => EditsFit
  <2>1. ASSUME Init PROVE EditsFit
    <3>1. cell = NewCell(<<>>) /\ texts = <<<<>>>>
      BY <2>1 DEF Init, NewCell
    <3>2. <<>> \in Text
      BY DEF Text
    <3>3. Len(cell.history) = 0 /\ Len(texts) = 1 /\ texts[1] = <<>>
      BY <3>1 DEF NewCell
    <3>4. QED
      BY <3>2, <3>3 DEF EditsFit
  <2>2. QED
    BY <2>1
<1>2. IInv /\ EditsFit /\ [Next]_vars => EditsFit'
  <2> SUFFICES ASSUME IInv, EditsFit, [Next]_vars PROVE EditsFit'
    OBVIOUS
  <2>1. CASE Next
    BY <2>1, EditFits DEF Next
  <2>2. CASE UNCHANGED vars
    BY <2>2 DEF vars, EditsFit, TextAt
  <2>3. QED
    BY <2>1, <2>2
<1>3. QED
  BY <1>1, <1>2, Invariance, PTL DEF Spec

\* RecentEditsAccepted for every alphabet and every cap: an edit of a text the cell
\* remembers is not refused, however many edits it is transformed over
\* (resolver.rs:244-262).
THEOREM RecentEditsAcceptedAlways == Spec => []RecentEditsAccepted
<1>1. IInv /\ EditsFit => RecentEditsAccepted
  <2> SUFFICES ASSUME IInv, EditsFit, NEW v \in 0..cell.version,
                      v + HistoryCap >= cell.version,
                      NEW operation \in Edits(TextAt(v))
               PROVE  Accepts(cell, v, operation)
    BY DEF RecentEditsAccepted
  <2>1. /\ cell.base \in Nat /\ Len(cell.history) \in Nat
        /\ cell.version = cell.base + Len(cell.history)
        /\ cell.base > 0 => Len(cell.history) = HistoryCap
        /\ Len(texts) = cell.version + 1
    BY DEF IInv, HistoryIsTail, HistoryReplays, IsSequence
  <2>2. v \in cell.base..cell.version
    BY <2>1, HistoryCapAssumption
  <2>3. ~TooOld(cell, v)
    BY <2>1, <2>2 DEF TooOld
  <2>4. TextAt(v) \in Text
    BY <2>1 DEF EditsFit, TextAt
  <2>5. Fits(operation, TextAt(v))
    BY <2>4, EditsAreOperations
  <2>6. PICK u : u = Unseen(cell, v)
    OBVIOUS
  <2>7. PICK t : Trail(u, t) /\ t[0] = TextAt(v) /\ t[Len(u)] = cell.content
    BY <2>2, <2>6, UnseenTrail
  <2>8. Fits(operation, t[0])
    BY <2>5, <2>7
  <2>9. PICK o \in Operation : RebaseOver(u, operation) = <<o>> /\ Fits(o, t[Len(u)])
    BY <2>7, <2>8, RebaseFits
  <2>10. Rebased(cell, v, operation) = <<o>>
    BY <2>6, <2>9 DEF Rebased
  <2>11. Applicable(o, cell.content)
    BY <2>7, <2>9 DEF Fits
  <2>12. QED
    BY <2>3, <2>10, <2>11 DEF Accepts
<1>2. QED
  BY <1>1, Invariance, EditsFitAlways, PTL

\* CursorsKeepOrder for every alphabet and every cap: two cursors of a user, moved
\* over the same edits, come out in the order they were in and inside the text
\* (resolver.rs:276-289, text.rs:112-143).
THEOREM CursorsKeepOrderAlways == Spec => []CursorsKeepOrder
<1>1. IInv /\ EditsFit => CursorsKeepOrder
  <2> SUFFICES ASSUME IInv, EditsFit, NEW v \in cell.base..cell.version, NEW origin \in User,
                      NEW p \in 0..Len(TextAt(v))
               PROVE  /\ RebasePosition(cell, v, p, origin) \in 0..Len(cell.content)
                      /\ \A q \in 0..p : RebasePosition(cell, v, q, origin)
                                           <= RebasePosition(cell, v, p, origin)
    BY DEF CursorsKeepOrder
  <2>1. /\ cell.base \in Nat /\ Len(cell.history) \in Nat
        /\ cell.version = cell.base + Len(cell.history)
        /\ Len(texts) = cell.version + 1 /\ cell.content = texts[cell.version + 1]
    BY DEF IInv, HistoryIsTail, HistoryReplays, IsSequence, TextAt
  <2>2. TextAt(v) \in Text /\ cell.content \in Text
    BY <2>1 DEF EditsFit, TextAt
  <2>3. Len(TextAt(v)) \in Nat /\ Len(cell.content) \in Nat
    BY <2>2 DEF Text
  <2>4. PICK u : u = Unseen(cell, v)
    OBVIOUS
  <2>5. PICK t : Trail(u, t) /\ t[0] = TextAt(v) /\ t[Len(u)] = cell.content
    BY <2>4, UnseenTrail
  <2>6. (IF v > cell.base THEN v ELSE cell.base) = v
    BY <2>1
  <2>7. \A q : RebasePosition(cell, v, q, origin) = PositionOver(u, q, origin)
    BY <2>4, <2>6 DEF RebasePosition
  <2>8. p \in Nat /\ p <= Len(t[0])
    BY <2>3, <2>5
  <2>9. ASSUME NEW q \in 0..p
        PROVE  /\ PositionOver(u, p, origin) \in Nat
               /\ PositionOver(u, p, origin) <= Len(t[Len(u)])
               /\ PositionOver(u, q, origin) <= PositionOver(u, p, origin)
    <3>1. q \in Nat /\ q <= p
      BY <2>8
    <3>2. QED
      BY <2>5, <2>8, <3>1, PositionsStayInside
  <2>10. p \in 0..p
    BY <2>8
  <2>11. QED
    BY <2>3, <2>5, <2>7, <2>9, <2>10
<1>2. QED
  BY <1>1, Invariance, EditsFitAlways, PTL
====

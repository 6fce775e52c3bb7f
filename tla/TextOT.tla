-------------------------------- MODULE TextOT --------------------------------
(***************************************************************************)
(* Text operations of crates/ot/src/text.rs, a thin wrapper of the         *)
(* OperationSeq type of the operational-transform crate, and the diff the  *)
(* client builds them with (frontend/src/utils/textDiff.ts).               *)
(*                                                                         *)
(* An operation walks over the text it applies to: retain a character,     *)
(* delete a character, or insert one.  The code run-length encodes these   *)
(* components (Retain(3), Delete(2), Insert("ab")); here every component   *)
(* has length one, so an operation is the sequence of its components.      *)
(* Merging neighbours is all the encoding adds.  What matters is kept: an  *)
(* operation has ONE form, in which an insertion always stands before the  *)
(* deletions it is adjacent to (Push).                                     *)
(*                                                                         *)
(* Recursion is written with recursive functions: modules with theorems    *)
(* extend this one.                                                        *)
(***************************************************************************)
EXTENDS Integers, Sequences, FiniteSets, SequencesExt

CONSTANT Char    \* the characters of a text

Retain == "retain"
Delete == "delete"

ASSUME CharAssumption == {Retain, Delete} \cap Char = {}

Component == Char \cup {Retain, Delete}
Text      == Seq(Char)
Operation == Seq(Component)

----------------------------------------------------------------------------
(* Building an operation. *)

\* Appending a component; an insertion moves in front of trailing deletions.
Push(op, c) ==
  IF c \in Char /\ op # <<>> /\ Last(op) = Delete
  THEN LET n == CHOOSE i \in 0..Len(op) :
                  /\ \A j \in i+1..Len(op) : op[j] = Delete
                  /\ i > 0 => op[i] # Delete
       IN  SubSeq(op, 1, n) \o <<c>> \o SubSeq(op, n + 1, Len(op))
  ELSE Append(op, c)

\* The same normal form, built from the front: a deletion moves behind
\* leading insertions.
PushFront(c, op) ==
  IF c = Delete /\ op # <<>> /\ Head(op) \in Char
  THEN LET n == CHOOSE i \in 1..Len(op) :
                  /\ \A j \in 1..i : op[j] \in Char
                  /\ i < Len(op) => op[i + 1] \notin Char
       IN  SubSeq(op, 1, n) \o <<Delete>> \o SubSeq(op, n + 1, Len(op))
  ELSE <<c>> \o op

Times(c, n) == [i \in 1..n |-> c]

InsertTextAt(docLen, start, text) ==
  Times(Retain, start) \o text \o Times(Retain, docLen - start)

DeleteRange(docLen, start, end) ==
  Times(Retain, start) \o Times(Delete, end - start)
                       \o Times(Retain, docLen - end)

BaseLen(op)   == Cardinality({i \in DOMAIN op : op[i] \in {Retain, Delete}})
TargetLen(op) == Cardinality({i \in DOMAIN op : op[i] # Delete})

\* The operation that keeps `prefix` characters at the front and `suffix` at
\* the back of old and replaces the middle by that of new.
Splice(old, new, prefix, suffix) ==
  Times(Retain, prefix)
    \o FoldLeft(Push, Times(Delete, Len(old) - prefix - suffix),
                      SubSeq(new, prefix + 1, Len(new) - suffix))
    \o Times(Retain, suffix)

Shorter(old, new) == IF Len(old) < Len(new) THEN Len(old) ELSE Len(new)

CommonPrefix(old, new) ==
  CHOOSE p \in 0..Shorter(old, new) :
    /\ \A i \in 1..p : old[i] = new[i]
    /\ p < Shorter(old, new) => old[p + 1] # new[p + 1]

CommonSuffix(old, new, limit) ==
  CHOOSE s \in 0..limit :
    /\ \A i \in 0..s-1 : old[Len(old) - i] = new[Len(new) - i]
    /\ s < limit => old[Len(old) - s] # new[Len(new) - s]

\* A slip: the suffix may run into the prefix.
ComputeDiffOverlapping(old, new) ==
  Splice(old, new, CommonPrefix(old, new),
         CommonSuffix(old, new, Shorter(old, new)))

\* computeDiff: the longest common prefix, then the longest common suffix of
\* what is left.
ComputeDiff(old, new) ==
  LET prefix == CommonPrefix(old, new)
  IN  Splice(old, new, prefix,
             CommonSuffix(old, new, Shorter(old, new) - prefix))

----------------------------------------------------------------------------
(* Applying, transforming and composing.  The crate reports an error when  *)
(* the lengths do not fit; callers check Applicable, Transformable and     *)
(* Composable first, which are exactly those conditions.                   *)

\* What is left of a sequence behind its first element.
Rest(s) == SubSeq(s, 2, Len(s))

Applicable(op, text)   == BaseLen(op) = Len(text)
Transformable(a, b)    == BaseLen(a) = BaseLen(b)
Composable(a, b)       == TargetLen(a) = BaseLen(b)

Apply(op, text) ==
  LET run[w \in Operation \X Text] ==
        LET o == w[1]
            t == w[2]
        IN  IF o = <<>> THEN <<>>
            ELSE IF Head(o) = Retain THEN <<Head(t)>> \o run[<<Rest(o), Rest(t)>>]
            ELSE IF Head(o) = Delete THEN run[<<Rest(o), Rest(t)>>]
            ELSE <<Head(o)>> \o run[<<Rest(o), t>>]
  IN  run[<<op, text>>]

Inserts(op) == op # <<>> /\ Head(op) \in Char

\* One round of the loop over two operations: what it adds to aPrime and to
\* bPrime (at most one component each) and how far it moves on in a and in b.
Round(toAPrime, toBPrime, inA, inB) ==
  [aPrime |-> toAPrime, bPrime |-> toBPrime, inA |-> inA, inB |-> inB]

InsertionRound(x, y) ==
  IF Inserts(x) THEN Round(<<Head(x)>>, <<Retain>>, 1, 0)
  ELSE Round(<<Retain>>, <<Head(y)>>, 0, 1)

\* A slip: what one side deletes and the other keeps is in neither operation.
TransformRoundForgetful(x, y) ==
  IF Inserts(x) \/ Inserts(y) THEN InsertionRound(x, y)
  ELSE IF Head(x) = Head(y) /\ Head(x) = Retain
       THEN Round(<<Retain>>, <<Retain>>, 1, 1)
       ELSE Round(<<>>, <<>>, 1, 1)

\* Where both insert at the same place a's text comes first; what one side
\* deletes is no longer there for the other.
TransformRound(x, y) ==
  IF Inserts(x) \/ Inserts(y) THEN InsertionRound(x, y)
  ELSE Round(IF Head(y) = Retain THEN <<Head(x)>> ELSE <<>>,
             IF Head(x) = Retain THEN <<Head(y)>> ELSE <<>>, 1, 1)

\* a and b start from the same text.  aPrime does after b what a does before
\* it, and bPrime does after a what b does before it.
Transform(a, b) ==
  LET emit(component, op) ==
        IF component = <<>> THEN op ELSE PushFront(component[1], op)
      both[w \in Operation \X Operation] ==
        IF w[1] = <<>> /\ w[2] = <<>> THEN [aPrime |-> <<>>, bPrime |-> <<>>]
        ELSE LET r == TransformRound(w[1], w[2])
                 rest == both[<<SubSeq(w[1], 1 + r.inA, Len(w[1])),
                                SubSeq(w[2], 1 + r.inB, Len(w[2]))>>]
             IN  [aPrime |-> emit(r.aPrime, rest.aPrime),
                  bPrime |-> emit(r.bPrime, rest.bPrime)]
  IN  both[<<a, b>>]

\* A slip: a deletion stays although it meets an inserted character.
ComposedPairKeepingDeletes(c, d) ==
  IF d = Retain THEN <<c>> ELSE <<Delete>>

\* What is left of a component c of the first operation when d of the second
\* meets it: a character that is inserted and then deleted leaves nothing.
ComposedPair(c, d) ==
  IF d = Retain THEN <<c>> ELSE IF c = Retain THEN <<Delete>> ELSE <<>>

\* One operation with the effect of a followed by b.
Compose(a, b) ==
  LET comp[w \in Operation \X Operation] ==
        LET x == w[1]
            y == w[2]
        IN  IF x # <<>> /\ Head(x) = Delete
            THEN PushFront(Delete, comp[<<Rest(x), y>>])
            ELSE IF Inserts(y)
            THEN PushFront(Head(y), comp[<<x, Rest(y)>>])
            ELSE IF x = <<>> /\ y = <<>> THEN <<>>
            ELSE LET pair == ComposedPair(Head(x), Head(y))
                     rest == comp[<<Rest(x), Rest(y)>>]
                 IN  IF pair = <<>> THEN rest ELSE PushFront(pair[1], rest)
  IN  comp[<<a, b>>]

\* A slip: text inserted exactly at a cursor pushes it whoever inserted it.
PushesCursorAlways(position, moveOnInsert) == TRUE

PushesCursor(position, moveOnInsert) == moveOnInsert \/ position > 0

\* Where a cursor at `position` stands after op.  Text inserted left of the
\* cursor pushes it; text inserted exactly at it does so only when
\* moveOnInsert says the cursor is the author's.
TransformPosition(position, op, moveOnInsert) ==
  LET walk[w \in Operation \X Nat \X Int] ==
        LET o == w[1]
            pos == w[2]
            new == w[3]
        IN  IF o = <<>> THEN new
            ELSE IF Inserts(o)
            THEN walk[<<Rest(o), pos,
                        IF PushesCursor(pos, moveOnInsert) THEN new + 1 ELSE new>>]
            ELSE IF pos = 0 THEN new
            ELSE walk[<<Rest(o), pos - 1,
                        IF Head(o) = Delete THEN new - 1 ELSE new>>]
  IN  walk[<<op, position, position>>]

===============================================================================

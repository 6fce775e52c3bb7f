----------------------------- MODULE SequenceFacts -----------------------------
(***************************************************************************)
(* Facts about sequences whose elements are of no particular set, from     *)
(* those of the library about Seq(S).                                      *)
(***************************************************************************)
EXTENDS Integers, Sequences, SequenceTheorems, TLAPS

\* A sequence of whatever elements.
IsSequence(s) == Len(s) \in Nat /\ s = [i \in 1..Len(s) |-> s[i]]

LEMMA SequenceOfElements ==
  ASSUME NEW s, IsSequence(s), NEW e
  PROVE  s \in Seq({s[i] : i \in 1..Len(s)} \cup {e})
BY DEF IsSequence

LEMMA SeqIsSequence ==
  ASSUME NEW S, NEW s \in Seq(S)
  PROVE  IsSequence(s)
<1>1. Len(s) \in Nat /\ s \in [1..Len(s) -> S]
  BY LenProperties
<1>2. QED
  BY <1>1 DEF IsSequence

LEMMA AppendIsSequence ==
  ASSUME NEW s, IsSequence(s), NEW e
  PROVE  /\ IsSequence(Append(s, e))
         /\ Len(Append(s, e)) = Len(s) + 1
         /\ \A i \in 1..Len(s) : Append(s, e)[i] = s[i]
         /\ Append(s, e)[Len(s) + 1] = e
<1> DEFINE S == {s[i] : i \in 1..Len(s)} \cup {e}
<1>1. s \in Seq(S) /\ e \in S
  BY SequenceOfElements
<1> HIDE DEF S
<1>2. Append(s, e) \in Seq(S)
  BY <1>1
<1>3. IsSequence(Append(s, e))
  BY <1>2, SeqIsSequence
<1>4. /\ Len(Append(s, e)) = Len(s) + 1
      /\ \A i \in 1..Len(s) : Append(s, e)[i] = s[i]
      /\ Append(s, e)[Len(s) + 1] = e
  BY <1>1
<1>5. QED
  BY <1>3, <1>4

LEMMA TailIsSequence ==
  ASSUME NEW s, IsSequence(s), Len(s) > 0
  PROVE  /\ IsSequence(Tail(s))
         /\ Len(Tail(s)) = Len(s) - 1
         /\ \A i \in 1..Len(s) - 1 : Tail(s)[i] = s[i + 1]
<1> DEFINE S == {s[i] : i \in 1..Len(s)} \cup {s}
<1>1. s \in Seq(S) /\ s # <<>>
  BY SequenceOfElements DEF IsSequence
<1> HIDE DEF S
<1>2. Tail(s) \in Seq(S)
  BY <1>1
<1>3. IsSequence(Tail(s))
  BY <1>2, SeqIsSequence
<1>4. /\ Len(Tail(s)) = Len(s) - 1
      /\ \A i \in 1..Len(s) - 1 : Tail(s)[i] = s[i + 1]
  BY <1>1
<1>5. QED
  BY <1>3, <1>4

LEMMA HeadOfSequence ==
  ASSUME NEW s, IsSequence(s), s # <<>>
  PROVE  Len(s) \in Nat /\ Len(s) > 0 /\ Head(s) = s[1]
<1> DEFINE S == {s[i] : i \in 1..Len(s)} \cup {s}
<1>1. s \in Seq(S)
  BY SequenceOfElements
<1> HIDE DEF S
<1>2. Len(s) \in Nat /\ Len(s) > 0
  BY <1>1, LenProperties, EmptySeq
<1>3. Head(s) = s[1]
  BY <1>1, HeadTailProperties
<1>4. QED
  BY <1>2, <1>3

LEMMA SubSeqOfSequence ==
  ASSUME NEW s, IsSequence(s), NEW m \in 1..Len(s) + 1
  PROVE  /\ IsSequence(SubSeq(s, m, Len(s)))
         /\ Len(SubSeq(s, m, Len(s))) = Len(s) - m + 1
         /\ \A i \in 1..Len(s) - m + 1 : SubSeq(s, m, Len(s))[i] = s[m + i - 1]
<1> DEFINE S == {s[i] : i \in 1..Len(s)} \cup {s}
<1>1. s \in Seq(S)
  BY SequenceOfElements
<1>2. Len(s) \in Nat
  BY DEF IsSequence
<1> HIDE DEF S
<1>3. Len(s) \in m-1..Len(s)
  BY <1>2
<1>4. /\ SubSeq(s, m, Len(s)) \in Seq(S)
      /\ Len(SubSeq(s, m, Len(s))) = Len(s) - m + 1
      /\ \A i \in 1..Len(s) - m + 1 : SubSeq(s, m, Len(s))[i] = s[m + i - 1]
  BY <1>1, <1>3, SubSeqProperties
<1>5. QED
  BY <1>4, SeqIsSequence

\* The same piece of a sequence and of its end.
LEMMA EndsAgree ==
  ASSUME NEW h, NEW p, IsSequence(h), IsSequence(p),
         NEW base \in Nat, Len(p) = base + Len(h),
         \A i \in 1..Len(h) : h[i] = p[base + i],
         NEW v \in base..Len(p)
  PROVE  SubSeq(h, v - base + 1, Len(h)) = SubSeq(p, v + 1, Len(p))
<1> DEFINE m == v - base + 1
           n == v + 1
           a == SubSeq(h, m, Len(h))
           b == SubSeq(p, n, Len(p))
<1>1. Len(h) \in Nat /\ Len(p) \in Nat
  BY DEF IsSequence
<1>2. m \in 1..Len(h) + 1 /\ n \in 1..Len(p) + 1
  BY <1>1
<1>3. m \in Nat /\ n = m + base /\ Len(h) - m + 1 = Len(p) - n + 1
  BY <1>1, <1>2
<1> HIDE DEF m, n
<1>4. /\ IsSequence(a) /\ Len(a) = Len(h) - m + 1
      /\ \A i \in 1..Len(h) - m + 1 : a[i] = h[m + i - 1]
  BY <1>2, SubSeqOfSequence
<1>5. /\ IsSequence(b) /\ Len(b) = Len(p) - n + 1
      /\ \A i \in 1..Len(p) - n + 1 : b[i] = p[n + i - 1]
  BY <1>2, SubSeqOfSequence
<1> HIDE DEF a, b
<1>6. Len(a) = Len(b)
  BY <1>3, <1>4, <1>5
<1>7. ASSUME NEW i \in 1..Len(a)
      PROVE  a[i] = b[i]
  <2>1. m + i - 1 \in 1..Len(h) /\ base + (m + i - 1) = n + i - 1
    BY <1>1, <1>2, <1>3, <1>4
  <2>2. h[m + i - 1] = p[n + i - 1]
    BY <2>1
  <2>3. QED
    BY <1>3, <1>4, <1>5, <2>2
<1>8. a = [i \in 1..Len(a) |-> a[i]] /\ b = [i \in 1..Len(a) |-> b[i]]
  BY <1>4, <1>5, <1>6 DEF IsSequence
<1>9. [i \in 1..Len(a) |-> a[i]] = [i \in 1..Len(a) |-> b[i]]
  BY <1>7
<1>10. QED
  BY <1>8, <1>9 DEF a, b, m, n

===============================================================================

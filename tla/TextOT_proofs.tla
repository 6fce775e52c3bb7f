------------------------------- MODULE TextOT_proofs -------------------------------
(***************************************************************************)
(* What the text operators compute, for every text and every operation:    *)
(*   - whichever of two edits of a text is made first, the other one,      *)
(*     transformed, leads to the same text (Transformation: text.rs:93-99) *)
(*   - a composition does what its parts do one after the other            *)
(*     (Composition: text.rs:102-104)                                      *)
(*   - the difference of two texts turns the one into the other            *)
(*     (DiffExact: textDiff.ts:3-44)                                       *)
(*   - a cursor counts the characters left of it that an edit leaves, so   *)
(*     cursors keep their order and stay inside the text                   *)
(*     (PositionCounts, PositionsOrderly: text.rs:112-143)                 *)
(* and with them the four invariants of TextOTCheck.  They hold of the     *)
(* operations clients make, of any length; TextOTCheck tries those of      *)
(* short texts.  At the end, what the history of a cell makes of operations*)
(* and positions (resolver.rs:236-289), for the modules about cells.       *)
(*                                                                         *)
(* The operators are recursive functions and folds.  Induction over data:  *)
(* a set of sequences that has the empty one, and every longer one with a  *)
(* shorter one, has all of them (SequenceInduction).                       *)
(***************************************************************************)
EXTENDS TextOTCheck, CellState, SequenceFacts, WellFoundedInduction, FiniteSetTheorems

----------------------------------------------------------------------------
(* Induction and recursion. *)

\* A set of numbers has a least one.
LEMMA LeastNumber ==
  ASSUME NEW S \in SUBSET Nat, S # {}
  PROVE  \E n \in S : \A k \in S : n <= k
<1>1. PICK R : R = StrictSubsetOrdering(Nat)
  OBVIOUS
<1>2. IsWellFoundedOn(R, FiniteSubsetsOf(Nat))
  BY <1>1, FS_StrictSubsetOrderingWellFounded
<1>3. PICK T : T = {1..n : n \in S}
  OBVIOUS
<1>4. \A n \in Nat : 1..n \in FiniteSubsetsOf(Nat)
  BY FS_Interval DEF FiniteSubsetsOf
<1>5. T \subseteq FiniteSubsetsOf(Nat) /\ T # {}
  BY <1>3, <1>4
<1>6. PICK x \in T : \A y \in T : <<y, x>> \notin R
  BY <1>2, <1>5, WFMin
<1>7. PICK n \in S : x = 1..n
  BY <1>3, <1>6
<1>8. ASSUME NEW k \in S, k < n PROVE FALSE
  <2>1. 1..k \in T /\ 1..k \subseteq 1..n /\ n \in 1..n /\ n \notin 1..k
    BY <1>3, <1>8
  <2>2. <<1..k, 1..n>> \in R
    BY <1>1, <1>4, <1>7, <2>1 DEF StrictSubsetOrdering
  <2>3. QED
    BY <1>6, <1>7, <2>1, <2>2
<1>9. QED
  BY <1>7, <1>8

\* Induction over numbers, for a set of them.
LEMMA Induction ==
  ASSUME NEW S \in SUBSET Nat, 0 \in S, \A n \in S : n + 1 \in S
  PROVE  S = Nat
<1> SUFFICES ASSUME Nat \ S # {} PROVE FALSE
  OBVIOUS
<1>1. PICK n \in Nat \ S : \A k \in Nat \ S : n <= k
  BY LeastNumber
<1>2. n # 0 /\ n - 1 \in Nat /\ ~(n <= n - 1)
  OBVIOUS
<1>3. n - 1 \in S
  BY <1>1, <1>2
<1>4. QED
  BY <1>2, <1>3

\* F says what a function from S to T is at an element, given the function at
\* smaller ones.
Recursion(S, T, size, F) ==
  /\ T # {} /\ size \in [S -> Nat]
  /\ F \in [S \X [S -> T] -> T]
  /\ \A x \in S, g, h \in [S -> T] :
       (\A y \in S : size[y] < size[x] => g[y] = h[y])
         => F[<<x, g>>] = F[<<x, h>>]

\* What a recursion defines is there.
LEMMA RecursiveFunction ==
  ASSUME NEW S, NEW T, NEW size, NEW F, Recursion(S, T, size, F)
  PROVE  \E g \in [S -> T] : \A x \in S : g[x] = F[<<x, g>>]
<1> USE DEF Recursion
<1> DEFINE Sound(g, n) == /\ g \in [S -> T]
                          /\ \A x \in S : size[x] < n => g[x] = F[<<x, g>>]
<1>1. \A n \in Nat : \E g : Sound(g, n)
  <2> DEFINE A == {n \in Nat : \E g : Sound(g, n)}
  <2>1. 0 \in A
    <3>1. PICK t \in T : TRUE
      OBVIOUS
    <3>2. Sound([x \in S |-> t], 0)
      OBVIOUS
    <3>3. QED
      BY <3>2
  <2>2. ASSUME NEW n \in A PROVE n + 1 \in A
    <3>1. PICK g : Sound(g, n)
      OBVIOUS
    <3> DEFINE h == [x \in S |-> F[<<x, g>>]]
    <3>2. h \in [S -> T]
      BY <3>1
    <3>3. ASSUME NEW x \in S, size[x] < n + 1
          PROVE  h[x] = F[<<x, h>>]
      <4>1. \A y \in S : size[y] < size[x] => g[y] = h[y]
        BY <3>1, <3>3
      <4>2. F[<<x, g>>] = F[<<x, h>>]
        BY <3>1, <3>2, <4>1
      <4>3. QED
        BY <4>2
    <3>4. Sound(h, n + 1)
      BY <3>2, <3>3
    <3> HIDE DEF h, Sound
    <3>5. \E k : Sound(k, n + 1)
      BY <3>4
    <3>6. QED
      BY <3>5
  <2>3. A = Nat
    <3> HIDE DEF A
    <3>1. A \in SUBSET Nat
      BY DEF A
    <3>2. QED
      BY <2>1, <2>2, <3>1, Induction
  <2>4. QED
    BY <2>3
<1> HIDE DEF Sound
<1>2. ASSUME NEW g, NEW h, NEW n \in Nat, NEW m \in Nat, Sound(g, n), Sound(h, m)
      PROVE  \A x \in S : size[x] < n /\ size[x] < m => g[x] = h[x]
  <2> DEFINE A == {k \in Nat : \A x \in S :
                     size[x] < k /\ size[x] < n /\ size[x] < m => g[x] = h[x]}
  <2>1. 0 \in A
    OBVIOUS
  <2>2. ASSUME NEW k \in A PROVE k + 1 \in A
    <3>1. ASSUME NEW x \in S, size[x] < k + 1, size[x] < n, size[x] < m
          PROVE  g[x] = h[x]
      <4>1. \A y \in S : size[y] < size[x] => g[y] = h[y]
        BY <3>1
      <4>2. g \in [S -> T] /\ h \in [S -> T] /\ g[x] = F[<<x, g>>] /\ h[x] = F[<<x, h>>]
        BY <1>2, <3>1 DEF Sound
      <4>3. QED
        BY <4>1, <4>2
    <3>2. QED
      BY <3>1
  <2>3. A = Nat
    <3> HIDE DEF A
    <3>1. A \in SUBSET Nat
      BY DEF A
    <3>2. QED
      BY <2>1, <2>2, <3>1, Induction
  <2>4. ASSUME NEW x \in S, size[x] < n, size[x] < m PROVE g[x] = h[x]
    <3>1. size[x] + 1 \in A
      BY <2>3
    <3>2. QED
      BY <2>4, <3>1
  <2>5. QED
    BY <2>4
<1> DEFINE H(x) == CHOOSE h : Sound(h, size[x] + 1)
           g == [x \in S |-> H(x)[x]]
<1>3. ASSUME NEW x \in S PROVE Sound(H(x), size[x] + 1)
  <2>1. size[x] + 1 \in Nat
    OBVIOUS
  <2>2. QED
    BY <1>1, <2>1
<1> HIDE DEF H
<1>4. g \in [S -> T]
  BY <1>3 DEF Sound
<1>5. ASSUME NEW x \in S PROVE g[x] = F[<<x, g>>]
  <2>0. size[x] < size[x] + 1
    OBVIOUS
  <2>1. H(x) \in [S -> T] /\ H(x)[x] = F[<<x, H(x)>>]
    BY <1>3, <2>0 DEF Sound
  <2>2. ASSUME NEW y \in S, size[y] < size[x] PROVE H(x)[y] = g[y]
    <3>1. Sound(H(x), size[x] + 1) /\ Sound(H(y), size[y] + 1)
      BY <1>3
    <3>2. QED
      BY <1>2, <2>2, <3>1
  <2>3. F[<<x, H(x)>>] = F[<<x, g>>]
    BY <1>4, <2>1, <2>2
  <2>4. QED
    BY <2>1, <2>3
<1>6. QED
  BY <1>4, <1>5

LEMMA RestOf ==
  ASSUME NEW S, NEW s \in Seq(S), s # <<>>
  PROVE  /\ Rest(s) \in Seq(S) /\ Len(Rest(s)) = Len(s) - 1
         /\ Head(s) \in S
         /\ s = <<Head(s)>> \o Rest(s)
<1>1. Len(s) \in Nat /\ Len(s) > 0 /\ s \in [1..Len(s) -> S]
  BY EmptySeq, LenProperties
<1>2. Rest(s) \in Seq(S) /\ Len(Rest(s)) = Len(s) - 1
  BY <1>1, SubSeqProperties DEF Rest
<1>3. Head(s) = s[1] /\ Head(s) \in S
  BY <1>1
<1>4. SubSeq(s, 1, Len(s)) = <<s[1]>> \o SubSeq(s, 2, Len(s))
  <2>1. 1 \in 1..Len(s) /\ Len(s) \in 1..Len(s)
    BY <1>1
  <2>2. SubSeq(s, 1, Len(s)) = <<s[1]>> \o SubSeq(s, 1 + 1, Len(s))
    BY <2>1, SubSeqRecursiveFirst
  <2>3. QED
    BY <2>2
<1>5. SubSeq(s, 1, Len(s)) = s
  BY SubSeqFull
<1>6. QED
  BY <1>2, <1>3, <1>4, <1>5 DEF Rest

LEMMA RestOfEmpty == Rest(<<>>) = <<>>
BY DEF Rest

LEMMA ConsOf ==
  ASSUME NEW S, NEW s \in Seq(S), NEW c \in S
  PROVE  /\ <<c>> \o s \in Seq(S) /\ <<c>> \o s # <<>>
         /\ Len(<<c>> \o s) = Len(s) + 1
         /\ Head(<<c>> \o s) = c /\ Rest(<<c>> \o s) = s
         /\ \A i \in 1..Len(s) : (<<c>> \o s)[i + 1] = s[i]
<1>1. PICK h : h = <<c>>
  OBVIOUS
<1>2. h \in Seq(S) /\ Len(h) = 1 /\ h[1] = c
  BY <1>1
<1>3. PICK n, r : n = Len(s) /\ r = h \o s
  OBVIOUS
<1>4. n \in Nat
  BY <1>3
<1>5. /\ h \o s \in Seq(S) /\ Len(h \o s) = Len(h) + Len(s)
      /\ \A i \in 1..Len(h) + Len(s) :
           (h \o s)[i] = IF i <= Len(h) THEN h[i] ELSE s[i - Len(h)]
  BY <1>2, ConcatProperties
<1>6. /\ r \in Seq(S) /\ Len(r) = n + 1
      /\ \A i \in 1..n + 1 : r[i] = IF i <= 1 THEN h[i] ELSE s[i - 1]
  BY <1>2, <1>3, <1>4, <1>5
<1>7. r # <<>> /\ r[1] = c /\ Head(r) = c
  BY <1>2, <1>4, <1>6, EmptySeq
<1>8. Rest(r) \in Seq(S) /\ r = h \o Rest(r)
  BY <1>1, <1>6, <1>7, RestOf
<1>9. Rest(r) = s
  BY <1>2, <1>3, <1>8, ConcatSimplifications
<1>10. \A i \in 1..n : r[i + 1] = s[i]
  BY <1>4, <1>6
<1>11. QED
  BY <1>1, <1>3, <1>6, <1>7, <1>9, <1>10

\* Induction over sequences, for a set of them.
LEMMA SequenceInduction ==
  ASSUME NEW S, NEW P \in SUBSET Seq(S), <<>> \in P,
         \A s \in P, c \in S : <<c>> \o s \in P
  PROVE  P = Seq(S)
<1> DEFINE A == {n \in Nat : \A s \in Seq(S) : Len(s) = n => s \in P}
<1>1. 0 \in A
  BY EmptySeq
<1>2. ASSUME NEW n \in A PROVE n + 1 \in A
  <2>1. ASSUME NEW s \in Seq(S), Len(s) = n + 1 PROVE s \in P
    <3>1. s # <<>>
      BY <2>1
    <3>2. Rest(s) \in Seq(S) /\ Len(Rest(s)) = Len(s) - 1 /\ Head(s) \in S
            /\ s = <<Head(s)>> \o Rest(s)
      BY <3>1, RestOf
    <3>3. Rest(s) \in P
      BY <2>1, <3>2
    <3>4. QED
      BY <3>2, <3>3
  <2>2. QED
    BY <2>1
<1>3. A = Nat
  <2> HIDE DEF A
  <2>1. A \in SUBSET Nat
    BY DEF A
  <2>2. QED
    BY <1>1, <1>2, <2>1, Induction
<1>4. \A s \in Seq(S) : Len(s) \in Nat
  OBVIOUS
<1>5. QED
  BY <1>3, <1>4

LEMMA ConcatAssoc ==
  ASSUME NEW S, NEW a \in Seq(S), NEW b \in Seq(S), NEW c \in Seq(S)
  PROVE  (a \o b) \o c = a \o (b \o c)
BY ConcatAssociative

LEMMA ConcatEmpty ==
  ASSUME NEW S, NEW a \in Seq(S)
  PROVE  a \o <<>> = a /\ <<>> \o a = a
BY ConcatEmptySeq

----------------------------------------------------------------------------
(* Lengths, and applying an operation (text.rs:75-77, 80-88). *)

\* How many elements of s are in D.
Count(s, D) == Cardinality({i \in DOMAIN s : s[i] \in D})

LEMMA CountEmpty == \A D : Count(<<>>, D) = 0
<1> SUFFICES ASSUME NEW D PROVE Count(<<>>, D) = 0
  OBVIOUS
<1>1. {i \in DOMAIN <<>> : <<>>[i] \in D} = {}
  OBVIOUS
<1>2. QED
  BY <1>1, FS_EmptySet DEF Count

LEMMA CountCons ==
  ASSUME NEW S, NEW s \in Seq(S), NEW c \in S, NEW D
  PROVE  /\ Count(s, D) \in Nat
         /\ Count(<<c>> \o s, D) = Count(s, D) + IF c \in D THEN 1 ELSE 0
<1>1. PICK r, n : r = <<c>> \o s /\ n = Len(s)
  OBVIOUS
<1>2. /\ r \in Seq(S) /\ Len(r) = n + 1 /\ Head(r) = c /\ n \in Nat
      /\ \A i \in 1..n : r[i + 1] = s[i]
  BY <1>1, ConsOf
<1>3. DOMAIN s = 1..n /\ DOMAIN r = 1..n + 1 /\ r[1] = c
  BY <1>1, <1>2
<1>4. PICK A : A = {i \in 1..n : s[i] \in D}
  OBVIOUS
<1>5. PICK B : B = {i \in 2..n + 1 : r[i] \in D}
  OBVIOUS
<1>6. IsFiniteSet(A)
  <2>1. IsFiniteSet(1..n) /\ A \in SUBSET (1..n)
    BY <1>2, <1>4, FS_Interval
  <2>2. QED
    BY <2>1, FS_Subset
<1>7. ExistsBijection(A, B)
  <2> DEFINE f == [i \in A |-> i + 1]
  <2>1. f \in [A -> B]
    BY <1>2, <1>4, <1>5
  <2>2. \A i, j \in A : f[i] = f[j] => i = j
    BY <1>4
  <2>3. \A k \in B : k - 1 \in A /\ f[k - 1] = k
    <3>1. ASSUME NEW k \in B PROVE k - 1 \in 1..n /\ r[k] = s[k - 1] /\ r[k] \in D
      <4>1. k \in 2..n + 1 /\ r[k] \in D /\ k - 1 \in 1..n /\ k = (k - 1) + 1
        BY <1>2, <1>5
      <4>2. QED
        BY <1>2, <4>1
    <3>2. \A k \in B : k - 1 \in A /\ k \in Int
      BY <1>4, <1>5, <3>1
    <3>3. QED
      BY <3>2
  <2>4. f \in Injection(A, B) /\ f \in Surjection(A, B)
    <3> HIDE DEF f
    <3>1. f \in Injection(A, B)
      BY <2>1, <2>2 DEF Injection, IsInjective
    <3>2. \A k \in B : \E i \in A : f[i] = k
      BY <2>3
    <3>3. f \in Surjection(A, B)
      BY <2>1, <3>2 DEF Surjection
    <3>4. QED
      BY <3>1, <3>3
  <2>5. QED
    BY <2>4 DEF ExistsBijection, Bijection
<1>8. IsFiniteSet(B) /\ Cardinality(B) = Cardinality(A) /\ Cardinality(A) \in Nat
  BY <1>6, <1>7, FS_Bijection, FS_CardinalityType
<1>9. {i \in 1..n + 1 : r[i] \in D} = IF c \in D THEN B \cup {1} ELSE B
  <2>1. 1..n + 1 = (2..n + 1) \cup {1}
    BY <1>2
  <2>2. QED
    BY <1>3, <1>5, <2>1
<1>10. 1 \notin B
  BY <1>2, <1>5
<1>11. Cardinality(B \cup {1}) = Cardinality(B) + 1
  BY <1>8, <1>10, FS_AddElement
<1>12. Count(s, D) = Cardinality(A)
  BY <1>3, <1>4 DEF Count
<1>13. Count(r, D) = Cardinality(IF c \in D THEN B \cup {1} ELSE B)
  BY <1>3, <1>9 DEF Count
<1>14. CASE c \in D
  BY <1>1, <1>8, <1>11, <1>12, <1>13, <1>14
<1>15. CASE c \notin D
  BY <1>1, <1>8, <1>12, <1>13, <1>15
<1>16. QED
  BY <1>14, <1>15

LEMMA BaseLenCons ==
  ASSUME NEW o \in Operation, NEW c \in Component
  PROVE  /\ BaseLen(o) \in Nat
         /\ BaseLen(<<c>> \o o) = BaseLen(o) + IF c \in Char THEN 0 ELSE 1
         /\ TargetLen(o) \in Nat
         /\ TargetLen(<<c>> \o o) = TargetLen(o) + IF c = Delete THEN 0 ELSE 1
<1>1. PICK r : r = <<c>> \o o
  OBVIOUS
<1>2. o \in Seq(Component) /\ r \in Seq(Component)
  BY <1>1, ConsOf DEF Operation
<1>3. BaseLen(o) = Count(o, {Retain, Delete}) /\ BaseLen(r) = Count(r, {Retain, Delete})
  BY DEF BaseLen, Count
<1>4. ASSUME NEW u \in Seq(Component)
      PROVE  TargetLen(u) = Count(u, Component \ {Delete})
  <2>1. \A i \in DOMAIN u : u[i] \in Component
    BY <1>4
  <2>2. {i \in DOMAIN u : u[i] # Delete} = {i \in DOMAIN u : u[i] \in Component \ {Delete}}
    BY <2>1
  <2>3. QED
    BY <2>2 DEF TargetLen, Count
<1>5. /\ Count(o, {Retain, Delete}) \in Nat
      /\ Count(r, {Retain, Delete})
           = Count(o, {Retain, Delete}) + IF c \in {Retain, Delete} THEN 1 ELSE 0
  BY <1>1, <1>2, CountCons
<1>6. /\ Count(o, Component \ {Delete}) \in Nat
      /\ Count(r, Component \ {Delete})
           = Count(o, Component \ {Delete}) + IF c \in Component \ {Delete} THEN 1 ELSE 0
  BY <1>1, <1>2, CountCons
<1>7. c \in {Retain, Delete} <=> c \notin Char
  BY CharAssumption DEF Component
<1>8. BaseLen(o) \in Nat /\ BaseLen(r) = BaseLen(o) + IF c \in Char THEN 0 ELSE 1
  BY <1>3, <1>5, <1>7
<1>9. TargetLen(o) \in Nat /\ TargetLen(r) = TargetLen(o) + IF c = Delete THEN 0 ELSE 1
  BY <1>2, <1>4, <1>6
<1>10. QED
  BY <1>1, <1>8, <1>9

Beyond == Char \cup {Head(<<>>)}

LEMMA HeadOfAny ==
  ASSUME NEW S, NEW s \in Seq(S)
  PROVE  Head(s) \in S \cup {Head(<<>>)}
<1>1. CASE s = <<>>
  BY <1>1
<1>2. CASE s # <<>>
  BY <1>2, RestOf
<1>3. QED
  BY <1>1, <1>2

LEMMA RestOfAny ==
  ASSUME NEW S, NEW s \in Seq(S)
  PROVE  /\ Rest(s) \in Seq(S)
         /\ Len(s) \in Nat
         /\ Len(Rest(s)) = IF s = <<>> THEN 0 ELSE Len(s) - 1
<1>1. CASE s = <<>>
  BY <1>1, RestOfEmpty, EmptySeq
<1>2. CASE s # <<>>
  BY <1>2, RestOf, LenProperties
<1>3. QED
  BY <1>1, <1>2

\* Apply, one component after the other.
LEMMA ApplySteps ==
    \A o \in Operation, t \in Text :
      Apply(o, t) = IF o = <<>> THEN <<>>
                       ELSE IF Head(o) = Retain THEN <<Head(t)>> \o Apply(Rest(o), Rest(t))
                       ELSE IF Head(o) = Delete THEN Apply(Rest(o), Rest(t))
                       ELSE <<Head(o)>> \o Apply(Rest(o), t)
<1> DEFINE S == Operation \X Text
           T == Seq(Beyond)
           step(w, g) ==
             IF w[1] = <<>> THEN <<>>
             ELSE IF Head(w[1]) = Retain THEN <<Head(w[2])>> \o g[<<Rest(w[1]), Rest(w[2])>>]
             ELSE IF Head(w[1]) = Delete THEN g[<<Rest(w[1]), Rest(w[2])>>]
             ELSE <<Head(w[1])>> \o g[<<Rest(w[1]), w[2]>>]
           size == [w \in S |-> Len(w[1])]
           F == [x \in S \X [S -> T] |-> step(x[1], x[2])]
<1>1. ASSUME NEW w \in S, w[1] # <<>>
      PROVE  /\ <<Rest(w[1]), Rest(w[2])>> \in S /\ <<Rest(w[1]), w[2]>> \in S
             /\ size[<<Rest(w[1]), Rest(w[2])>>] < size[w]
             /\ size[<<Rest(w[1]), w[2]>>] < size[w]
             /\ Head(w[1]) \in Component
             /\ Head(w[2]) \in Beyond
  <2>1. w[1] \in Seq(Component) /\ w[2] \in Seq(Char)
    BY DEF Operation, Text
  <2>2. /\ Rest(w[1]) \in Seq(Component) /\ Rest(w[2]) \in Seq(Char)
        /\ Len(Rest(w[1])) = Len(w[1]) - 1 /\ Len(w[1]) \in Nat
        /\ Head(w[1]) \in Component
    BY <1>1, <2>1, RestOf, RestOfAny
  <2>3. Head(w[2]) \in Beyond
    BY <2>1, HeadOfAny DEF Beyond
  <2>4. Len(w[1]) - 1 < Len(w[1])
    BY <2>2
  <2>5. QED
    BY <2>1, <2>2, <2>3, <2>4 DEF Operation, Text
<1>2. T # {} /\ size \in [S -> Nat]
  <2>1. <<>> \in T
    OBVIOUS
  <2>2. \A w \in S : Len(w[1]) \in Nat
    BY DEF Operation
  <2>3. QED
    BY <2>1, <2>2
<1>3. \A c \in Beyond, s \in T : <<c>> \o s \in T
  OBVIOUS
<1>4. \A w \in S, g \in [S -> T] : step(w, g) \in T
  <2> SUFFICES ASSUME NEW w \in S, NEW g \in [S -> T] PROVE step(w, g) \in T
    OBVIOUS
  <2>1. CASE w[1] = <<>>
    BY <2>1
  <2>2. CASE w[1] # <<>>
    <3>1. PICK c, d, p, q : /\ p = <<Rest(w[1]), Rest(w[2])>> /\ q = <<Rest(w[1]), w[2]>>
                      /\ c = Head(w[1]) /\ d = Head(w[2])
      OBVIOUS
    <3>2. p \in S /\ q \in S /\ c \in Component /\ d \in Beyond
      BY <1>1, <2>2, <3>1
    <3>3. g[p] \in T /\ g[q] \in T
      BY <3>2
    <3>4. c \notin {Retain, Delete} => c \in Beyond
      BY <3>2 DEF Component, Beyond
    <3>5. step(w, g) = IF c = Retain THEN <<d>> \o g[p] ELSE IF c = Delete THEN g[p]
                       ELSE <<c>> \o g[q]
      BY <2>2, <3>1
    <3> HIDE DEF T, S, step
    <3>6. QED
      BY <1>3, <3>2, <3>3, <3>4, <3>5
  <2>3. QED
    BY <2>1, <2>2
<1>5. F \in [S \X [S -> T] -> T]
  <2> HIDE DEF step, T, S
  <2>1. QED
    BY <1>4
<1>6. \A w \in S, g, h \in [S -> T] :
         (\A y \in S : size[y] < size[w] => g[y] = h[y]) => step(w, g) = step(w, h)
  <2> HIDE DEF size
  <2>1. QED
    BY <1>1
<1>7. \A w \in S, g, h \in [S -> T] :
         (\A y \in S : size[y] < size[w] => g[y] = h[y]) => F[<<w, g>>] = F[<<w, h>>]
  <2> HIDE DEF step, T, S, size
  <2>1. \A w \in S, g \in [S -> T] : F[<<w, g>>] = step(w, g)
    OBVIOUS
  <2>2. QED
    BY <1>6, <2>1
<1>8. PICK g \in [S -> T] : \A w \in S : g[w] = F[<<w, g>>]
  <2>1. Recursion(S, T, size, F)
    <3> HIDE DEF S, T, size, F
    <3>1. QED
      BY <1>2, <1>5, <1>7 DEF Recursion
  <2> HIDE DEF S, T, size, F
  <2>2. QED
    BY <2>1, RecursiveFunction
<1>9. g = [w \in S |-> step(w, g)]
  <2> HIDE DEF step, T, S
  <2>1. \A w \in S : g[w] = step(w, g)
    BY <1>8
  <2>2. QED
    BY <2>1
<1>10. PICK run : run = CHOOSE f : f = [w \in S |-> step(w, f)]
  OBVIOUS
<1>11. run = [w \in S |-> step(w, run)]
  BY <1>9, <1>10
<1>12. \A o \in Operation, t \in Text : Apply(o, t) = run[<<o, t>>]
  <2>1. ASSUME NEW o \in Operation, NEW t \in Text
        PROVE  Apply(o, t) = (CHOOSE f : f = [w \in S |-> step(w, f)])[<<o, t>>]
    BY DEF Apply
  <2>2. QED
    BY <2>1, <1>10
<1>13. ASSUME NEW o \in Operation, NEW t \in Text
       PROVE  Apply(o, t) = IF o = <<>> THEN <<>>
                       ELSE IF Head(o) = Retain THEN <<Head(t)>> \o Apply(Rest(o), Rest(t))
                       ELSE IF Head(o) = Delete THEN Apply(Rest(o), Rest(t))
                       ELSE <<Head(o)>> \o Apply(Rest(o), t)
  <2>1. PICK w : w = <<o, t>>
    OBVIOUS
  <2>2. w \in S /\ w[1] = o /\ w[2] = t
    BY <2>1
  <2>3. run[w] = step(w, run)
    BY <1>11, <2>2
  <2>4. Rest(o) \in Operation /\ Rest(t) \in Text
    BY RestOfAny DEF Operation, Text
  <2>5. /\ Apply(o, t) = run[w]
        /\ Apply(Rest(o), t) = run[<<Rest(o), t>>]
        /\ Apply(Rest(o), Rest(t)) = run[<<Rest(o), Rest(t)>>]
    BY <1>12, <2>1, <2>4
  <2>6. QED
    BY <2>2, <2>3, <2>5
<1>14. QED
  BY <1>13

LEMMA ComponentKinds ==
  /\ Retain # Delete /\ Retain \in Component /\ Delete \in Component
  /\ Char \subseteq Component
  /\ \A c \in Char : c # Retain /\ c # Delete
  /\ \A c \in Component : c \in Char \/ c = Retain \/ c = Delete
BY CharAssumption DEF Component, Retain, Delete

LEMMA ConsOfOperation ==
  ASSUME NEW o \in Operation, NEW c \in Component
  PROVE  /\ <<c>> \o o \in Operation /\ <<c>> \o o # <<>>
         /\ Len(<<c>> \o o) = Len(o) + 1
         /\ Head(<<c>> \o o) = c /\ Rest(<<c>> \o o) = o
BY ConsOf DEF Operation

LEMMA ConsOfText ==
  ASSUME NEW t \in Text, NEW ch \in Char
  PROVE  /\ <<ch>> \o t \in Text /\ <<ch>> \o t # <<>>
         /\ Len(<<ch>> \o t) = Len(t) + 1
         /\ Head(<<ch>> \o t) = ch /\ Rest(<<ch>> \o t) = t
BY ConsOf DEF Text

LEMMA EmptyOnes ==
  /\ <<>> \in Operation /\ <<>> \in Text /\ Len(<<>>) = 0
  /\ BaseLen(<<>>) = 0 /\ TargetLen(<<>>) = 0
<1>1. \A D : {i \in DOMAIN <<>> : <<>>[i] \in D} = {} /\ {i \in DOMAIN <<>> : <<>>[i] # D} = {}
  OBVIOUS
<1>2. QED
  BY <1>1, FS_EmptySet DEF BaseLen, TargetLen, Operation, Text

LEMMA OperationCases ==
  ASSUME NEW o \in Operation
  PROVE  \/ o = <<>>
         \/ \E c \in Component, u \in Operation : o = <<c>> \o u /\ Len(o) = Len(u) + 1
<1> SUFFICES ASSUME o # <<>>
             PROVE  \E c \in Component, u \in Operation : o = <<c>> \o u /\ Len(o) = Len(u) + 1
  OBVIOUS
<1>1. Head(o) \in Component /\ Rest(o) \in Operation /\ o = <<Head(o)>> \o Rest(o)
  BY RestOf DEF Operation
<1>2. Len(<<Head(o)>> \o Rest(o)) = Len(Rest(o)) + 1
  BY <1>1, ConsOfOperation
<1>3. QED
  BY <1>1, <1>2

LEMMA TextCases ==
  ASSUME NEW t \in Text
  PROVE  /\ Len(t) \in Nat /\ (Len(t) = 0 <=> t = <<>>)
         /\ \/ t = <<>>
            \/ \E ch \in Char, u \in Text : t = <<ch>> \o u /\ Len(t) = Len(u) + 1
<1>1. Len(t) \in Nat /\ (Len(t) = 0 <=> t = <<>>)
  BY EmptySeq DEF Text
<1>2. ASSUME t # <<>>
      PROVE  \E ch \in Char, u \in Text : t = <<ch>> \o u /\ Len(t) = Len(u) + 1
  <2>1. Head(t) \in Char /\ Rest(t) \in Text /\ t = <<Head(t)>> \o Rest(t)
    BY <1>2, RestOf DEF Text
  <2>2. Len(<<Head(t)>> \o Rest(t)) = Len(Rest(t)) + 1
    BY <2>1, ConsOfText
  <2>3. QED
    BY <2>1, <2>2
<1>3. QED
  BY <1>1, <1>2

LEMMA ApplyCons ==
  ASSUME NEW o \in Operation, NEW t \in Text
  PROVE  /\ Apply(<<>>, t) = <<>>
         /\ \A c \in Char : Apply(<<c>> \o o, t) = <<c>> \o Apply(o, t)
         /\ \A ch \in Char : Apply(<<Retain>> \o o, <<ch>> \o t) = <<ch>> \o Apply(o, t)
         /\ \A ch \in Char : Apply(<<Delete>> \o o, <<ch>> \o t) = Apply(o, t)
<1>1. Apply(<<>>, t) = <<>>
  BY EmptyOnes, ApplySteps
<1>2. ASSUME NEW c \in Component, NEW u \in Text, NEW r, r = <<c>> \o o
      PROVE  Apply(r, u) = IF c = Retain THEN <<Head(u)>> \o Apply(o, Rest(u))
                           ELSE IF c = Delete THEN Apply(o, Rest(u))
                           ELSE <<c>> \o Apply(o, u)
  <2>1. r \in Operation /\ r # <<>> /\ Head(r) = c /\ Rest(r) = o
    BY <1>2, ConsOfOperation
  <2>2. QED
    BY <2>1, ApplySteps
<1>3. ASSUME NEW c \in Char PROVE Apply(<<c>> \o o, t) = <<c>> \o Apply(o, t)
  BY <1>2, ComponentKinds
<1>4. ASSUME NEW ch \in Char
      PROVE  /\ Apply(<<Retain>> \o o, <<ch>> \o t) = <<ch>> \o Apply(o, t)
             /\ Apply(<<Delete>> \o o, <<ch>> \o t) = Apply(o, t)
  <2>1. PICK u : u = <<ch>> \o t
    OBVIOUS
  <2>2. u \in Text /\ Head(u) = ch /\ Rest(u) = t
    BY <2>1, ConsOfText
  <2>3. Apply(<<Retain>> \o o, u) = <<Head(u)>> \o Apply(o, Rest(u))
    BY <1>2, <2>2, ComponentKinds
  <2>4. Apply(<<Delete>> \o o, u) = Apply(o, Rest(u))
    BY <1>2, <2>2, ComponentKinds
  <2>5. QED
    BY <2>1, <2>2, <2>3, <2>4
<1>5. QED
  BY <1>1, <1>3, <1>4

LEMMA LengthsOfCons ==
  ASSUME NEW o \in Operation
  PROVE  /\ BaseLen(o) \in Nat /\ TargetLen(o) \in Nat
         /\ \A c \in Char : /\ BaseLen(<<c>> \o o) = BaseLen(o)
                            /\ TargetLen(<<c>> \o o) = TargetLen(o) + 1
         /\ BaseLen(<<Retain>> \o o) = BaseLen(o) + 1
         /\ TargetLen(<<Retain>> \o o) = TargetLen(o) + 1
         /\ BaseLen(<<Delete>> \o o) = BaseLen(o) + 1
         /\ TargetLen(<<Delete>> \o o) = TargetLen(o)
<1>1. \A c \in Component :
        /\ BaseLen(o) \in Nat
        /\ BaseLen(<<c>> \o o) = BaseLen(o) + IF c \in Char THEN 0 ELSE 1
        /\ TargetLen(o) \in Nat
        /\ TargetLen(<<c>> \o o) = TargetLen(o) + IF c = Delete THEN 0 ELSE 1
  BY BaseLenCons
<1>2. QED
  BY <1>1, ComponentKinds

LEMMA FitsCons ==
  ASSUME NEW o \in Operation, NEW t \in Text
  PROVE  /\ Applicable(<<>>, t) <=> t = <<>>
         /\ \A c \in Char : Applicable(<<c>> \o o, t) <=> Applicable(o, t)
         /\ \A ch \in Char : /\ Applicable(<<Retain>> \o o, <<ch>> \o t) <=> Applicable(o, t)
                             /\ Applicable(<<Delete>> \o o, <<ch>> \o t) <=> Applicable(o, t)
         /\ Applicable(<<Retain>> \o o, t) \/ Applicable(<<Delete>> \o o, t)
              => \E ch \in Char, u \in Text : t = <<ch>> \o u /\ Applicable(o, u)
<1>1. Applicable(<<>>, t) <=> t = <<>>
  BY EmptyOnes, TextCases DEF Applicable
<1>2. \A c \in Char : Applicable(<<c>> \o o, t) <=> Applicable(o, t)
  BY LengthsOfCons DEF Applicable
<1>3. ASSUME NEW u \in Text, NEW ch \in Char
      PROVE  /\ Applicable(<<Retain>> \o o, <<ch>> \o u) <=> Applicable(o, u)
             /\ Applicable(<<Delete>> \o o, <<ch>> \o u) <=> Applicable(o, u)
  <2>1. Len(<<ch>> \o u) = Len(u) + 1 /\ Len(u) \in Nat
    BY ConsOfText, TextCases
  <2>2. QED
    BY <2>1, LengthsOfCons DEF Applicable
<1>4. ASSUME Applicable(<<Retain>> \o o, t) \/ Applicable(<<Delete>> \o o, t)
      PROVE  \E ch \in Char, u \in Text : t = <<ch>> \o u /\ Applicable(o, u)
  <2>1. Len(t) # 0
    BY <1>4, LengthsOfCons DEF Applicable
  <2>2. PICK ch \in Char, u \in Text : t = <<ch>> \o u
    BY <2>1, TextCases
  <2>3. QED
    BY <1>3, <1>4, <2>2
<1>5. QED
  BY <1>1, <1>2, <1>3, <1>4

\* An operation that fits a text makes a text of it, as long as it says.
LEMMA ApplyType ==
  \A o \in Operation, t \in Text :
    Applicable(o, t) => Apply(o, t) \in Text /\ Len(Apply(o, t)) = TargetLen(o)
<1> DEFINE P == {o \in Operation : \A t \in Text :
                   Applicable(o, t) => Apply(o, t) \in Text /\ Len(Apply(o, t)) = TargetLen(o)}
<1>1. <<>> \in P
  BY EmptyOnes, ApplyCons
<1>2. ASSUME NEW o \in P, NEW c \in Component PROVE <<c>> \o o \in P
  <2>1. ASSUME NEW t \in Text, Applicable(<<c>> \o o, t)
        PROVE  /\ Apply(<<c>> \o o, t) \in Text
               /\ Len(Apply(<<c>> \o o, t)) = TargetLen(<<c>> \o o)
    <3>1. CASE c \in Char
      <4>1. Applicable(o, t)
        BY <2>1, <3>1, FitsCons
      <4>2. Apply(o, t) \in Text /\ Len(Apply(o, t)) = TargetLen(o)
        BY <4>1
      <4>3. Apply(<<c>> \o o, t) = <<c>> \o Apply(o, t)
        BY <3>1, ApplyCons
      <4>4. QED
        BY <3>1, <4>2, <4>3, ConsOfText, LengthsOfCons
    <3>2. CASE c = Retain
      <4>1. PICK ch \in Char, u \in Text : t = <<ch>> \o u /\ Applicable(o, u)
        BY <2>1, <3>2, FitsCons
      <4>2. Apply(o, u) \in Text /\ Len(Apply(o, u)) = TargetLen(o)
        BY <4>1
      <4>3. Apply(<<c>> \o o, t) = <<ch>> \o Apply(o, u)
        BY <3>2, <4>1, ApplyCons
      <4>4. /\ <<ch>> \o Apply(o, u) \in Text
            /\ Len(<<ch>> \o Apply(o, u)) = TargetLen(o) + 1
        BY <4>2, ConsOfText
      <4>5. QED
        BY <3>2, <4>3, <4>4, LengthsOfCons
    <3>3. CASE c = Delete
      <4>1. PICK ch \in Char, u \in Text : t = <<ch>> \o u /\ Applicable(o, u)
        BY <2>1, <3>3, FitsCons
      <4>2. Apply(o, u) \in Text /\ Len(Apply(o, u)) = TargetLen(o)
        BY <4>1
      <4>3. Apply(<<c>> \o o, t) = Apply(o, u)
        BY <3>3, <4>1, ApplyCons
      <4>4. QED
        BY <3>3, <4>2, <4>3, LengthsOfCons
    <3>4. QED
      BY <3>1, <3>2, <3>3, ComponentKinds
  <2>2. QED
    BY <2>1, ConsOfOperation
<1>3. P = Operation
  <2> HIDE DEF P
  <2>1. P \in SUBSET Seq(Component)
    BY DEF P, Operation
  <2>2. QED
    BY <1>1, <1>2, <2>1, SequenceInduction DEF Operation
<1>4. QED
  BY <1>3

----------------------------------------------------------------------------
(* The one form of an operation: an insertion before the deletions beside it. *)

\* No insertion stands behind a deletion it is adjacent to.
Normal(o) == \A i \in 1..Len(o) - 1 : o[i] = Delete => o[i + 1] \notin Char

LEMMA NormalCons ==
  ASSUME NEW o \in Operation, NEW c \in Component
  PROVE  Normal(<<c>> \o o) <=> Normal(o) /\ ~(c = Delete /\ Inserts(o))
<1>1. PICK r, n : r = <<c>> \o o /\ n = Len(o)
  OBVIOUS
<1>2. /\ Len(r) = n + 1 /\ Head(r) = c /\ n \in Nat /\ r \in Seq(Component)
      /\ \A i \in 1..n : r[i + 1] = o[i]
  BY <1>1, ConsOf DEF Operation
<1>3. r[1] = c /\ (n > 0 => r[2] = o[1] /\ Head(o) = o[1])
  <2>1. r[1] = c
    BY <1>2
  <2>2. n > 0 => r[1 + 1] = o[1]
    BY <1>2
  <2>3. QED
    BY <2>1, <2>2
<1>4. Inserts(o) <=> n > 0 /\ o[1] \in Char
  <2>1. o = <<>> <=> n = 0
    BY <1>1, EmptySeq DEF Operation
  <2>2. QED
    BY <1>2, <1>3, <2>1 DEF Inserts
<1>5. Normal(r) <=> \A i \in 1..n : r[i] = Delete => r[i + 1] \notin Char
  BY <1>2 DEF Normal
<1>6. ASSUME Normal(r) PROVE Normal(o) /\ ~(c = Delete /\ Inserts(o))
  <2>1. ASSUME NEW i \in 1..n - 1, o[i] = Delete PROVE o[i + 1] \notin Char
    <3>1. i \in 1..n /\ i + 1 \in 1..n
      BY <1>2
    <3>2. r[i + 1] = o[i] /\ r[(i + 1) + 1] = o[i + 1]
      BY <1>2, <3>1
    <3>3. QED
      BY <1>5, <1>6, <2>1, <3>1, <3>2
  <2>2. Normal(o)
    BY <1>1, <2>1 DEF Normal
  <2>3. c = Delete /\ n > 0 => r[1 + 1] \notin Char
    BY <1>2, <1>3, <1>5, <1>6
  <2>4. QED
    BY <1>3, <1>4, <2>2, <2>3
<1>7. ASSUME Normal(o), ~(c = Delete /\ Inserts(o)) PROVE Normal(r)
  <2>1. ASSUME NEW i \in 1..n, r[i] = Delete PROVE r[i + 1] \notin Char
    <3>1. CASE i = 1
      BY <1>2, <1>3, <1>4, <1>7, <2>1, <3>1
    <3>2. CASE i # 1
      <4>1. PICK k : k = i - 1
        OBVIOUS
      <4>2. k \in 1..n - 1 /\ k \in 1..n /\ k + 1 \in 1..n /\ i = k + 1
        BY <1>2, <3>2, <4>1
      <4>3. r[i] = o[k] /\ r[i + 1] = o[k + 1]
        BY <1>2, <4>2
      <4>4. QED
        BY <1>1, <1>7, <2>1, <4>2, <4>3 DEF Normal
    <3>3. QED
      BY <3>1, <3>2
  <2>2. QED
    BY <1>5, <2>1
<1>8. QED
  BY <1>1, <1>6, <1>7

\* Insertions in front of an operation.
LEMMA InsertionsInFront ==
  ASSUME NEW q \in Operation
  PROVE  \A p \in Text :
           /\ p \in Operation /\ p \o q \in Operation
           /\ BaseLen(p \o q) = BaseLen(q) /\ TargetLen(p \o q) = Len(p) + TargetLen(q)
           /\ \A t \in Text : Applicable(q, t) => Apply(p \o q, t) = p \o Apply(q, t)
           /\ Normal(p \o q) <=> Normal(q)
<1> DEFINE Holds(p) ==
             /\ p \in Operation /\ p \o q \in Operation
             /\ BaseLen(p \o q) = BaseLen(q) /\ TargetLen(p \o q) = Len(p) + TargetLen(q)
             /\ \A t \in Text : Applicable(q, t) => Apply(p \o q, t) = p \o Apply(q, t)
             /\ Normal(p \o q) <=> Normal(q)
           P == {p \in Text : Holds(p)}
<1>1. <<>> \in P
  <2>1. <<>> \o q = q /\ q \in Seq(Component)
    BY ConcatEmptySeq DEF Operation
  <2>2. \A t \in Text : Applicable(q, t) => <<>> \o Apply(q, t) = Apply(q, t)
    BY ApplyType, ConcatEmptySeq DEF Text
  <2>3. TargetLen(q) \in Nat /\ Len(<<>>) = 0
    BY LengthsOfCons, EmptyOnes
  <2>4. \A t \in Text : Applicable(q, t) => Apply(<<>> \o q, t) = <<>> \o Apply(q, t)
    BY <2>1, <2>2
  <2>5. BaseLen(<<>> \o q) = BaseLen(q) /\ TargetLen(<<>> \o q) = Len(<<>>) + TargetLen(q)
    BY <2>1, <2>3
  <2>6. Holds(<<>>)
    BY <2>1, <2>4, <2>5, EmptyOnes
  <2>7. QED
    BY <2>6, EmptyOnes
<1>2. ASSUME NEW p \in P, NEW c \in Char PROVE <<c>> \o p \in P
  <2>1. Holds(p) /\ p \in Text
    OBVIOUS
  <2>2. c \in Component /\ c # Delete
    BY ComponentKinds
  <2>3. <<c>> \o p \in Operation /\ <<c>> \o p \in Text /\ Len(<<c>> \o p) = Len(p) + 1
    BY <2>1, <2>2, ConsOfOperation, ConsOfText
  <2>4. (<<c>> \o p) \o q = <<c>> \o (p \o q)
    <3>1. <<c>> \in Seq(Component) /\ p \in Seq(Component) /\ q \in Seq(Component)
      BY <2>1, <2>2 DEF Operation
    <3>2. QED
      BY <3>1, ConcatAssociative
  <2>5. <<c>> \o (p \o q) \in Operation
    BY <2>1, <2>2, ConsOfOperation
  <2>6. /\ BaseLen(<<c>> \o (p \o q)) = BaseLen(q)
        /\ TargetLen(<<c>> \o (p \o q)) = (Len(p) + 1) + TargetLen(q)
    <3>1. /\ BaseLen(<<c>> \o (p \o q)) = BaseLen(p \o q)
          /\ TargetLen(<<c>> \o (p \o q)) = TargetLen(p \o q) + 1
      BY <2>1, LengthsOfCons
    <3>2. Len(p) \in Nat /\ TargetLen(q) \in Nat
      BY <2>1, TextCases, LengthsOfCons
    <3>3. QED
      BY <2>1, <3>1, <3>2
  <2>7. ASSUME NEW t \in Text, Applicable(q, t)
        PROVE  Apply(<<c>> \o (p \o q), t) = (<<c>> \o p) \o Apply(q, t)
    <3>1. Apply(<<c>> \o (p \o q), t) = <<c>> \o Apply(p \o q, t)
      BY <2>1, ApplyCons
    <3>2. Apply(p \o q, t) = p \o Apply(q, t)
      BY <2>1, <2>7
    <3>3. Apply(q, t) \in Seq(Char) /\ p \in Seq(Char) /\ <<c>> \in Seq(Char)
      BY <2>1, <2>7, ApplyType DEF Text
    <3>4. (<<c>> \o p) \o Apply(q, t) = <<c>> \o (p \o Apply(q, t))
      BY <3>3, ConcatAssociative
    <3>5. QED
      BY <3>1, <3>2, <3>4
  <2>8. Normal(<<c>> \o (p \o q)) <=> Normal(q)
    BY <2>1, <2>2, NormalCons
  <2>9. Holds(<<c>> \o p)
    BY <2>3, <2>4, <2>5, <2>6, <2>7, <2>8
  <2>10. QED
    BY <2>3, <2>9
<1>3. P = Text
  <2> HIDE DEF P
  <2>1. P \in SUBSET Seq(Char)
    BY DEF P, Text
  <2>2. QED
    BY <1>1, <1>2, <2>1, SequenceInduction DEF Text
<1>4. QED
  BY <1>3

\* How far the insertions at the front of an operation reach.
LeadsTo(o, i) == /\ \A j \in 1..i : o[j] \in Char
                 /\ i < Len(o) => o[i + 1] \notin Char

LEMMA LeadingInsertions ==
  ASSUME NEW S, NEW o \in Seq(S), Inserts(o)
  PROVE  \E i \in 1..Len(o) : LeadsTo(o, i)
<1>1. Len(o) \in Nat /\ Len(o) > 0 /\ o[1] \in Char
  BY EmptySeq DEF Inserts
<1> DEFINE B == {j \in 1..Len(o) : o[j] \notin Char}
<1>2. CASE B = {}
  <2>1. LeadsTo(o, Len(o))
    BY <1>1, <1>2 DEF LeadsTo
  <2>2. QED
    BY <1>1, <2>1
<1>3. CASE B # {}
  <2>1. B \in SUBSET Nat
    BY <1>1
  <2>2. PICK j \in B : \A k \in B : j <= k
    <3> HIDE DEF B
    <3>1. QED
      BY <1>3, <2>1, LeastNumber
  <2>3. j \in 1..Len(o) /\ o[j] \notin Char /\ j # 1
    BY <1>1
  <2>4. PICK i : i = j - 1
    OBVIOUS
  <2>5. i \in 1..Len(o) /\ j = i + 1
    BY <1>1, <2>3, <2>4
  <2>6. \A k \in 1..i : o[k] \in Char
    <3>1. ASSUME NEW k \in 1..i, o[k] \notin Char PROVE FALSE
      <4>1. k \in B /\ k < j
        BY <1>1, <2>5, <3>1
      <4>2. QED
        BY <1>1, <2>2, <2>3, <4>1
    <3>2. QED
      BY <3>1
  <2>7. QED
    BY <2>3, <2>5, <2>6 DEF LeadsTo
<1>4. QED
  BY <1>2, <1>3

\* Where a deletion goes: behind the leading insertions.
LEMMA PushFrontDelete ==
  ASSUME NEW o \in Operation
  PROVE  \E p \in Text, q \in Operation :
           /\ o = p \o q /\ PushFront(Delete, o) = p \o (<<Delete>> \o q)
           /\ ~Inserts(q)
<1>1. CASE ~Inserts(o)
  <2>1. PushFront(Delete, o) = <<Delete>> \o o
    BY <1>1 DEF PushFront, Inserts
  <2>2. <<Delete>> \o o \in Operation
    BY ConsOfOperation, ComponentKinds
  <2>3. <<>> \o o = o /\ <<>> \o (<<Delete>> \o o) = <<Delete>> \o o
    BY <2>2, ConcatEmptySeq DEF Operation
  <2>4. QED
    BY <1>1, <2>1, <2>3, EmptyOnes
<1>2. CASE Inserts(o)
  <2> DEFINE n == CHOOSE i \in 1..Len(o) : LeadsTo(o, i)
  <2>1. Len(o) \in Nat /\ Len(o) > 0 /\ o \in Seq(Component)
        /\ \A i \in 1..Len(o) : o[i] \in Component
    BY <1>2, EmptySeq DEF Operation, Inserts
  <2>3. n \in 1..Len(o) /\ LeadsTo(o, n)
    BY <1>2, <2>1, LeadingInsertions
  <2>4. PushFront(Delete, o) = SubSeq(o, 1, n) \o <<Delete>> \o SubSeq(o, n + 1, Len(o))
    BY <1>2 DEF PushFront, Inserts, LeadsTo
  <2>5. PICK m, p, q : /\ m = n /\ p = SubSeq(o, 1, m) /\ q = SubSeq(o, m + 1, Len(o))
    OBVIOUS
  <2>6. m \in 1..Len(o) /\ m \in Int /\ Len(o) \in Int
    BY <2>1, <2>3, <2>5
  <2>7. (\A j \in 1..m : o[j] \in Char) /\ (m < Len(o) => o[m + 1] \notin Char)
    BY <2>3, <2>5 DEF LeadsTo
  <2>8. PushFront(Delete, o) = (p \o <<Delete>>) \o q
    BY <2>4, <2>5
  <2> HIDE DEF n
  <2>9. p \in Text
    BY <2>5, <2>6, <2>7, SubSeqProperties DEF Text
  <2>10. q \in Operation /\ (q # <<>> => m < Len(o) /\ q[1] = o[m + 1] /\ Head(q) = q[1])
    <3>1. \A i \in m + 1..Len(o) : o[i] \in Component
      BY <2>1, <2>6
    <3>2. /\ q \in Seq(Component)
          /\ Len(q) = IF m + 1 <= Len(o) THEN Len(o) - (m + 1) + 1 ELSE 0
          /\ \A i \in 1..Len(o) - (m + 1) + 1 : q[i] = o[(m + 1) + i - 1]
      BY <2>5, <2>6, <3>1, SubSeqProperties
    <3>3. ASSUME q # <<>> PROVE m < Len(o) /\ q[1] = o[m + 1] /\ Head(q) = q[1]
      <4>1. Len(q) # 0
        BY <3>2, <3>3, EmptySeq
      <4>2. m < Len(o)
        BY <2>6, <3>2, <4>1
      <4>3. q[1] = o[(m + 1) + 1 - 1]
        BY <2>6, <3>2, <4>2
      <4>4. (m + 1) + 1 - 1 = m + 1
        BY <2>6
      <4>5. QED
        BY <3>2, <3>3, <4>2, <4>3, <4>4
    <3>4. QED
      BY <3>2, <3>3 DEF Operation
  <2>11. o = p \o q
    <3>1. 1 \in 1..Len(o) + 1 /\ m \in 1 - 1..Len(o) /\ Len(o) \in m..Len(o)
      BY <2>1, <2>6
    <3>2. SubSeq(o, 1, m) \o SubSeq(o, m + 1, Len(o)) = SubSeq(o, 1, Len(o))
      BY <2>1, <3>1, ConcatAdjacentSubSeq
    <3>3. QED
      BY <2>1, <2>5, <3>2, SubSeqFull
  <2>12. (p \o <<Delete>>) \o q = p \o (<<Delete>> \o q)
    <3>1. p \in Seq(Component) /\ <<Delete>> \in Seq(Component) /\ q \in Seq(Component)
      BY <2>9, <2>10, InsertionsInFront, ComponentKinds DEF Operation
    <3>2. QED
      BY <3>1, ConcatAssociative
  <2>13. ~Inserts(q)
    BY <2>7, <2>10 DEF Inserts
  <2>14. QED
    BY <2>8, <2>9, <2>10, <2>11, <2>12, <2>13
<1>3. QED
  BY <1>1, <1>2

LEMMA PushFrontFacts ==
  ASSUME NEW o \in Operation, NEW c \in Component
  PROVE  /\ PushFront(c, o) \in Operation
         /\ BaseLen(PushFront(c, o)) = BaseLen(<<c>> \o o)
         /\ TargetLen(PushFront(c, o)) = TargetLen(<<c>> \o o)
         /\ \A t \in Text : Applicable(<<c>> \o o, t)
              => Apply(PushFront(c, o), t) = Apply(<<c>> \o o, t)
         /\ Normal(o) => Normal(PushFront(c, o))
<1>1. CASE c # Delete
  <2>1. PushFront(c, o) = <<c>> \o o
    BY <1>1 DEF PushFront
  <2>2. QED
    BY <1>1, <2>1, ConsOfOperation, NormalCons
<1>2. CASE c = Delete
  <2>1. PICK p \in Text, q \in Operation :
          /\ o = p \o q /\ PushFront(c, o) = p \o (<<c>> \o q)
          /\ ~Inserts(q)
    BY <1>2, PushFrontDelete
  <2>2. PICK d : d = <<c>> \o q
    OBVIOUS
  <2>3. d \in Operation
    BY <2>2, ConsOfOperation
  <2>4. /\ p \o d \in Operation
        /\ BaseLen(p \o d) = BaseLen(d) /\ TargetLen(p \o d) = Len(p) + TargetLen(d)
        /\ \A t \in Text : Applicable(d, t) => Apply(p \o d, t) = p \o Apply(d, t)
        /\ Normal(p \o d) <=> Normal(d)
    BY <2>3, InsertionsInFront
  <2>5. /\ BaseLen(o) = BaseLen(q) /\ TargetLen(o) = Len(p) + TargetLen(q)
        /\ \A t \in Text : Applicable(q, t) => Apply(o, t) = p \o Apply(q, t)
        /\ Normal(o) <=> Normal(q)
    BY <2>1, InsertionsInFront
  <2>6. /\ BaseLen(d) = BaseLen(q) + 1 /\ TargetLen(d) = TargetLen(q)
        /\ BaseLen(<<c>> \o o) = BaseLen(o) + 1 /\ TargetLen(<<c>> \o o) = TargetLen(o)
    BY <1>2, <2>2, LengthsOfCons
  <2>7. Normal(o) => Normal(p \o d)
    BY <2>1, <2>2, <2>4, <2>5, NormalCons
  <2>8. ASSUME NEW t \in Text, Applicable(<<c>> \o o, t)
        PROVE  Apply(p \o d, t) = Apply(<<c>> \o o, t)
    <3>1. PICK ch \in Char, u \in Text : t = <<ch>> \o u /\ Applicable(o, u)
      BY <1>2, <2>8, FitsCons
    <3>2. Applicable(q, u)
      BY <2>5, <3>1 DEF Applicable
    <3>3. Apply(<<c>> \o o, t) = p \o Apply(q, u)
      BY <1>2, <2>5, <3>1, <3>2, ApplyCons
    <3>4. /\ Applicable(<<Delete>> \o q, <<ch>> \o u)
          /\ Apply(<<Delete>> \o q, <<ch>> \o u) = Apply(q, u)
      <4>1. Applicable(<<Delete>> \o q, <<ch>> \o u) <=> Applicable(q, u)
        BY FitsCons
      <4>2. Apply(<<Delete>> \o q, <<ch>> \o u) = Apply(q, u)
        BY ApplyCons
      <4>3. QED
        BY <3>2, <4>1, <4>2
    <3>5. Applicable(d, t) /\ Apply(d, t) = Apply(q, u)
      BY <1>2, <2>2, <3>1, <3>4
    <3>6. QED
      BY <2>4, <3>3, <3>5
  <2>9. QED
    BY <2>1, <2>2, <2>4, <2>5, <2>6, <2>7, <2>8
<1>3. QED
  BY <1>1, <1>2

LEMMA PushFrontType ==
  ASSUME NEW S, NEW o \in Seq(S), NEW c \in S
  PROVE  PushFront(c, o) \in Seq(S)
<1>1. CASE ~(c = Delete /\ Inserts(o))
  <2>1. PushFront(c, o) = <<c>> \o o
    BY <1>1 DEF PushFront, Inserts
  <2>2. QED
    BY <2>1, ConsOf
<1>2. CASE c = Delete /\ Inserts(o)
  <2> DEFINE n == CHOOSE i \in 1..Len(o) : LeadsTo(o, i)
  <2>1. n \in 1..Len(o)
    BY <1>2, LeadingInsertions
  <2>2. PushFront(c, o) = SubSeq(o, 1, n) \o <<c>> \o SubSeq(o, n + 1, Len(o))
    BY <1>2 DEF PushFront, Inserts, LeadsTo
  <2>3. PICK m, p, q : /\ m = n /\ p = SubSeq(o, 1, m) /\ q = SubSeq(o, m + 1, Len(o))
    OBVIOUS
  <2>4. m \in Int /\ m \in 1..Len(o) /\ Len(o) \in Int /\ \A i \in 1..Len(o) : o[i] \in S
    BY <2>1, <2>3
  <2>5. PushFront(c, o) = p \o <<c>> \o q
    BY <2>2, <2>3
  <2> HIDE DEF n
  <2>6. p \in Seq(S) /\ q \in Seq(S)
    <3>1. (\A i \in 1..m : o[i] \in S) /\ (\A i \in m + 1..Len(o) : o[i] \in S)
      BY <2>4
    <3>2. p \in Seq(S)
      BY <2>3, <2>4, <3>1, SubSeqProperties
    <3>3. q \in Seq(S)
      BY <2>3, <2>4, <3>1, SubSeqProperties
    <3>4. QED
      BY <3>2, <3>3
  <2>7. QED
    BY <2>5, <2>6
<1>3. QED
  BY <1>1, <1>2

----------------------------------------------------------------------------
(* Transform (text.rs:93-99). *)

\* What a round of Transform is.
LEMMA Rounds ==
  ASSUME NEW x \in Operation, NEW y \in Operation, NEW r, r = TransformRound(x, y)
  PROVE  /\ Inserts(x) =>
              /\ r.aPrime = <<Head(x)>> /\ r.bPrime = <<Retain>>
              /\ SubSeq(x, 1 + r.inA, Len(x)) = Rest(x)
              /\ SubSeq(y, 1 + r.inB, Len(y)) = y
         /\ ~Inserts(x) /\ Inserts(y) =>
              /\ r.aPrime = <<Retain>> /\ r.bPrime = <<Head(y)>>
              /\ SubSeq(x, 1 + r.inA, Len(x)) = x
              /\ SubSeq(y, 1 + r.inB, Len(y)) = Rest(y)
         /\ ~Inserts(x) /\ ~Inserts(y) =>
              /\ r.aPrime = IF Head(y) = Retain THEN <<Head(x)>> ELSE <<>>
              /\ r.bPrime = IF Head(x) = Retain THEN <<Head(y)>> ELSE <<>>
              /\ SubSeq(x, 1 + r.inA, Len(x)) = Rest(x)
              /\ SubSeq(y, 1 + r.inB, Len(y)) = Rest(y)
<1>1. SubSeq(x, 1, Len(x)) = x /\ SubSeq(y, 1, Len(y)) = y
  BY SubSeqFull DEF Operation
<1>2. 1 + 1 = 2 /\ 1 + 0 = 1
  OBVIOUS
<1>3. CASE Inserts(x)
  <2>1. r = [aPrime |-> <<Head(x)>>, bPrime |-> <<Retain>>, inA |-> 1, inB |-> 0]
    BY <1>3 DEF TransformRound, InsertionRound, Round
  <2>2. QED
    BY <1>1, <1>2, <1>3, <2>1 DEF Rest
<1>4. CASE ~Inserts(x) /\ Inserts(y)
  <2>1. r = [aPrime |-> <<Retain>>, bPrime |-> <<Head(y)>>, inA |-> 0, inB |-> 1]
    BY <1>4 DEF TransformRound, InsertionRound, Round
  <2>2. /\ r.aPrime = <<Retain>> /\ r.bPrime = <<Head(y)>>
        /\ 1 + r.inA = 1 /\ 1 + r.inB = 2
    BY <2>1
  <2>3. QED
    BY <1>1, <1>4, <2>2 DEF Rest
<1>5. CASE ~Inserts(x) /\ ~Inserts(y)
  <2>1. r = [aPrime |-> IF Head(y) = Retain THEN <<Head(x)>> ELSE <<>>,
             bPrime |-> IF Head(x) = Retain THEN <<Head(y)>> ELSE <<>>,
             inA |-> 1, inB |-> 1]
    BY <1>5 DEF TransformRound, Round
  <2>2. QED
    BY <1>2, <1>5, <2>1 DEF Rest
<1>6. QED
  BY <1>3, <1>4, <1>5

Emit(component, op) == IF component = <<>> THEN op ELSE PushFront(component[1], op)

LEMMA EmitType ==
  ASSUME NEW S, NEW o \in Seq(S), NEW c \in S
  PROVE  Emit(<<>>, o) = o /\ Emit(<<c>>, o) = PushFront(c, o) /\ Emit(<<c>>, o) \in Seq(S)
<1>1. <<c>> # <<>> /\ <<c>>[1] = c
  OBVIOUS
<1>2. QED
  BY <1>1, PushFrontType DEF Emit

\* Transform, one round after the other.
LEMMA TransformSteps ==
  ASSUME NEW a \in Operation, NEW b \in Operation
  PROVE  /\ a = <<>> /\ b = <<>> => Transform(a, b) = [aPrime |-> <<>>, bPrime |-> <<>>]
         /\ Inserts(a) =>
              Transform(a, b) = [aPrime |-> PushFront(Head(a), Transform(Rest(a), b).aPrime),
                                 bPrime |-> PushFront(Retain, Transform(Rest(a), b).bPrime)]
         /\ ~Inserts(a) /\ Inserts(b) =>
              Transform(a, b) = [aPrime |-> PushFront(Retain, Transform(a, Rest(b)).aPrime),
                                 bPrime |-> PushFront(Head(b), Transform(a, Rest(b)).bPrime)]
         /\ ~Inserts(a) /\ ~Inserts(b) /\ (a # <<>> \/ b # <<>>) =>
              Transform(a, b) =
                [aPrime |-> IF Head(b) = Retain
                            THEN PushFront(Head(a), Transform(Rest(a), Rest(b)).aPrime)
                            ELSE Transform(Rest(a), Rest(b)).aPrime,
                 bPrime |-> IF Head(a) = Retain
                            THEN PushFront(Head(b), Transform(Rest(a), Rest(b)).bPrime)
                            ELSE Transform(Rest(a), Rest(b)).bPrime]
<1> DEFINE S == Operation \X Operation
           C == Component \cup {Head(<<>>)}
           T == [aPrime : Seq(C), bPrime : Seq(C)]
           round(w) == TransformRound(w[1], w[2])
           next(w) == <<SubSeq(w[1], 1 + round(w).inA, Len(w[1])),
                        SubSeq(w[2], 1 + round(w).inB, Len(w[2]))>>
           step(w, g) ==
             IF w[1] = <<>> /\ w[2] = <<>> THEN [aPrime |-> <<>>, bPrime |-> <<>>]
             ELSE [aPrime |-> Emit(round(w).aPrime, g[next(w)].aPrime),
                   bPrime |-> Emit(round(w).bPrime, g[next(w)].bPrime)]
           size == [w \in S |-> Len(w[1]) + Len(w[2])]
           F == [x \in S \X [S -> T] |-> step(x[1], x[2])]
<1>1. ASSUME NEW w \in S, ~(w[1] = <<>> /\ w[2] = <<>>)
      PROVE  /\ next(w) \in S /\ size[next(w)] < size[w]
             /\ round(w).aPrime = <<>> \/ \E c \in C : round(w).aPrime = <<c>>
             /\ round(w).bPrime = <<>> \/ \E c \in C : round(w).bPrime = <<c>>
  <2>1. PICK x, y, r : x = w[1] /\ y = w[2] /\ r = TransformRound(x, y)
    OBVIOUS
  <2>2. /\ x \in Operation /\ y \in Operation /\ x \in Seq(Component) /\ y \in Seq(Component)
        /\ ~(x = <<>> /\ y = <<>>)
    BY <1>1, <2>1 DEF Operation
  <2>3. /\ Rest(x) \in Operation /\ Rest(y) \in Operation
        /\ Len(x) \in Nat /\ Len(y) \in Nat
        /\ Len(Rest(x)) = IF x = <<>> THEN 0 ELSE Len(x) - 1
        /\ Len(Rest(y)) = IF y = <<>> THEN 0 ELSE Len(y) - 1
        /\ Head(x) \in C /\ Head(y) \in C /\ Retain \in C
    BY <2>2, RestOfAny, HeadOfAny, ComponentKinds DEF Operation
  <2>4. Len(x) = 0 <=> x = <<>>
    BY <2>2, EmptySeq
  <2>5. Len(y) = 0 <=> y = <<>>
    BY <2>2, EmptySeq
  <2>6. Inserts(x) => x # <<>>
    BY DEF Inserts
  <2>7. Inserts(y) => y # <<>>
    BY DEF Inserts
  <2>8. next(w) = <<SubSeq(x, 1 + r.inA, Len(x)), SubSeq(y, 1 + r.inB, Len(y))>>
    BY <2>1
  <2>9. size[w] = Len(x) + Len(y) /\ \A u, v \in Operation : size[<<u, v>>] = Len(u) + Len(v)
    BY <2>1
  <2>10. round(w) = r
    BY <2>1
  <2>15. PICK p, q : p = SubSeq(x, 1 + r.inA, Len(x)) /\ q = SubSeq(y, 1 + r.inB, Len(y))
    OBVIOUS
  <2>16. next(w) = <<p, q>>
    BY <2>8, <2>15
  <2>17. /\ Inserts(x) => /\ r.aPrime = <<Head(x)>> /\ r.bPrime = <<Retain>>
                          /\ p = Rest(x) /\ q = y
         /\ ~Inserts(x) /\ Inserts(y) => /\ r.aPrime = <<Retain>> /\ r.bPrime = <<Head(y)>>
                                         /\ p = x /\ q = Rest(y)
         /\ ~Inserts(x) /\ ~Inserts(y) =>
              /\ r.aPrime = IF Head(y) = Retain THEN <<Head(x)>> ELSE <<>>
              /\ r.bPrime = IF Head(x) = Retain THEN <<Head(y)>> ELSE <<>>
              /\ p = Rest(x) /\ q = Rest(y)
    <3>1. x \in Operation /\ y \in Operation /\ r = TransformRound(x, y)
      BY <2>1, <2>2
    <3>2. QED
      BY <2>15, <3>1, Rounds
  <2> HIDE DEF C, S, next, size, round
  <2>11. CASE Inserts(x)
    <3>1. next(w) = <<Rest(x), y>> /\ r.aPrime = <<Head(x)>> /\ r.bPrime = <<Retain>>
      BY <2>16, <2>17, <2>11
    <3>2. <<Rest(x), y>> \in S
      BY <2>2, <2>3 DEF S
    <3>3. size[<<Rest(x), y>>] < size[w]
      BY <2>2, <2>3, <2>6, <2>9, <2>11
    <3>4. QED
      BY <2>3, <2>10, <3>1, <3>2, <3>3
  <2>12. CASE ~Inserts(x) /\ Inserts(y)
    <3>1. next(w) = <<x, Rest(y)>> /\ r.aPrime = <<Retain>> /\ r.bPrime = <<Head(y)>>
      BY <2>16, <2>17, <2>12
    <3>2. <<x, Rest(y)>> \in S
      BY <2>2, <2>3 DEF S
    <3>3. size[<<x, Rest(y)>>] < size[w]
      BY <2>2, <2>3, <2>7, <2>9, <2>12
    <3>4. QED
      BY <2>3, <2>10, <3>1, <3>2, <3>3
  <2>13. CASE ~Inserts(x) /\ ~Inserts(y)
    <3>1. /\ next(w) = <<Rest(x), Rest(y)>>
          /\ r.aPrime = IF Head(y) = Retain THEN <<Head(x)>> ELSE <<>>
          /\ r.bPrime = IF Head(x) = Retain THEN <<Head(y)>> ELSE <<>>
      BY <2>16, <2>17, <2>13
    <3>2. <<Rest(x), Rest(y)>> \in S
      BY <2>2, <2>3 DEF S
    <3>3. size[<<Rest(x), Rest(y)>>] < size[w]
      BY <2>2, <2>3, <2>4, <2>5, <2>9
    <3>4. QED
      BY <2>3, <2>10, <3>1, <3>2, <3>3
  <2>14. QED
    BY <2>11, <2>12, <2>13
<1>2. T # {} /\ size \in [S -> Nat]
  <2>1. [aPrime |-> <<>>, bPrime |-> <<>>] \in T
    OBVIOUS
  <2>2. \A w \in S : Len(w[1]) \in Nat /\ Len(w[2]) \in Nat
    BY DEF Operation
  <2>3. \A w \in S : Len(w[1]) + Len(w[2]) \in Nat
    BY <2>2
  <2>4. QED
    BY <2>1, <2>3
<1>3. \A w \in S, g \in [S -> T] : step(w, g) \in T
  <2> SUFFICES ASSUME NEW w \in S, NEW g \in [S -> T] PROVE step(w, g) \in T
    OBVIOUS
  <2>1. CASE w[1] = <<>> /\ w[2] = <<>>
    BY <2>1
  <2>2. CASE ~(w[1] = <<>> /\ w[2] = <<>>)
    <3>1. g[next(w)] \in T
      BY <1>1, <2>2
    <3>2. g[next(w)].aPrime \in Seq(C) /\ g[next(w)].bPrime \in Seq(C)
      BY <3>1
    <3>3. ASSUME NEW e, e = <<>> \/ \E c \in C : e = <<c>>, NEW o \in Seq(C)
          PROVE  Emit(e, o) \in Seq(C)
      <4> HIDE DEF C
      <4>1. CASE e = <<>>
        BY <4>1 DEF Emit
      <4>2. CASE \E c \in C : e = <<c>>
        BY <4>2, EmitType
      <4>3. QED
        BY <3>3, <4>1, <4>2
    <3>4. /\ Emit(round(w).aPrime, g[next(w)].aPrime) \in Seq(C)
          /\ Emit(round(w).bPrime, g[next(w)].bPrime) \in Seq(C)
      <4> HIDE DEF C, next, round, S
      <4>1. QED
        BY <1>1, <2>2, <3>2, <3>3
    <3>5. step(w, g) = [aPrime |-> Emit(round(w).aPrime, g[next(w)].aPrime),
                        bPrime |-> Emit(round(w).bPrime, g[next(w)].bPrime)]
      BY <2>2
    <3> HIDE DEF step, next, round, S, C
    <3>6. QED
      BY <3>4, <3>5
  <2>3. QED
    BY <2>1, <2>2
<1>4. F \in [S \X [S -> T] -> T]
  <2> HIDE DEF step, T, S
  <2>1. QED
    BY <1>3
<1>5. \A w \in S, g, h \in [S -> T] :
         (\A y \in S : size[y] < size[w] => g[y] = h[y]) => step(w, g) = step(w, h)
  <2> HIDE DEF size, next, round, S, T
  <2>1. QED
    BY <1>1
<1>6. \A w \in S, g, h \in [S -> T] :
         (\A y \in S : size[y] < size[w] => g[y] = h[y]) => F[<<w, g>>] = F[<<w, h>>]
  <2> HIDE DEF step, T, S, size
  <2>1. \A w \in S, g \in [S -> T] : F[<<w, g>>] = step(w, g)
    OBVIOUS
  <2>2. QED
    BY <1>5, <2>1
<1>7. PICK g \in [S -> T] : \A w \in S : g[w] = F[<<w, g>>]
  <2>1. Recursion(S, T, size, F)
    <3> HIDE DEF S, T, size, F
    <3>1. QED
      BY <1>2, <1>4, <1>6 DEF Recursion
  <2> HIDE DEF S, T, size, F
  <2>2. QED
    BY <2>1, RecursiveFunction
<1>8. g = [w \in S |-> step(w, g)]
  <2> HIDE DEF step, T, S
  <2>1. \A w \in S : g[w] = step(w, g)
    BY <1>7
  <2>2. QED
    BY <2>1
<1>9. PICK both : both = CHOOSE f : f = [w \in S |-> step(w, f)]
  OBVIOUS
<1>10. both = [w \in S |-> step(w, both)]
  BY <1>8, <1>9
<1>11. \A x \in Operation, y \in Operation : Transform(x, y) = both[<<x, y>>]
  <2>1. ASSUME NEW x \in Operation, NEW y \in Operation
        PROVE  Transform(x, y) = (CHOOSE f : f = [w \in S |-> step(w, f)])[<<x, y>>]
    BY DEF Transform, Emit
  <2>2. QED
    BY <1>9, <2>1
<1>12. PICK w : w = <<a, b>>
  OBVIOUS
<1>13. w \in S /\ w[1] = a /\ w[2] = b
  BY <1>12
<1>14. both[w] = step(w, both)
  BY <1>10, <1>13
<1>15. Transform(a, b) = both[w]
  BY <1>11, <1>12
<1>16. PICK r : r = TransformRound(a, b)
  OBVIOUS
<1>17. ~(a = <<>> /\ b = <<>>) =>
         /\ Transform(a, b) = [aPrime |-> Emit(r.aPrime, both[next(w)].aPrime),
                               bPrime |-> Emit(r.bPrime, both[next(w)].bPrime)]
         /\ next(w) = <<SubSeq(a, 1 + r.inA, Len(a)), SubSeq(b, 1 + r.inB, Len(b))>>
  BY <1>13, <1>14, <1>15, <1>16
<1>18. a = <<>> /\ b = <<>> => Transform(a, b) = [aPrime |-> <<>>, bPrime |-> <<>>]
  BY <1>13, <1>14, <1>15
<1>19. \A c, o : Emit(<<c>>, o) = PushFront(c, o) /\ Emit(<<>>, o) = o
  BY DEF Emit
<1>20. Rest(a) \in Operation /\ Rest(b) \in Operation
  BY RestOfAny DEF Operation
<1> HIDE DEF next, step, S, T, size, F, round
<1>21. Inserts(a) =>
              Transform(a, b) = [aPrime |-> PushFront(Head(a), Transform(Rest(a), b).aPrime),
                                 bPrime |-> PushFront(Retain, Transform(Rest(a), b).bPrime)]
  <2> SUFFICES ASSUME Inserts(a)
               PROVE Transform(a, b) = [aPrime |-> PushFront(Head(a), Transform(Rest(a), b).aPrime),
                                 bPrime |-> PushFront(Retain, Transform(Rest(a), b).bPrime)]
    OBVIOUS
  <2>1. a # <<>>
    BY DEF Inserts
  <2>2. next(w) = <<Rest(a), b>> /\ r.aPrime = <<Head(a)>> /\ r.bPrime = <<Retain>>
    BY <1>16, <1>17, <2>1, Rounds
  <2>3. both[next(w)] = Transform(Rest(a), b)
    BY <1>11, <1>20, <2>2
  <2>4. QED
    BY <1>17, <1>19, <2>1, <2>2, <2>3
<1>22. ~Inserts(a) /\ Inserts(b) =>
              Transform(a, b) = [aPrime |-> PushFront(Retain, Transform(a, Rest(b)).aPrime),
                                 bPrime |-> PushFront(Head(b), Transform(a, Rest(b)).bPrime)]
  <2> SUFFICES ASSUME ~Inserts(a), Inserts(b)
               PROVE Transform(a, b) = [aPrime |-> PushFront(Retain, Transform(a, Rest(b)).aPrime),
                                 bPrime |-> PushFront(Head(b), Transform(a, Rest(b)).bPrime)]
    OBVIOUS
  <2>1. b # <<>>
    BY DEF Inserts
  <2>2. next(w) = <<a, Rest(b)>> /\ r.aPrime = <<Retain>> /\ r.bPrime = <<Head(b)>>
    BY <1>16, <1>17, <2>1, Rounds
  <2>3. both[next(w)] = Transform(a, Rest(b))
    BY <1>11, <1>20, <2>2
  <2>4. QED
    BY <1>17, <1>19, <2>1, <2>2, <2>3
<1>23. ~Inserts(a) /\ ~Inserts(b) /\ (a # <<>> \/ b # <<>>) =>
              Transform(a, b) =
                [aPrime |-> IF Head(b) = Retain
                            THEN PushFront(Head(a), Transform(Rest(a), Rest(b)).aPrime)
                            ELSE Transform(Rest(a), Rest(b)).aPrime,
                 bPrime |-> IF Head(a) = Retain
                            THEN PushFront(Head(b), Transform(Rest(a), Rest(b)).bPrime)
                            ELSE Transform(Rest(a), Rest(b)).bPrime]
  <2> SUFFICES ASSUME ~Inserts(a), ~Inserts(b), a # <<>> \/ b # <<>>
               PROVE Transform(a, b) =
                [aPrime |-> IF Head(b) = Retain
                            THEN PushFront(Head(a), Transform(Rest(a), Rest(b)).aPrime)
                            ELSE Transform(Rest(a), Rest(b)).aPrime,
                 bPrime |-> IF Head(a) = Retain
                            THEN PushFront(Head(b), Transform(Rest(a), Rest(b)).bPrime)
                            ELSE Transform(Rest(a), Rest(b)).bPrime]
    OBVIOUS
  <2>1. /\ next(w) = <<Rest(a), Rest(b)>>
        /\ r.aPrime = IF Head(b) = Retain THEN <<Head(a)>> ELSE <<>>
        /\ r.bPrime = IF Head(a) = Retain THEN <<Head(b)>> ELSE <<>>
    BY <1>16, <1>17, Rounds
  <2>2. both[next(w)] = Transform(Rest(a), Rest(b))
    BY <1>11, <1>20, <2>1
  <2>3. PICK R : R = Transform(Rest(a), Rest(b))
    OBVIOUS
  <2>4. /\ Emit(r.aPrime, R.aPrime) = IF Head(b) = Retain THEN PushFront(Head(a), R.aPrime)
                                      ELSE R.aPrime
        /\ Emit(r.bPrime, R.bPrime) = IF Head(a) = Retain THEN PushFront(Head(b), R.bPrime)
                                      ELSE R.bPrime
    BY <1>19, <2>1
  <2>5. QED
    BY <1>17, <2>2, <2>3, <2>4
<1>24. QED
  BY <1>18, <1>21, <1>22, <1>23

LEMMA PushFrontEffect ==
  ASSUME NEW o \in Operation
  PROVE  /\ \A c \in Component : /\ PushFront(c, o) \in Operation
                                 /\ Normal(o) => Normal(PushFront(c, o))
         /\ \A c \in Char : /\ BaseLen(PushFront(c, o)) = BaseLen(o)
                            /\ TargetLen(PushFront(c, o)) = TargetLen(o) + 1
                            /\ \A t \in Text : Applicable(o, t)
                                 => Apply(PushFront(c, o), t) = <<c>> \o Apply(o, t)
         /\ BaseLen(PushFront(Retain, o)) = BaseLen(o) + 1
         /\ TargetLen(PushFront(Retain, o)) = TargetLen(o) + 1
         /\ BaseLen(PushFront(Delete, o)) = BaseLen(o) + 1
         /\ TargetLen(PushFront(Delete, o)) = TargetLen(o)
         /\ \A t \in Text, ch \in Char : Applicable(o, t) =>
              /\ Apply(PushFront(Retain, o), <<ch>> \o t) = <<ch>> \o Apply(o, t)
              /\ Apply(PushFront(Delete, o), <<ch>> \o t) = Apply(o, t)
<1>1. \A c \in Component : PushFront(c, o) \in Operation /\ (Normal(o) => Normal(PushFront(c, o)))
  BY PushFrontFacts
<1>2. ASSUME NEW c \in Char
      PROVE  /\ BaseLen(PushFront(c, o)) = BaseLen(o)
             /\ TargetLen(PushFront(c, o)) = TargetLen(o) + 1
             /\ \A t \in Text : Applicable(o, t)
                  => Apply(PushFront(c, o), t) = <<c>> \o Apply(o, t)
  <2>1. c \in Component
    BY ComponentKinds
  <2>2. BaseLen(PushFront(c, o)) = BaseLen(o) /\ TargetLen(PushFront(c, o)) = TargetLen(o) + 1
    BY <2>1, PushFrontFacts, LengthsOfCons
  <2>3. ASSUME NEW t \in Text, Applicable(o, t)
        PROVE  Apply(PushFront(c, o), t) = <<c>> \o Apply(o, t)
    <3>1. Applicable(<<c>> \o o, t)
      BY <2>3, FitsCons
    <3>2. Apply(PushFront(c, o), t) = Apply(<<c>> \o o, t)
      BY <2>1, <3>1, PushFrontFacts
    <3>3. QED
      BY <3>2, ApplyCons
  <2>4. QED
    BY <2>2, <2>3
<1>3. /\ BaseLen(PushFront(Retain, o)) = BaseLen(o) + 1
      /\ TargetLen(PushFront(Retain, o)) = TargetLen(o) + 1
      /\ BaseLen(PushFront(Delete, o)) = BaseLen(o) + 1
      /\ TargetLen(PushFront(Delete, o)) = TargetLen(o)
  BY PushFrontFacts, LengthsOfCons, ComponentKinds
<1>4. ASSUME NEW t \in Text, NEW ch \in Char, Applicable(o, t)
      PROVE  /\ Apply(PushFront(Retain, o), <<ch>> \o t) = <<ch>> \o Apply(o, t)
             /\ Apply(PushFront(Delete, o), <<ch>> \o t) = Apply(o, t)
  <2>1. PICK u : u = <<ch>> \o t
    OBVIOUS
  <2>2. u \in Text
    BY <2>1, ConsOfText
  <2>3. Applicable(<<Retain>> \o o, u) /\ Applicable(<<Delete>> \o o, u)
    <3>1. /\ Applicable(<<Retain>> \o o, <<ch>> \o t) <=> Applicable(o, t)
          /\ Applicable(<<Delete>> \o o, <<ch>> \o t) <=> Applicable(o, t)
      BY FitsCons
    <3>2. QED
      BY <1>4, <2>1, <3>1
  <2>4. Apply(PushFront(Retain, o), u) = Apply(<<Retain>> \o o, u)
    BY <2>2, <2>3, PushFrontFacts, ComponentKinds
  <2>5. Apply(PushFront(Delete, o), u) = Apply(<<Delete>> \o o, u)
    BY <2>2, <2>3, PushFrontFacts, ComponentKinds
  <2>6. /\ Apply(<<Retain>> \o o, <<ch>> \o t) = <<ch>> \o Apply(o, t)
        /\ Apply(<<Delete>> \o o, <<ch>> \o t) = Apply(o, t)
    BY ApplyCons
  <2>7. QED
    BY <2>1, <2>4, <2>5, <2>6
<1>5. QED
  BY <1>1, <1>2, <1>3, <1>4

\* What Transform makes of a and b.
Exchanges(a, b, p) ==
  /\ p.aPrime \in Operation /\ p.bPrime \in Operation
  /\ BaseLen(p.aPrime) = TargetLen(b) /\ BaseLen(p.bPrime) = TargetLen(a)
  /\ Normal(p.aPrime) /\ Normal(p.bPrime)
  /\ \A t \in Text : Applicable(a, t) =>
       Apply(p.bPrime, Apply(a, t)) = Apply(p.aPrime, Apply(b, t))

Convergent(a, b) == Transformable(a, b) => Exchanges(a, b, Transform(a, b))

LEMMA ConvergentEmpty == Convergent(<<>>, <<>>)
<1>1. Transform(<<>>, <<>>) = [aPrime |-> <<>>, bPrime |-> <<>>]
  BY EmptyOnes, TransformSteps
<1>2. Normal(<<>>)
  BY EmptyOnes DEF Normal
<1>3. QED
  BY <1>1, <1>2, EmptyOnes DEF Convergent, Exchanges

LEMMA ConvergentInsertA ==
  ASSUME NEW a \in Operation, NEW b \in Operation, Convergent(a, b), NEW c \in Char
  PROVE  Convergent(<<c>> \o a, b)
<1> SUFFICES ASSUME Transformable(<<c>> \o a, b)
             PROVE  Exchanges(<<c>> \o a, b, Transform(<<c>> \o a, b))
  BY DEF Convergent
<1>1. PICK x, R, p : x = <<c>> \o a /\ R = Transform(a, b) /\ p = Transform(x, b)
  OBVIOUS
<1>2. Transformable(a, b)
  BY LengthsOfCons DEF Transformable
<1>3. Exchanges(a, b, R)
  BY <1>1, <1>2 DEF Convergent
<1>4. x \in Operation /\ x # <<>> /\ Head(x) = c /\ Rest(x) = a
  BY <1>1, ConsOfOperation, ComponentKinds
<1>5. Inserts(x)
  BY <1>4 DEF Inserts
<1>6. p.aPrime = PushFront(c, R.aPrime) /\ p.bPrime = PushFront(Retain, R.bPrime)
  <2>1. Transform(x, b) = [aPrime |-> PushFront(Head(x), Transform(Rest(x), b).aPrime),
                           bPrime |-> PushFront(Retain, Transform(Rest(x), b).bPrime)]
    BY <1>4, <1>5, TransformSteps
  <2>2. p = [aPrime |-> PushFront(c, R.aPrime), bPrime |-> PushFront(Retain, R.bPrime)]
    BY <1>1, <1>4, <2>1
  <2>3. QED
    BY <2>2
<1>7. c \in Component /\ Retain \in Component
  BY ComponentKinds
<1>8. /\ p.aPrime \in Operation /\ p.bPrime \in Operation
      /\ Normal(p.aPrime) /\ Normal(p.bPrime)
      /\ BaseLen(p.aPrime) = TargetLen(b)
  BY <1>3, <1>6, <1>7, PushFrontEffect DEF Exchanges
<1>9. BaseLen(p.bPrime) = TargetLen(x)
  <2>1. BaseLen(p.bPrime) = BaseLen(R.bPrime) + 1
    BY <1>3, <1>6, PushFrontEffect DEF Exchanges
  <2>2. TargetLen(x) = TargetLen(a) + 1
    BY <1>1, LengthsOfCons
  <2>3. QED
    BY <1>3, <2>1, <2>2 DEF Exchanges
<1>10. ASSUME NEW t \in Text, Applicable(x, t)
       PROVE  Apply(p.bPrime, Apply(x, t)) = Apply(p.aPrime, Apply(b, t))
  <2>1. Applicable(a, t) /\ Applicable(b, t)
    BY <1>1, <1>2, <1>10, FitsCons DEF Applicable, Transformable
  <2>2. PICK u, v : u = Apply(a, t) /\ v = Apply(b, t)
    OBVIOUS
  <2>3. u \in Text /\ Len(u) = TargetLen(a) /\ v \in Text /\ Len(v) = TargetLen(b)
    BY <2>1, <2>2, ApplyType
  <2>4. Applicable(R.bPrime, u) /\ Applicable(R.aPrime, v)
    BY <1>3, <2>3 DEF Exchanges, Applicable
  <2>5. Apply(R.bPrime, u) = Apply(R.aPrime, v)
    BY <1>3, <2>1, <2>2 DEF Exchanges
  <2>6. Apply(x, t) = <<c>> \o u
    BY <1>1, <2>2, ApplyCons
  <2>7. Apply(p.bPrime, <<c>> \o u) = <<c>> \o Apply(R.bPrime, u)
    <3>1. R.bPrime \in Operation
      BY <1>3 DEF Exchanges
    <3>2. Apply(PushFront(Retain, R.bPrime), <<c>> \o u) = <<c>> \o Apply(R.bPrime, u)
      BY <2>3, <2>4, <3>1, PushFrontEffect
    <3>3. QED
      BY <1>6, <3>2
  <2>8. Apply(p.aPrime, v) = <<c>> \o Apply(R.aPrime, v)
    BY <1>3, <1>6, <2>3, <2>4, PushFrontEffect DEF Exchanges
  <2>9. QED
    BY <2>2, <2>5, <2>6, <2>7, <2>8
<1>11. QED
  BY <1>1, <1>8, <1>9, <1>10 DEF Exchanges

LEMMA ConvergentInsertB ==
  ASSUME NEW a \in Operation, NEW b \in Operation, Convergent(a, b), NEW c \in Char, ~Inserts(a)
  PROVE  Convergent(a, <<c>> \o b)
<1> SUFFICES ASSUME Transformable(a, <<c>> \o b)
             PROVE  Exchanges(a, <<c>> \o b, Transform(a, <<c>> \o b))
  BY DEF Convergent
<1>1. PICK y, R, p : y = <<c>> \o b /\ R = Transform(a, b) /\ p = Transform(a, y)
  OBVIOUS
<1>2. Transformable(a, b)
  BY LengthsOfCons DEF Transformable
<1>3. Exchanges(a, b, R)
  BY <1>1, <1>2 DEF Convergent
<1>4. y \in Operation /\ y # <<>> /\ Head(y) = c /\ Rest(y) = b
  BY <1>1, ConsOfOperation, ComponentKinds
<1>5. Inserts(y)
  BY <1>4 DEF Inserts
<1>6. p.aPrime = PushFront(Retain, R.aPrime) /\ p.bPrime = PushFront(c, R.bPrime)
  <2>1. Transform(a, y) = [aPrime |-> PushFront(Retain, Transform(a, Rest(y)).aPrime),
                           bPrime |-> PushFront(Head(y), Transform(a, Rest(y)).bPrime)]
    BY <1>4, <1>5, TransformSteps
  <2>2. p = [aPrime |-> PushFront(Retain, R.aPrime), bPrime |-> PushFront(c, R.bPrime)]
    BY <1>1, <1>4, <2>1
  <2>3. QED
    BY <2>2
<1>7. c \in Component /\ Retain \in Component
  BY ComponentKinds
<1>8. /\ p.aPrime \in Operation /\ p.bPrime \in Operation
      /\ Normal(p.aPrime) /\ Normal(p.bPrime)
      /\ BaseLen(p.bPrime) = TargetLen(a)
  BY <1>3, <1>6, <1>7, PushFrontEffect DEF Exchanges
<1>9. BaseLen(p.aPrime) = TargetLen(y)
  <2>1. BaseLen(p.aPrime) = BaseLen(R.aPrime) + 1
    BY <1>3, <1>6, PushFrontEffect DEF Exchanges
  <2>2. TargetLen(y) = TargetLen(b) + 1
    BY <1>1, LengthsOfCons
  <2>3. QED
    BY <1>3, <2>1, <2>2 DEF Exchanges
<1>10. ASSUME NEW t \in Text, Applicable(a, t)
       PROVE  Apply(p.bPrime, Apply(a, t)) = Apply(p.aPrime, Apply(y, t))
  <2>1. Applicable(a, t) /\ Applicable(b, t)
    BY <1>2, <1>10 DEF Applicable, Transformable
  <2>2. PICK u, v : u = Apply(a, t) /\ v = Apply(b, t)
    OBVIOUS
  <2>3. u \in Text /\ Len(u) = TargetLen(a) /\ v \in Text /\ Len(v) = TargetLen(b)
    BY <2>1, <2>2, ApplyType
  <2>4. Applicable(R.bPrime, u) /\ Applicable(R.aPrime, v)
    BY <1>3, <2>3 DEF Exchanges, Applicable
  <2>5. Apply(R.bPrime, u) = Apply(R.aPrime, v)
    BY <1>3, <2>1, <2>2 DEF Exchanges
  <2>6. Apply(y, t) = <<c>> \o v
    BY <1>1, <2>2, ApplyCons
  <2>7. Apply(p.aPrime, <<c>> \o v) = <<c>> \o Apply(R.aPrime, v)
    <3>1. R.aPrime \in Operation
      BY <1>3 DEF Exchanges
    <3>2. Apply(PushFront(Retain, R.aPrime), <<c>> \o v) = <<c>> \o Apply(R.aPrime, v)
      BY <2>3, <2>4, <3>1, PushFrontEffect
    <3>3. QED
      BY <1>6, <3>2
  <2>8. Apply(p.bPrime, u) = <<c>> \o Apply(R.bPrime, u)
    BY <1>3, <1>6, <2>3, <2>4, PushFrontEffect DEF Exchanges
  <2>9. QED
    BY <2>2, <2>5, <2>6, <2>7, <2>8
<1>11. QED
  BY <1>1, <1>8, <1>9, <1>10 DEF Exchanges

LEMMA ConvergentPair ==
  ASSUME NEW a \in Operation, NEW b \in Operation, Convergent(a, b),
         NEW c \in {Retain, Delete}, NEW d \in {Retain, Delete}
  PROVE  Convergent(<<c>> \o a, <<d>> \o b)
<1> SUFFICES ASSUME Transformable(<<c>> \o a, <<d>> \o b)
             PROVE  Exchanges(<<c>> \o a, <<d>> \o b, Transform(<<c>> \o a, <<d>> \o b))
  BY DEF Convergent
<1>1. PICK x, y, R, p : /\ x = <<c>> \o a /\ y = <<d>> \o b
                        /\ R = Transform(a, b) /\ p = Transform(x, y)
  OBVIOUS
<1>2. c \in Component /\ d \in Component /\ c \notin Char /\ d \notin Char
  BY ComponentKinds
<1>3. /\ BaseLen(x) = BaseLen(a) + 1 /\ BaseLen(y) = BaseLen(b) + 1
      /\ TargetLen(x) = TargetLen(a) + (IF c = Retain THEN 1 ELSE 0)
      /\ TargetLen(y) = TargetLen(b) + (IF d = Retain THEN 1 ELSE 0)
      /\ BaseLen(a) \in Nat /\ BaseLen(b) \in Nat
      /\ TargetLen(a) \in Nat /\ TargetLen(b) \in Nat
  <2>1. ASSUME NEW o \in Operation, NEW e \in {Retain, Delete}
        PROVE  /\ BaseLen(<<e>> \o o) = BaseLen(o) + 1 /\ BaseLen(o) \in Nat
               /\ TargetLen(<<e>> \o o) = TargetLen(o) + (IF e = Retain THEN 1 ELSE 0)
               /\ TargetLen(o) \in Nat
    <3>1. CASE e = Retain
      BY <3>1, LengthsOfCons
    <3>2. CASE e = Delete
      <4>1. TargetLen(o) \in Nat /\ TargetLen(<<Delete>> \o o) = TargetLen(o)
              /\ BaseLen(<<Delete>> \o o) = BaseLen(o) + 1 /\ BaseLen(o) \in Nat
        BY LengthsOfCons
      <4>2. QED
        BY <3>2, <4>1, ComponentKinds
    <3>3. QED
      BY <3>1, <3>2
  <2>2. /\ BaseLen(<<c>> \o a) = BaseLen(a) + 1 /\ BaseLen(a) \in Nat
        /\ TargetLen(<<c>> \o a) = TargetLen(a) + (IF c = Retain THEN 1 ELSE 0)
        /\ TargetLen(a) \in Nat
    BY <2>1
  <2>3. /\ BaseLen(<<d>> \o b) = BaseLen(b) + 1 /\ BaseLen(b) \in Nat
        /\ TargetLen(<<d>> \o b) = TargetLen(b) + (IF d = Retain THEN 1 ELSE 0)
        /\ TargetLen(b) \in Nat
    BY <2>1
  <2>4. x = <<c>> \o a /\ y = <<d>> \o b
    BY <1>1
  <2>5. BaseLen(x) = BaseLen(a) + 1
    BY <2>2, <2>4
  <2>6. TargetLen(x) = TargetLen(a) + (IF c = Retain THEN 1 ELSE 0)
    BY <2>2, <2>4
  <2>7. BaseLen(y) = BaseLen(b) + 1
    BY <2>3, <2>4
  <2>8. TargetLen(y) = TargetLen(b) + (IF d = Retain THEN 1 ELSE 0)
    BY <2>3, <2>4
  <2>9. QED
    BY <2>2, <2>3, <2>5, <2>6, <2>7, <2>8
<1>4. Transformable(a, b)
  <2>1. Transformable(x, y)
    BY <1>1
  <2>2. QED
    BY <1>3, <2>1 DEF Transformable
<1>5. Exchanges(a, b, R)
  BY <1>1, <1>4 DEF Convergent
<1>6. /\ x \in Operation /\ x # <<>> /\ Head(x) = c /\ Rest(x) = a
      /\ y \in Operation /\ y # <<>> /\ Head(y) = d /\ Rest(y) = b
  BY <1>1, <1>2, ConsOfOperation
<1>7. ~Inserts(x) /\ ~Inserts(y)
  BY <1>2, <1>6 DEF Inserts
<1>8. /\ p.aPrime = IF d = Retain THEN PushFront(c, R.aPrime) ELSE R.aPrime
      /\ p.bPrime = IF c = Retain THEN PushFront(d, R.bPrime) ELSE R.bPrime
  <2>1. Transform(x, y) =
                [aPrime |-> IF Head(y) = Retain
                            THEN PushFront(Head(x), Transform(Rest(x), Rest(y)).aPrime)
                            ELSE Transform(Rest(x), Rest(y)).aPrime,
                 bPrime |-> IF Head(x) = Retain
                            THEN PushFront(Head(y), Transform(Rest(x), Rest(y)).bPrime)
                            ELSE Transform(Rest(x), Rest(y)).bPrime]
    BY <1>6, <1>7, TransformSteps
  <2>2. p = [aPrime |-> IF d = Retain THEN PushFront(c, R.aPrime) ELSE R.aPrime,
             bPrime |-> IF c = Retain THEN PushFront(d, R.bPrime) ELSE R.bPrime]
    BY <1>1, <1>6, <2>1
  <2>3. QED
    BY <2>2
<1>9. /\ p.aPrime \in Operation /\ p.bPrime \in Operation
      /\ Normal(p.aPrime) /\ Normal(p.bPrime)
  BY <1>2, <1>5, <1>8, PushFrontEffect DEF Exchanges
<1>10. BaseLen(p.aPrime) = TargetLen(y)
  <2>1. \A e \in {Retain, Delete} : BaseLen(PushFront(e, R.aPrime)) = BaseLen(R.aPrime) + 1
    BY <1>5, PushFrontEffect DEF Exchanges
  <2>2. BaseLen(R.aPrime) = TargetLen(b)
    BY <1>5 DEF Exchanges
  <2>3. QED
    BY <1>3, <1>8, <2>1, <2>2
<1>11. BaseLen(p.bPrime) = TargetLen(x)
  <2>1. \A e \in {Retain, Delete} : BaseLen(PushFront(e, R.bPrime)) = BaseLen(R.bPrime) + 1
    BY <1>5, PushFrontEffect DEF Exchanges
  <2>2. BaseLen(R.bPrime) = TargetLen(a)
    BY <1>5 DEF Exchanges
  <2>3. QED
    BY <1>3, <1>8, <2>1, <2>2
<1>12. ASSUME NEW t \in Text, Applicable(x, t)
       PROVE  Apply(p.bPrime, Apply(x, t)) = Apply(p.aPrime, Apply(y, t))
  <2>1. PICK ch \in Char, s \in Text : t = <<ch>> \o s /\ Applicable(a, s)
    BY <1>1, <1>12, FitsCons
  <2>2. Applicable(b, s)
    BY <1>4, <2>1 DEF Applicable, Transformable
  <2>3. PICK u, v : u = Apply(a, s) /\ v = Apply(b, s)
    OBVIOUS
  <2>4. u \in Text /\ Len(u) = TargetLen(a) /\ v \in Text /\ Len(v) = TargetLen(b)
    BY <2>1, <2>2, <2>3, ApplyType
  <2>5. Applicable(R.bPrime, u) /\ Applicable(R.aPrime, v)
    BY <1>5, <2>4 DEF Exchanges, Applicable
  <2>6. Apply(R.bPrime, u) = Apply(R.aPrime, v)
    BY <1>5, <2>1, <2>3 DEF Exchanges
  <2>7. R.aPrime \in Operation /\ R.bPrime \in Operation
    BY <1>5 DEF Exchanges
  <2>8. /\ Apply(PushFront(Retain, R.bPrime), <<ch>> \o u) = <<ch>> \o Apply(R.bPrime, u)
        /\ Apply(PushFront(Delete, R.bPrime), <<ch>> \o u) = Apply(R.bPrime, u)
    BY <2>4, <2>5, <2>7, PushFrontEffect
  <2>9. /\ Apply(PushFront(Retain, R.aPrime), <<ch>> \o v) = <<ch>> \o Apply(R.aPrime, v)
        /\ Apply(PushFront(Delete, R.aPrime), <<ch>> \o v) = Apply(R.aPrime, v)
    BY <2>4, <2>5, <2>7, PushFrontEffect
  <2>10. Apply(x, t) = IF c = Retain THEN <<ch>> \o u ELSE u
    <3>1. /\ Apply(<<Retain>> \o a, <<ch>> \o s) = <<ch>> \o Apply(a, s)
          /\ Apply(<<Delete>> \o a, <<ch>> \o s) = Apply(a, s)
      BY ApplyCons
    <3>2. QED
      BY <1>1, <2>1, <2>3, <3>1
  <2>11. Apply(y, t) = IF d = Retain THEN <<ch>> \o v ELSE v
    <3>1. /\ Apply(<<Retain>> \o b, <<ch>> \o s) = <<ch>> \o Apply(b, s)
          /\ Apply(<<Delete>> \o b, <<ch>> \o s) = Apply(b, s)
      BY ApplyCons
    <3>2. QED
      BY <1>1, <2>1, <2>3, <3>1
  <2>12. CASE c = Retain /\ d = Retain
    BY <1>8, <2>6, <2>8, <2>9, <2>10, <2>11, <2>12
  <2>13. CASE c = Retain /\ d = Delete
    BY <1>8, <2>6, <2>8, <2>9, <2>10, <2>11, <2>13, ComponentKinds
  <2>14. CASE c = Delete /\ d = Retain
    BY <1>8, <2>6, <2>8, <2>9, <2>10, <2>11, <2>14, ComponentKinds
  <2>15. CASE c = Delete /\ d = Delete
    BY <1>8, <2>6, <2>10, <2>11, <2>15, ComponentKinds
  <2>16. QED
    BY <2>12, <2>13, <2>14, <2>15
<1>13. QED
  BY <1>1, <1>9, <1>10, <1>11, <1>12 DEF Exchanges

\* Whichever of two operations on a text is applied first, the other one,
\* transformed, leads to the same text: of every two operations.
THEOREM Transformation == \A a, b \in Operation : Convergent(a, b)
<1> DEFINE A == {n \in Nat : \A a, b \in Operation : Len(a) + Len(b) <= n => Convergent(a, b)}
<1>1. \A o \in Operation : Len(o) \in Nat /\ (Len(o) = 0 <=> o = <<>>)
  BY EmptySeq DEF Operation
<1>2. 0 \in A
  <2>1. ASSUME NEW a \in Operation, NEW b \in Operation, Len(a) + Len(b) <= 0
        PROVE  a = <<>> /\ b = <<>>
    BY <1>1, <2>1
  <2>2. QED
    BY <2>1, ConvergentEmpty
<1>3. ASSUME NEW n \in A PROVE n + 1 \in A
  <2>1. ASSUME NEW a \in Operation, NEW b \in Operation, Len(a) + Len(b) <= n + 1
        PROVE  Convergent(a, b)
    <3>0. \A x, y \in Operation : Len(x) + Len(y) <= n => Convergent(x, y)
      OBVIOUS
    <3>1. CASE Inserts(a)
      <4>1. PICK c \in Component, u \in Operation : a = <<c>> \o u /\ Len(a) = Len(u) + 1
        BY <3>1, OperationCases DEF Inserts
      <4>2. c \in Char
        BY <3>1, <4>1, ConsOfOperation DEF Inserts
      <4>3. Len(u) + Len(b) <= n
        BY <1>1, <2>1, <4>1
      <4>4. QED
        BY <3>0, <4>1, <4>2, <4>3, ConvergentInsertA
    <3>2. CASE ~Inserts(a) /\ Inserts(b)
      <4>1. PICK c \in Component, u \in Operation : b = <<c>> \o u /\ Len(b) = Len(u) + 1
        BY <3>2, OperationCases DEF Inserts
      <4>2. c \in Char
        BY <3>2, <4>1, ConsOfOperation DEF Inserts
      <4>3. Len(a) + Len(u) <= n
        BY <1>1, <2>1, <4>1
      <4>4. QED
        BY <3>0, <3>2, <4>1, <4>2, <4>3, ConvergentInsertB
    <3>3. CASE ~Inserts(a) /\ ~Inserts(b) /\ a # <<>> /\ b # <<>>
      <4>1. PICK c \in Component, u \in Operation : a = <<c>> \o u /\ Len(a) = Len(u) + 1
        BY <3>3, OperationCases
      <4>2. PICK d \in Component, v \in Operation : b = <<d>> \o v /\ Len(b) = Len(v) + 1
        BY <3>3, OperationCases
      <4>3. c \notin Char /\ d \notin Char
        BY <3>3, <4>1, <4>2, ConsOfOperation DEF Inserts
      <4>4. c \in {Retain, Delete} /\ d \in {Retain, Delete}
        BY <4>3, ComponentKinds
      <4>5. Len(u) + Len(v) <= n
        BY <1>1, <2>1, <4>1, <4>2
      <4>6. QED
        BY <3>0, <4>1, <4>2, <4>4, <4>5, ConvergentPair
    <3>4. CASE a = <<>> /\ b = <<>>
      BY <3>4, ConvergentEmpty
    <3>5. ASSUME NEW o \in Operation, ~Inserts(o), o # <<>> PROVE BaseLen(o) # 0
      <4>1. PICK c \in Component, u \in Operation : o = <<c>> \o u
        BY <3>5, OperationCases
      <4>2. c \notin Char
        BY <3>5, <4>1, ConsOfOperation DEF Inserts
      <4>3. c = Retain \/ c = Delete
        BY <4>2, ComponentKinds
      <4>4. BaseLen(u) \in Nat /\ BaseLen(o) = BaseLen(u) + 1
        BY <4>1, <4>3, LengthsOfCons
      <4>5. QED
        BY <4>4
    <3>6. CASE ~Inserts(a) /\ ~Inserts(b) /\ (a = <<>> \/ b = <<>>) /\ ~(a = <<>> /\ b = <<>>)
      <4>1. ~Transformable(a, b)
        BY <3>5, <3>6, EmptyOnes DEF Transformable
      <4>2. QED
        BY <4>1 DEF Convergent
    <3>7. QED
      BY <3>1, <3>2, <3>3, <3>4, <3>6
  <2>2. QED
    BY <2>1
<1>4. A = Nat
  <2> HIDE DEF A
  <2>1. A \in SUBSET Nat
    BY DEF A
  <2>2. QED
    BY <1>2, <1>3, <2>1, Induction
<1>5. ASSUME NEW a \in Operation, NEW b \in Operation PROVE Convergent(a, b)
  <2>1. PICK n : n = Len(a) + Len(b)
    OBVIOUS
  <2>2. n \in Nat /\ n <= n
    BY <1>1, <2>1
  <2>3. n \in A
    <3> HIDE DEF A
    <3>1. QED
      BY <1>4, <2>2
  <2>4. QED
    BY <2>1, <2>2, <2>3
<1>6. QED
  BY <1>5

----------------------------------------------------------------------------
(* Folding over a sequence, and the difference of two texts (textDiff.ts). *)

\* A set of positions has a last one.
LEMMA LastPosition ==
  ASSUME NEW n \in Nat, NEW s \in SUBSET (1..n), s # {}
  PROVE  Max(s) \in s /\ \A y \in s : Max(s) >= y
<1> DEFINE D == {n - x : x \in s}
<1>1. D \in SUBSET Nat /\ D # {}
  <2>1. \A x \in s : n - x \in Nat
    OBVIOUS
  <2>2. QED
    BY <2>1
<1>2. PICK d \in D : \A k \in D : d <= k
  <2> HIDE DEF D
  <2>1. QED
    BY <1>1, LeastNumber
<1>3. PICK x \in s : d = n - x
  OBVIOUS
<1>4. ASSUME NEW y \in s PROVE x >= y
  <2>1. n - y \in D
    OBVIOUS
  <2>2. n - x <= n - y
    BY <1>2, <1>3, <2>1
  <2>3. QED
    BY <2>2
<1>5. \E m \in s : \A y \in s : m >= y
  BY <1>4
<1>6. QED
  BY <1>5 DEF Max

\* G says what a fold over the positions 1..n makes of what it has, in T, at
\* a position.
Folding(n, T, base, G) == n \in Nat /\ base \in T /\ G \in [T \X (1..n) -> T]

FoldTable(n, T, base, G, iter) ==
  /\ iter \in [SUBSET (1..n) -> T]
  /\ \A s \in SUBSET (1..n) :
       iter[s] = IF s = {} THEN base ELSE G[<<iter[s \ {Max(s)}], Max(s)>>]

LEMMA FoldExists ==
  ASSUME NEW n, NEW T, NEW base, NEW G, Folding(n, T, base, G)
  PROVE  \E iter : FoldTable(n, T, base, G, iter)
<1> USE DEF Folding
<1> DEFINE S == SUBSET (1..n)
           size == [s \in S |-> Cardinality(s)]
           step(s, g) == IF s = {} THEN base ELSE G[<<g[s \ {Max(s)}], Max(s)>>]
           F == [x \in S \X [S -> T] |-> step(x[1], x[2])]
<1>1. ASSUME NEW s \in S PROVE IsFiniteSet(s) /\ Cardinality(s) \in Nat
  <2>1. IsFiniteSet(1..n) /\ s \in SUBSET (1..n)
    BY FS_Interval
  <2>2. IsFiniteSet(s)
    BY <2>1, FS_Subset
  <2>3. QED
    BY <2>2, FS_CardinalityType
<1>2. ASSUME NEW s \in S, s # {}
      PROVE  /\ Max(s) \in 1..n /\ s \ {Max(s)} \in S
             /\ size[s \ {Max(s)}] < size[s]
  <2>1. Max(s) \in s
    BY <1>2, LastPosition
  <2>2. IsFiniteSet(s) /\ Cardinality(s) \in Nat
    BY <1>1
  <2>3. Cardinality(s \ {Max(s)}) = Cardinality(s) - 1
    BY <2>1, <2>2, FS_RemoveElement
  <2>4. Max(s) \in 1..n /\ s \ {Max(s)} \in S
    BY <2>1
  <2>5. size[s \ {Max(s)}] = Cardinality(s \ {Max(s)}) /\ size[s] = Cardinality(s)
    BY <2>4
  <2>6. QED
    BY <2>2, <2>3, <2>4, <2>5
<1>3. T # {} /\ size \in [S -> Nat]
  BY <1>1
<1>4. \A s \in S, g \in [S -> T] : step(s, g) \in T
  <2> SUFFICES ASSUME NEW s \in S, NEW g \in [S -> T] PROVE step(s, g) \in T
    OBVIOUS
  <2>1. CASE s = {}
    BY <2>1
  <2>2. CASE s # {}
    <3>1. g[s \ {Max(s)}] \in T /\ Max(s) \in 1..n
      BY <1>2, <2>2
    <3>2. QED
      BY <2>2, <3>1
  <2>3. QED
    BY <2>1, <2>2
<1>5. F \in [S \X [S -> T] -> T]
  <2> HIDE DEF step, S
  <2>1. QED
    BY <1>4
<1>6. \A s \in S, g, h \in [S -> T] :
        (\A y \in S : size[y] < size[s] => g[y] = h[y]) => F[<<s, g>>] = F[<<s, h>>]
  <2>1. \A s \in S, g, h \in [S -> T] :
          (\A y \in S : size[y] < size[s] => g[y] = h[y]) => step(s, g) = step(s, h)
    <3> HIDE DEF size, S
    <3>1. QED
      BY <1>2
  <2> HIDE DEF step, S, size
  <2>2. QED
    BY <2>1
<1>7. PICK g \in [S -> T] : \A s \in S : g[s] = F[<<s, g>>]
  <2> HIDE DEF S, size, F
  <2>1. Recursion(S, T, size, F)
    BY <1>3, <1>5, <1>6 DEF Recursion
  <2>2. QED
    BY <2>1, RecursiveFunction
<1>8. \A s \in S : g[s] = step(s, g)
  <2> HIDE DEF step, S
  <2>1. QED
    BY <1>7
<1>9. FoldTable(n, T, base, G, g)
  BY <1>7, <1>8 DEF FoldTable
<1>10. QED
  BY <1>9

Folded(n, T, base, G, iter) ==
  /\ iter[{}] = base
  /\ \A s \in SUBSET (1..n) : s # {} /\ iter[s \ {Max(s)}] \in T
       => iter[s] = G[<<iter[s \ {Max(s)}], Max(s)>>]

LEMMA FoldRun ==
  ASSUME NEW n, NEW T, NEW base, NEW G, Folding(n, T, base, G),
         NEW iter, Folded(n, T, base, G, iter)
  PROVE  \E h \in [0..n -> T] :
           /\ h[0] = base /\ h[n] = iter[1..n]
           /\ \A k \in 0..n - 1 : h[k + 1] = G[<<h[k], k + 1>>]
<1> USE DEF Folding, Folded
<1> DEFINE h == [k \in 0..n |-> iter[1..k]]
           P == {k \in Nat : k <= n => h[k] \in T}
<1>1. 0 \in P /\ h[0] = base
  <2>1. 1..0 = {}
    OBVIOUS
  <2>2. QED
    BY <2>1
<1>2. ASSUME NEW k \in Nat, k + 1 <= n, h[k] \in T
      PROVE  h[k + 1] = G[<<h[k], k + 1>>] /\ h[k + 1] \in T
  <2>1. PICK s : s = 1..k + 1
    OBVIOUS
  <2>2. s \in SUBSET (1..n) /\ s # {} /\ k + 1 \in s
    <3>1. k + 1 \in 1..k + 1 /\ \A i \in 1..k + 1 : i \in 1..n
      BY <1>2
    <3>2. QED
      BY <2>1, <3>1
  <2>3. Max(s) \in s /\ \A y \in s : Max(s) >= y
    BY <2>2, LastPosition
  <2>4. Max(s) = k + 1
    BY <2>1, <2>2, <2>3
  <2>5. s \ {k + 1} = 1..k
    BY <2>1
  <2>6. iter[1..k] \in T
    BY <1>2
  <2>7. iter[s] = G[<<iter[1..k], k + 1>>]
    BY <2>2, <2>4, <2>5, <2>6
  <2>8. <<iter[1..k], k + 1>> \in T \X (1..n)
    BY <1>2, <2>6
  <2>9. h[k] = iter[1..k] /\ h[k + 1] = iter[s]
    BY <1>2, <2>1
  <2>10. QED
    BY <2>7, <2>8, <2>9
<1>3. ASSUME NEW k \in P PROVE k + 1 \in P
  <2>1. ASSUME k + 1 <= n PROVE h[k + 1] \in T
    <3>1. h[k] \in T
      BY <2>1
    <3>2. QED
      BY <1>2, <2>1, <3>1
  <2>2. QED
    BY <2>1
<1>4. P = Nat
  <2> HIDE DEF P
  <2>1. P \in SUBSET Nat
    BY DEF P
  <2>2. QED
    BY <1>1, <1>3, <2>1, Induction
<1>5. h \in [0..n -> T] /\ h[n] = iter[1..n]
  <2>1. \A k \in 0..n : h[k] \in T
    <3> HIDE DEF h
    <3>1. \A k \in 0..n : k \in P /\ k <= n
      BY <1>4
    <3>2. QED
      BY <3>1
  <2>2. n \in 0..n /\ h = [k \in 0..n |-> h[k]]
    OBVIOUS
  <2>3. h[n] = iter[1..n]
    BY <2>2
  <2> HIDE DEF h
  <2>4. QED
    BY <2>1, <2>2, <2>3
<1>6. \A k \in 0..n - 1 : h[k + 1] = G[<<h[k], k + 1>>]
  <2>1. ASSUME NEW k \in 0..n - 1 PROVE k \in Nat /\ k + 1 <= n /\ h[k] \in T
    BY <1>5
  <2> HIDE DEF h
  <2>2. QED
    BY <1>2, <2>1
<1> HIDE DEF h
<1>7. QED
  BY <1>1, <1>5, <1>6

\* Where the deletions at the end of an operation begin.
Trails(o, i) == /\ \A j \in i+1..Len(o) : o[j] = Delete
                /\ i > 0 => o[i] # Delete

LEMMA TrailingDeletions ==
  ASSUME NEW o \in Operation
  PROVE  /\ \E i \in 0..Len(o) : Trails(o, i)
         /\ \A i, j \in 0..Len(o) : Trails(o, i) /\ Trails(o, j) => i = j
<1>1. Len(o) \in Nat
  BY DEF Operation
<1> DEFINE s == {j \in 1..Len(o) : o[j] # Delete}
<1>9. \A i, j \in 0..Len(o) : Trails(o, i) /\ Trails(o, j) => i = j
  <2>1. ASSUME NEW i \in 0..Len(o), NEW j \in 0..Len(o), Trails(o, i), Trails(o, j), i < j
        PROVE  FALSE
    BY <1>1, <2>1 DEF Trails
  <2>2. ASSUME NEW i \in 0..Len(o), NEW j \in 0..Len(o), Trails(o, i), Trails(o, j)
        PROVE  i = j
    <3>1. i < j \/ j < i \/ i = j
      BY <1>1
    <3>2. QED
      BY <2>1, <2>2, <3>1
  <2>3. QED
    BY <2>2
<1>2. CASE s = {}
  <2>1. Trails(o, 0)
    BY <1>2 DEF Trails
  <2>2. QED
    BY <1>1, <2>1, <1>9
<1>4. CASE s # {}
  <2>1. Max(s) \in s /\ \A y \in s : Max(s) >= y
    <3>1. s \in SUBSET (1..Len(o))
      OBVIOUS
    <3> HIDE DEF s
    <3>2. QED
      BY <1>1, <1>4, <3>1, LastPosition
  <2>2. PICK m : m = Max(s)
    OBVIOUS
  <2>3. m \in 1..Len(o) /\ o[m] # Delete /\ \A y \in s : m >= y
    BY <2>1, <2>2
  <2>4. ASSUME NEW j \in m+1..Len(o) PROVE o[j] = Delete
    <3>1. j \in 1..Len(o) /\ ~(m >= j)
      BY <1>1, <2>3, <2>4
    <3>2. QED
      BY <2>3, <3>1
  <2>5. Trails(o, m) /\ m \in 0..Len(o)
    BY <1>1, <2>3, <2>4 DEF Trails
  <2>6. QED
    BY <1>9, <2>5
<1>5. QED
  BY <1>2, <1>4

LEMMA PushType ==
  ASSUME NEW o \in Operation, NEW c \in Component
  PROVE  Push(o, c) \in Operation
<1>1. CASE ~(c \in Char /\ o # <<>> /\ Last(o) = Delete)
  <2>1. Push(o, c) = Append(o, c)
    BY <1>1 DEF Push
  <2>2. QED
    BY <2>1 DEF Operation
<1>2. CASE c \in Char /\ o # <<>> /\ Last(o) = Delete
  <2> DEFINE n == CHOOSE i \in 0..Len(o) : Trails(o, i)
  <2>1. n \in 0..Len(o)
    BY TrailingDeletions
  <2>2. Push(o, c) = SubSeq(o, 1, n) \o <<c>> \o SubSeq(o, n + 1, Len(o))
    BY <1>2 DEF Push, Trails
  <2>3. PICK m, p, q : m = n /\ p = SubSeq(o, 1, m) /\ q = SubSeq(o, m + 1, Len(o))
    OBVIOUS
  <2>4. /\ m \in Int /\ m \in 0..Len(o) /\ Len(o) \in Nat /\ Len(o) \in Int
        /\ \A i \in 1..Len(o) : o[i] \in Component
    BY <2>1, <2>3 DEF Operation
  <2>5. Push(o, c) = p \o <<c>> \o q
    BY <2>2, <2>3
  <2> HIDE DEF n
  <2>6. p \in Seq(Component) /\ q \in Seq(Component)
    <3>1. (\A i \in 1..m : o[i] \in Component) /\ (\A i \in m + 1..Len(o) : o[i] \in Component)
      BY <2>4
    <3>2. p \in Seq(Component)
      BY <2>3, <2>4, <3>1, SubSeqProperties
    <3>3. q \in Seq(Component)
      BY <2>3, <2>4, <3>1, SubSeqProperties
    <3>4. QED
      BY <3>2, <3>3
  <2>7. QED
    BY <2>5, <2>6 DEF Operation
<1>3. QED
  BY <1>1, <1>2

\* Pushing the components of s one by one.
LEMMA PushRun ==
  ASSUME NEW base \in Operation, NEW s \in Operation
  PROVE  \E h \in [0..Len(s) -> Operation] :
           /\ h[0] = base /\ h[Len(s)] = FoldLeft(Push, base, s)
           /\ \A k \in 0..Len(s) - 1 : h[k + 1] = Push(h[k], s[k + 1])
<1>1. PICK n : n = Len(s)
  OBVIOUS
<1>2. n \in Nat /\ DOMAIN s = 1..n /\ \A i \in 1..n : s[i] \in Component
  BY <1>1 DEF Operation
<1>20. PICK G : G = [w \in Operation \X (1..n) |-> Push(w[1], s[w[2]])]
  OBVIOUS
<1> DEFINE rec(f) == f = [r \in SUBSET (1..n) |->
                            IF r = {} THEN base ELSE Push(f[r \ {Max(r)}], s[Max(r)])]
           iter == CHOOSE f : rec(f)
<1>3. Folding(n, Operation, base, G)
  BY <1>2, <1>20, PushType DEF Folding
<1>4. \A o \in Operation, i \in 1..n : G[<<o, i>>] = Push(o, s[i])
  BY <1>20
<1>5. PICK g : FoldTable(n, Operation, base, G, g)
  BY <1>3, FoldExists
<1>16. /\ g \in [SUBSET (1..n) -> Operation]
       /\ \A r \in SUBSET (1..n) :
            g[r] = IF r = {} THEN base ELSE G[<<g[r \ {Max(r)}], Max(r)>>]
  BY <1>5 DEF FoldTable
<1>6. rec(g)
  <2>1. ASSUME NEW r \in SUBSET (1..n)
        PROVE  g[r] = IF r = {} THEN base ELSE Push(g[r \ {Max(r)}], s[Max(r)])
    <3>1. CASE r = {}
      BY <1>16, <3>1
    <3>2. CASE r # {}
      <4>1. Max(r) \in 1..n
        BY <1>2, <3>2, LastPosition
      <4>2. g[r \ {Max(r)}] \in Operation
        BY <1>16
      <4>3. G[<<g[r \ {Max(r)}], Max(r)>>] = Push(g[r \ {Max(r)}], s[Max(r)])
        BY <1>4, <4>1, <4>2
      <4>4. QED
        BY <1>16, <3>2, <4>3
    <3>3. QED
      BY <3>1, <3>2
  <2>2. g = [r \in SUBSET (1..n) |-> g[r]]
    BY <1>16
  <2>3. QED
    BY <2>1, <2>2
<1>7. rec(iter)
  BY <1>6
<1>8. FoldLeft(Push, base, s) = iter[1..n]
  BY <1>2 DEF FoldLeft, MapThenFoldSet
<1>9. PICK it : it = iter
  OBVIOUS
<1>10. \A r \in SUBSET (1..n) :
         it[r] = IF r = {} THEN base ELSE Push(it[r \ {Max(r)}], s[Max(r)])
  <2>1. it = [r \in SUBSET (1..n) |->
                            IF r = {} THEN base ELSE Push(it[r \ {Max(r)}], s[Max(r)])]
    BY <1>7, <1>9
  <2>2. QED
    BY <2>1
<1>11. it[{}] = base
  BY <1>10
<1>12. ASSUME NEW r \in SUBSET (1..n), r # {}, it[r \ {Max(r)}] \in Operation
       PROVE  it[r] = G[<<it[r \ {Max(r)}], Max(r)>>]
  <2>1. Max(r) \in 1..n
    BY <1>2, <1>12, LastPosition
  <2>2. G[<<it[r \ {Max(r)}], Max(r)>>] = Push(it[r \ {Max(r)}], s[Max(r)])
    BY <1>4, <1>12, <2>1
  <2>3. it[r] = Push(it[r \ {Max(r)}], s[Max(r)])
    BY <1>10, <1>12
  <2>4. QED
    BY <2>2, <2>3
<1>13. PICK h \in [0..n -> Operation] :
         /\ h[0] = base /\ h[n] = it[1..n]
         /\ \A k \in 0..n - 1 : h[k + 1] = G[<<h[k], k + 1>>]
  <2>1. \A r \in SUBSET (1..n) : r # {} /\ it[r \ {Max(r)}] \in Operation
           => it[r] = G[<<it[r \ {Max(r)}], Max(r)>>]
    BY <1>12
  <2>2. Folded(n, Operation, base, G, it)
    BY <1>11, <2>1 DEF Folded
  <2>3. QED
    BY <1>3, <2>2, FoldRun
<1>14. \A k \in 0..n - 1 : h[k + 1] = Push(h[k], s[k + 1])
  <2>1. ASSUME NEW k \in 0..n - 1 PROVE h[k] \in Operation /\ k + 1 \in 1..n
    BY <1>2, <1>13
  <2>2. QED
    BY <1>4, <1>13, <2>1
<1>15. h[n] = FoldLeft(Push, base, s)
  BY <1>8, <1>9, <1>13
<1>17. QED
  BY <1>1, <1>13, <1>14, <1>15

\* The parts a concatenation was made of.
LEMMA PartsOf ==
  ASSUME NEW S, NEW s \in Seq(S), NEW t \in Seq(S)
  PROVE  /\ SubSeq(s \o t, 1, Len(s)) = s
         /\ SubSeq(s \o t, Len(s) + 1, Len(s \o t)) = t
<1>1. PICK r, m, n, a, b : /\ r = s \o t /\ m = Len(s) /\ n = Len(t)
                        /\ a = SubSeq(r, 1, m) /\ b = SubSeq(r, m + 1, Len(r))
  OBVIOUS
<1>2. /\ m \in Nat /\ n \in Nat /\ r \in Seq(S) /\ Len(r) = m + n
      /\ \A i \in 1..m + n : r[i] = IF i <= m THEN s[i] ELSE t[i - m]
  BY <1>1, ConcatProperties
<1>3. \A i \in 1..m + n : r[i] \in S
  BY <1>2
<1>4. a = s
  <2>1. m \in Int /\ 1 \in Int /\ \A i \in 1..m : r[i] \in S
    BY <1>2, <1>3
  <2>2. /\ a \in Seq(S) /\ Len(a) = IF 1 <= m THEN m - 1 + 1 ELSE 0
        /\ \A i \in 1..m - 1 + 1 : a[i] = r[1 + i - 1]
    BY <1>1, <2>1, SubSeqProperties
  <2>3. Len(a) = Len(s)
    BY <1>1, <1>2, <2>2
  <2>4. ASSUME NEW i \in 1..Len(a) PROVE a[i] = s[i]
    <3>1. i \in 1..m /\ i \in 1..m - 1 + 1 /\ 1 + i - 1 = i /\ i \in 1..m + n /\ i <= m
      BY <1>1, <1>2, <2>3
    <3>2. a[i] = r[i]
      BY <2>2, <3>1
    <3>3. QED
      BY <1>2, <3>1, <3>2
  <2>5. QED
    BY <2>2, <2>3, <2>4, SeqEqual
<1>5. b = t
  <2>1. m + 1 \in Int /\ m + n \in Int /\ \A i \in m + 1..m + n : r[i] \in S
    BY <1>2, <1>3
  <2>2. /\ b \in Seq(S) /\ Len(b) = IF m + 1 <= m + n THEN (m + n) - (m + 1) + 1 ELSE 0
        /\ \A i \in 1..(m + n) - (m + 1) + 1 : b[i] = r[(m + 1) + i - 1]
    BY <1>1, <1>2, <2>1, SubSeqProperties
  <2>3. Len(b) = Len(t)
    BY <1>1, <1>2, <2>2
  <2>4. ASSUME NEW i \in 1..Len(b) PROVE b[i] = t[i]
    <3>1. /\ i \in 1..(m + n) - (m + 1) + 1 /\ (m + 1) + i - 1 = m + i /\ m + i \in 1..m + n
          /\ ~(m + i <= m) /\ (m + i) - m = i
      BY <1>1, <1>2, <2>3
    <3>2. b[i] = r[m + i]
      BY <2>2, <3>1
    <3>3. r[m + i] = t[(m + i) - m]
      BY <1>2, <3>1
    <3>4. QED
      BY <3>1, <3>2, <3>3
  <2>5. QED
    BY <2>2, <2>3, <2>4, SeqEqual
<1>6. QED
  BY <1>1, <1>4, <1>5

LEMMA TimesFacts ==
  ASSUME NEW S, NEW c \in S, NEW n \in Nat
  PROVE  /\ Times(c, n) \in Seq(S) /\ Len(Times(c, n)) = n
         /\ \A i \in 1..n : Times(c, n)[i] = c
         /\ Times(c, 0) = <<>>
         /\ Times(c, n + 1) = <<c>> \o Times(c, n)
<1>1. \A k \in Nat : /\ Times(c, k) \in Seq(S) /\ Len(Times(c, k)) = k
                     /\ \A i \in 1..k : Times(c, k)[i] = c
  <2>1. ASSUME NEW k \in Nat PROVE Times(c, k) \in [1..k -> S]
    BY DEF Times
  <2>2. ASSUME NEW k \in Nat PROVE Times(c, k) \in Seq(S)
    BY <2>1, SeqDef
  <2>3. ASSUME NEW k \in Nat PROVE Len(Times(c, k)) = k
    BY <2>1, <2>2
  <2>4. QED
    BY <2>2, <2>3 DEF Times
<1>2. Times(c, 0) = <<>>
  BY <1>1, EmptySeq
<1>3. PICK r, s : r = Times(c, n + 1) /\ s = Times(c, n)
  OBVIOUS
<1>4. /\ r \in Seq(S) /\ Len(r) = n + 1 /\ \A i \in 1..n + 1 : r[i] = c
      /\ s \in Seq(S) /\ Len(s) = n /\ \A i \in 1..n : s[i] = c
  BY <1>1, <1>3
<1>5. PICK u : u = <<c>> \o s
  OBVIOUS
<1>6. /\ u \in Seq(S) /\ Len(u) = n + 1 /\ Head(u) = c /\ u # <<>>
      /\ \A i \in 1..n : u[i + 1] = s[i]
  BY <1>4, <1>5, ConsOf
<1>7. ASSUME NEW i \in 1..n + 1 PROVE r[i] = u[i]
  <2>1. CASE i = 1
    BY <1>4, <1>6, <2>1
  <2>2. CASE i # 1
    <3>1. i - 1 \in 1..n /\ (i - 1) + 1 = i
      BY <2>2
    <3>2. u[i] = s[i - 1]
      BY <1>6, <3>1
    <3>3. QED
      BY <1>4, <3>1, <3>2
  <2>3. QED
    BY <2>1, <2>2
<1>8. r = u
  BY <1>4, <1>6, <1>7, SeqEqual
<1>9. QED
  BY <1>1, <1>2, <1>3, <1>5, <1>8

LEMMA PushBehindDeletions ==
  ASSUME NEW p \in Text, NEW c \in Char, NEW m \in Nat
  PROVE  Push(p \o Times(Delete, m), c) = Append(p, c) \o Times(Delete, m)
<1>1. PICK d, o, k : d = Times(Delete, m) /\ o = p \o d /\ k = Len(p)
  OBVIOUS
<1>2. /\ d \in Seq(Component) /\ Len(d) = m /\ \A i \in 1..m : d[i] = Delete
      /\ m = 0 => d = <<>>
  BY <1>1, ComponentKinds, TimesFacts
<1>3. p \in Seq(Component) /\ p \in Seq(Char) /\ k \in Nat /\ c \in Component /\ c # Delete
  BY <1>1, InsertionsInFront, EmptyOnes, ComponentKinds DEF Operation, Text
<1>4. /\ o \in Seq(Component) /\ Len(o) = k + m
      /\ \A i \in 1..k + m : o[i] = IF i <= k THEN p[i] ELSE d[i - k]
  <2>1. /\ p \o d \in Seq(Component) /\ Len(p \o d) = Len(p) + Len(d)
        /\ \A i \in 1..Len(p) + Len(d) :
             (p \o d)[i] = IF i <= Len(p) THEN p[i] ELSE d[i - Len(p)]
    BY <1>2, <1>3, ConcatProperties
  <2>2. QED
    BY <1>1, <1>2, <2>1
<1>5. /\ \A i \in 1..k : o[i] = p[i] /\ o[i] \in Char /\ o[i] # Delete
      /\ \A i \in k + 1..k + m : o[i] = Delete
  <2>1. ASSUME NEW i \in 1..k PROVE o[i] = p[i] /\ o[i] \in Char /\ o[i] # Delete
    <3>1. i \in 1..k + m /\ i <= k
      BY <1>3
    <3>2. o[i] = p[i] /\ p[i] \in Char
      BY <1>1, <1>3, <1>4, <3>1
    <3>3. QED
      BY <3>2, ComponentKinds
  <2>2. ASSUME NEW i \in k + 1..k + m PROVE o[i] = Delete
    <3>1. i \in 1..k + m /\ ~(i <= k) /\ i - k \in 1..m
      BY <1>3
    <3>2. QED
      BY <1>2, <1>4, <3>1
  <2>3. QED
    BY <2>1, <2>2
<1>6. Append(p, c) = p \o <<c>>
  BY <1>3, AppendIsConcat
<1>7. CASE m = 0
  <2>1. o = p /\ Append(p, c) \o d = Append(p, c)
    <3>1. Append(p, c) \in Seq(Component)
      BY <1>3
    <3>2. p \o <<>> = p
      BY <1>3, ConcatEmptySeq
    <3>3. Append(p, c) \o <<>> = Append(p, c)
      BY <3>1, ConcatEmptySeq
    <3>4. QED
      BY <1>1, <1>2, <1>7, <3>2, <3>3
  <2>2. o # <<>> => Last(o) # Delete
    <3>1. ASSUME o # <<>> PROVE Last(o) # Delete
      <4>1. Len(o) # 0 /\ Len(o) = k
        BY <1>3, <1>4, <1>7, <3>1, EmptySeq
      <4>2. Len(o) \in 1..k
        BY <1>3, <4>1
      <4>3. QED
        BY <1>5, <4>2 DEF Last
    <3>2. QED
      BY <3>1
  <2>3. Push(o, c) = Append(o, c)
    BY <2>2 DEF Push
  <2>4. QED
    BY <1>1, <2>1, <2>3
<1>8. CASE m # 0
  <2>1. o # <<>> /\ Last(o) = Delete
    <3>1. Len(o) \in k + 1..k + m /\ Len(o) # 0
      BY <1>3, <1>4, <1>8
    <3>2. QED
      BY <1>5, <3>1, EmptySeq DEF Last
  <2> DEFINE n == CHOOSE i \in 0..Len(o) : Trails(o, i)
  <2>2. Trails(o, k) /\ k \in 0..Len(o)
    BY <1>3, <1>4, <1>5 DEF Trails
  <2>3. n = k
    <3>1. o \in Operation
      BY <1>4 DEF Operation
    <3>2. n \in 0..Len(o) /\ Trails(o, n)
      BY <2>2
    <3> HIDE DEF n
    <3>3. QED
      BY <2>2, <3>1, <3>2, TrailingDeletions
  <2>4. Push(o, c) = SubSeq(o, 1, n) \o <<c>> \o SubSeq(o, n + 1, Len(o))
    BY <2>1 DEF Push, Trails
  <2> HIDE DEF n
  <2>5. SubSeq(o, 1, k) = p /\ SubSeq(o, k + 1, Len(o)) = d
    BY <1>1, <1>2, <1>3, PartsOf
  <2>6. Push(o, c) = (p \o <<c>>) \o d
    BY <2>3, <2>4, <2>5
  <2>7. QED
    BY <1>1, <1>6, <2>6
<1>9. QED
  BY <1>7, <1>8

LEMMA UpTo ==
  ASSUME NEW S, NEW s \in Seq(S)
  PROVE  /\ \A k \in 0..Len(s) : /\ SubSeq(s, 1, k) \in Seq(S) /\ Len(SubSeq(s, 1, k)) = k
                                 /\ \A i \in 1..k : SubSeq(s, 1, k)[i] = s[i]
         /\ \A k \in 0..Len(s) - 1 : SubSeq(s, 1, k + 1) = Append(SubSeq(s, 1, k), s[k + 1])
         /\ SubSeq(s, 1, 0) = <<>>
<1>1. Len(s) \in Nat /\ \A i \in 1..Len(s) : s[i] \in S
  OBVIOUS
<1>2. ASSUME NEW k \in 0..Len(s)
      PROVE  /\ SubSeq(s, 1, k) \in Seq(S) /\ Len(SubSeq(s, 1, k)) = k
             /\ \A i \in 1..k : SubSeq(s, 1, k)[i] = s[i]
  <2>1. 1 \in Int /\ k \in Int /\ \A i \in 1..k : s[i] \in S
    BY <1>1
  <2>2. /\ SubSeq(s, 1, k) \in Seq(S) /\ Len(SubSeq(s, 1, k)) = IF 1 <= k THEN k - 1 + 1 ELSE 0
        /\ \A i \in 1..k - 1 + 1 : SubSeq(s, 1, k)[i] = s[1 + i - 1]
    BY <2>1, SubSeqProperties
  <2>3. QED
    BY <1>1, <2>1, <2>2
<1>3. ASSUME NEW k \in 0..Len(s) - 1
      PROVE  SubSeq(s, 1, k + 1) = Append(SubSeq(s, 1, k), s[k + 1])
  <2>1. k + 1 \in 1..Len(s) /\ 1 \in 1..Len(s) /\ (k + 1) - 1 = k /\ k \in 0..Len(s)
    BY <1>1
  <2>2. SubSeq(s, 1, k + 1) = SubSeq(s, 1, (k + 1) - 1) \o <<s[k + 1]>>
    BY <2>1, SubSeqRecursiveSecond
  <2>3. SubSeq(s, 1, k) \in Seq(S) /\ s[k + 1] \in S
    BY <1>1, <1>2, <2>1
  <2>4. Append(SubSeq(s, 1, k), s[k + 1]) = SubSeq(s, 1, k) \o <<s[k + 1]>>
    BY <2>3, AppendIsConcat
  <2>5. QED
    BY <2>1, <2>2, <2>4
<1>4. SubSeq(s, 1, 0) = <<>>
  BY SubSeqEmpty
<1>5. QED
  BY <1>2, <1>3, <1>4

\* Pushing an insertion after a deletion.
LEMMA PushInsertions ==
  ASSUME NEW p \in Text, NEW m \in Nat
  PROVE  FoldLeft(Push, Times(Delete, m), p) = p \o Times(Delete, m)
<1>1. PICK d, n : d = Times(Delete, m) /\ n = Len(p)
  OBVIOUS
<1>2. d \in Operation /\ p \in Operation /\ n \in Nat /\ p \in Seq(Char)
  BY <1>1, ComponentKinds, TimesFacts, InsertionsInFront, EmptyOnes, TextCases DEF Operation, Text
<1>3. PICK h \in [0..n -> Operation] :
        /\ h[0] = d /\ h[n] = FoldLeft(Push, d, p)
        /\ \A k \in 0..n - 1 : h[k + 1] = Push(h[k], p[k + 1])
  <2>1. \E h \in [0..Len(p) -> Operation] :
          /\ h[0] = d /\ h[Len(p)] = FoldLeft(Push, d, p)
          /\ \A k \in 0..Len(p) - 1 : h[k + 1] = Push(h[k], p[k + 1])
    BY <1>2, PushRun
  <2>2. QED
    BY <1>1, <2>1
<1> DEFINE P == {k \in Nat : k <= n => h[k] = SubSeq(p, 1, k) \o d}
<1>4. 0 \in P
  <2>1. SubSeq(p, 1, 0) = <<>>
    BY <1>2, UpTo
  <2>2. <<>> \o d = d
    BY <1>2, ConcatEmptySeq DEF Operation
  <2>3. QED
    BY <1>3, <2>1, <2>2
<1>5. ASSUME NEW k \in P PROVE k + 1 \in P
  <2>1. ASSUME k + 1 <= n PROVE h[k + 1] = SubSeq(p, 1, k + 1) \o d
    <3>1. k \in 0..n - 1 /\ k \in 0..n /\ k + 1 \in 1..n /\ h[k] = SubSeq(p, 1, k) \o d
      BY <1>2, <2>1
    <3>2. SubSeq(p, 1, k) \in Text /\ p[k + 1] \in Char
      BY <1>1, <1>2, <3>1, UpTo DEF Text
    <3>3. Push(SubSeq(p, 1, k) \o d, p[k + 1]) = Append(SubSeq(p, 1, k), p[k + 1]) \o d
      BY <1>1, <3>2, PushBehindDeletions
    <3>4. SubSeq(p, 1, k + 1) = Append(SubSeq(p, 1, k), p[k + 1])
      BY <1>1, <1>2, <3>1, UpTo
    <3>5. h[k + 1] = Push(h[k], p[k + 1])
      BY <1>3, <3>1
    <3>6. QED
      BY <3>1, <3>3, <3>4, <3>5
  <2>2. QED
    BY <2>1
<1>6. P = Nat
  <2> HIDE DEF P
  <2>1. P \in SUBSET Nat
    BY DEF P
  <2>2. QED
    BY <1>4, <1>5, <2>1, Induction
<1>7. \A k \in Nat : k \in P
  <2> HIDE DEF P
  <2>1. QED
    BY <1>6
<1>8. SubSeq(p, 1, n) = p
  BY <1>1, <1>2, SubSeqFull
<1>9. h[n] = SubSeq(p, 1, n) \o d
  BY <1>2, <1>7
<1>10. QED
  BY <1>1, <1>3, <1>8, <1>9

\* An operation in normal form is what pushing its components makes.
LEMMA NormalIsPushed ==
  ASSUME NEW o \in Operation, Normal(o)
  PROVE  o = FoldLeft(Push, <<>>, o)
<1>1. PICK n : n = Len(o)
  OBVIOUS
<1>2. n \in Nat /\ o \in Seq(Component)
  BY <1>1 DEF Operation
<1>3. PICK h \in [0..n -> Operation] :
        /\ h[0] = <<>> /\ h[n] = FoldLeft(Push, <<>>, o)
        /\ \A k \in 0..n - 1 : h[k + 1] = Push(h[k], o[k + 1])
  BY <1>1, <1>2, PushRun, EmptyOnes
<1> DEFINE P == {k \in Nat : k <= n => h[k] = SubSeq(o, 1, k)}
<1>4. 0 \in P
  BY <1>2, <1>3, UpTo
<1>5. ASSUME NEW k \in P PROVE k + 1 \in P
  <2>1. ASSUME k + 1 <= n PROVE h[k + 1] = SubSeq(o, 1, k + 1)
    <3>1. k \in 0..n - 1 /\ k \in 0..n /\ h[k] = SubSeq(o, 1, k)
      BY <1>2, <2>1
    <3>2. PICK u : u = SubSeq(o, 1, k)
      OBVIOUS
    <3>3. u \in Seq(Component) /\ Len(u) = k /\ \A i \in 1..k : u[i] = o[i]
      BY <1>1, <1>2, <3>1, <3>2, UpTo
    <3>4. o[k + 1] \in Char /\ u # <<>> => Last(u) # Delete
      <4>1. ASSUME o[k + 1] \in Char, u # <<>>, Last(u) = Delete PROVE FALSE
        <5>1. k # 0
          BY <3>3, <4>1, EmptySeq
        <5>2. k \in 1..k /\ k \in 1..n - 1
          BY <3>1, <5>1, <1>2
        <5>3. o[k] = Delete
          BY <3>3, <4>1, <5>2 DEF Last
        <5>4. QED
          BY <1>1, <4>1, <5>2, <5>3 DEF Normal
      <4>2. QED
        BY <4>1
    <3>5. Push(u, o[k + 1]) = Append(u, o[k + 1])
      BY <3>4 DEF Push
    <3>6. SubSeq(o, 1, k + 1) = Append(u, o[k + 1])
      BY <1>1, <1>2, <3>1, <3>2, UpTo
    <3>7. h[k + 1] = Push(h[k], o[k + 1])
      BY <1>3, <3>1
    <3>8. QED
      BY <3>1, <3>2, <3>5, <3>6, <3>7
  <2>2. QED
    BY <2>1
<1>6. P = Nat
  <2> HIDE DEF P
  <2>1. P \in SUBSET Nat
    BY DEF P
  <2>2. QED
    BY <1>4, <1>5, <2>1, Induction
<1>7. \A k \in Nat : k \in P
  <2> HIDE DEF P
  <2>1. QED
    BY <1>6
<1>8. SubSeq(o, 1, n) = o
  BY <1>1, <1>2, SubSeqFull
<1>9. h[n] = SubSeq(o, 1, n)
  BY <1>2, <1>7
<1>10. QED
  BY <1>3, <1>8, <1>9

\* Keeping the characters in front of a text, and deleting them.
LEMMA InFront ==
  ASSUME NEW q \in Operation, NEW v \in Text, Applicable(q, v)
  PROVE  \A u \in Text :
           /\ Times(Retain, Len(u)) \o q \in Operation
           /\ Applicable(Times(Retain, Len(u)) \o q, u \o v)
           /\ Apply(Times(Retain, Len(u)) \o q, u \o v) = u \o Apply(q, v)
           /\ Normal(q) => Normal(Times(Retain, Len(u)) \o q)
           /\ Times(Delete, Len(u)) \o q \in Operation
           /\ Applicable(Times(Delete, Len(u)) \o q, u \o v)
           /\ Apply(Times(Delete, Len(u)) \o q, u \o v) = Apply(q, v)
           /\ Normal(q) /\ ~Inserts(q) =>
                Normal(Times(Delete, Len(u)) \o q) /\ ~Inserts(Times(Delete, Len(u)) \o q)
<1> DEFINE R(u) == Times(Retain, Len(u)) \o q
           D(u) == Times(Delete, Len(u)) \o q
           Holds(u) ==
             /\ R(u) \in Operation
             /\ Applicable(R(u), u \o v)
             /\ Apply(R(u), u \o v) = u \o Apply(q, v)
             /\ Normal(q) => Normal(R(u))
             /\ D(u) \in Operation
             /\ Applicable(D(u), u \o v)
             /\ Apply(D(u), u \o v) = Apply(q, v)
             /\ Normal(q) /\ ~Inserts(q) => Normal(D(u)) /\ ~Inserts(D(u))
           P == {u \in Text : Holds(u)}
<1>0. Apply(q, v) \in Text /\ q \in Seq(Component) /\ v \in Seq(Char) /\ Apply(q, v) \in Seq(Char)
  BY ApplyType DEF Operation, Text
<1>1. <<>> \in P
  <2>1. Len(<<>>) = 0 /\ Times(Retain, 0) = <<>> /\ Times(Delete, 0) = <<>>
    BY EmptyOnes, ComponentKinds, TimesFacts
  <2>2. <<>> \o q = q /\ <<>> \o v = v /\ <<>> \o Apply(q, v) = Apply(q, v)
    BY <1>0, ConcatEmptySeq
  <2>3. R(<<>>) = q /\ D(<<>>) = q
    BY <2>1, <2>2
  <2>4. Holds(<<>>)
    <3> HIDE DEF R, D
    <3>1. QED
      BY <2>2, <2>3
  <2>5. QED
    BY <2>4, EmptyOnes
<1>2. ASSUME NEW u \in P, NEW ch \in Char PROVE <<ch>> \o u \in P
  <2>1. PICK w : w = <<ch>> \o u
    OBVIOUS
  <2>2. u \in Text /\ w \in Text /\ Len(w) = Len(u) + 1 /\ Len(u) \in Nat
    BY <2>1, ConsOfText, TextCases
  <2>3. w \o v = <<ch>> \o (u \o v) /\ w \o Apply(q, v) = <<ch>> \o (u \o Apply(q, v))
        /\ u \o v \in Text
    <3>1. <<ch>> \in Seq(Char) /\ u \in Seq(Char)
      BY <2>2 DEF Text
    <3>2. (<<ch>> \o u) \o v = <<ch>> \o (u \o v)
      BY <1>0, <3>1, ConcatAssociative
    <3>3. (<<ch>> \o u) \o Apply(q, v) = <<ch>> \o (u \o Apply(q, v))
      BY <1>0, <3>1, ConcatAssociative
    <3>4. u \o v \in Seq(Char)
      BY <1>0, <3>1, ConcatProperties
    <3>5. QED
      BY <2>1, <3>2, <3>3, <3>4 DEF Text
  <2>4. R(w) = <<Retain>> \o R(u)
    <3>0. Retain \in Component
      BY ComponentKinds
    <3>5. /\ Times(Retain, Len(u) + 1) = <<Retain>> \o Times(Retain, Len(u))
          /\ Times(Retain, Len(u)) \in Seq(Component)
      BY <2>2, <3>0, TimesFacts
    <3>1. /\ Times(Retain, Len(w)) = <<Retain>> \o Times(Retain, Len(u))
          /\ Times(Retain, Len(u)) \in Seq(Component) /\ <<Retain>> \in Seq(Component)
      BY <2>2, <3>0, <3>5
    <3>2. (<<Retain>> \o Times(Retain, Len(u))) \o q = <<Retain>> \o (Times(Retain, Len(u)) \o q)
      BY <1>0, <3>1, ConcatAssociative
    <3>3. QED
      BY <3>1, <3>2
  <2>5. D(w) = <<Delete>> \o D(u)
    <3>0. Delete \in Component
      BY ComponentKinds
    <3>5. /\ Times(Delete, Len(u) + 1) = <<Delete>> \o Times(Delete, Len(u))
          /\ Times(Delete, Len(u)) \in Seq(Component)
      BY <2>2, <3>0, TimesFacts
    <3>1. /\ Times(Delete, Len(w)) = <<Delete>> \o Times(Delete, Len(u))
          /\ Times(Delete, Len(u)) \in Seq(Component) /\ <<Delete>> \in Seq(Component)
      BY <2>2, <3>0, <3>5
    <3>2. (<<Delete>> \o Times(Delete, Len(u))) \o q = <<Delete>> \o (Times(Delete, Len(u)) \o q)
      BY <1>0, <3>1, ConcatAssociative
    <3>3. QED
      BY <3>1, <3>2
  <2>6. Holds(u)
    OBVIOUS
  <2>7. PICK r, d, t, x, y, a : /\ r = R(u) /\ d = D(u) /\ t = u \o v
                          /\ x = R(w) /\ y = D(w) /\ a = Apply(q, v)
    OBVIOUS
  <2>8. /\ r \in Operation /\ Applicable(r, t) /\ Apply(r, t) = u \o a
        /\ Normal(q) => Normal(r)
        /\ d \in Operation /\ Applicable(d, t) /\ Apply(d, t) = a
        /\ Normal(q) /\ ~Inserts(q) => Normal(d) /\ ~Inserts(d)
    <3> HIDE DEF R, D
    <3>1. QED
      BY <2>6, <2>7
  <2> HIDE DEF R, D
  <2>9. /\ x = <<Retain>> \o r /\ y = <<Delete>> \o d /\ t \in Text
        /\ w \o v = <<ch>> \o t /\ w \o a = <<ch>> \o (u \o a)
    BY <2>3, <2>4, <2>5, <2>7
  <2>10. Retain \in Component /\ Delete \in Component /\ Retain # Delete
         /\ Delete \notin Char
    BY ComponentKinds
  <2>11. x \in Operation /\ y \in Operation /\ Head(y) = Delete
    BY <2>8, <2>9, <2>10, ConsOfOperation
  <2>12. Applicable(x, <<ch>> \o t) /\ Apply(x, <<ch>> \o t) = <<ch>> \o Apply(r, t)
    <3>1. /\ Applicable(<<Retain>> \o r, <<ch>> \o t)
          /\ Apply(<<Retain>> \o r, <<ch>> \o t) = <<ch>> \o Apply(r, t)
      <4>1. r \in Operation /\ t \in Text /\ Applicable(r, t)
        BY <2>8, <2>9
      <4>2. Applicable(<<Retain>> \o r, <<ch>> \o t) <=> Applicable(r, t)
        BY <4>1, FitsCons
      <4>3. Apply(<<Retain>> \o r, <<ch>> \o t) = <<ch>> \o Apply(r, t)
        BY <4>1, ApplyCons
      <4>4. QED
        BY <4>1, <4>2, <4>3
    <3>2. QED
      BY <2>9, <3>1
  <2>13. Applicable(y, <<ch>> \o t) /\ Apply(y, <<ch>> \o t) = Apply(d, t)
    <3>1. /\ Applicable(<<Delete>> \o d, <<ch>> \o t)
          /\ Apply(<<Delete>> \o d, <<ch>> \o t) = Apply(d, t)
      <4>1. d \in Operation /\ t \in Text /\ Applicable(d, t)
        BY <2>8, <2>9
      <4>2. Applicable(<<Delete>> \o d, <<ch>> \o t) <=> Applicable(d, t)
        BY <4>1, FitsCons
      <4>3. Apply(<<Delete>> \o d, <<ch>> \o t) = Apply(d, t)
        BY <4>1, ApplyCons
      <4>4. QED
        BY <4>1, <4>2, <4>3
    <3>2. QED
      BY <2>9, <3>1
  <2>14. Normal(q) => Normal(x)
    BY <2>8, <2>9, <2>10, NormalCons
  <2>15. Normal(q) /\ ~Inserts(q) => Normal(y) /\ ~Inserts(y)
    <3>1. Normal(q) /\ ~Inserts(q) => Normal(y)
      BY <2>8, <2>9, <2>10, NormalCons
    <3>2. ~Inserts(y)
      BY <2>10, <2>11 DEF Inserts
    <3>3. QED
      BY <3>1, <3>2
  <2>16. Holds(w)
    BY <2>7, <2>8, <2>9, <2>11, <2>12, <2>13, <2>14, <2>15
  <2>17. QED
    BY <2>1, <2>2, <2>16
<1>3. P = Text
  <2> HIDE DEF P
  <2>1. P \in SUBSET Seq(Char)
    BY DEF P, Text
  <2>2. QED
    BY <1>1, <1>2, <2>1, SequenceInduction DEF Text
<1>4. QED
  BY <1>3

LEMMA CommonPrefixFacts ==
  ASSUME NEW old \in Text, NEW new \in Text
  PROVE  /\ CommonPrefix(old, new) \in 0..Shorter(old, new)
         /\ Shorter(old, new) \in Nat
         /\ Shorter(old, new) <= Len(old) /\ Shorter(old, new) <= Len(new)
         /\ \A i \in 1..CommonPrefix(old, new) : old[i] = new[i]
<1>1. PICK n : n = Shorter(old, new)
  OBVIOUS
<1>2. n \in Nat /\ n <= Len(old) /\ n <= Len(new)
  BY <1>1, TextCases DEF Shorter
<1> DEFINE is(p) == /\ \A i \in 1..p : old[i] = new[i]
                    /\ p < n => old[p + 1] # new[p + 1]
           B == {i \in 0..n - 1 : old[i + 1] # new[i + 1]}
<1>3. \E p \in 0..n : is(p)
  <2>1. CASE B = {}
    <3>1. ASSUME NEW i \in 1..n PROVE old[i] = new[i]
      <4>1. i - 1 \in 0..n - 1 /\ (i - 1) + 1 = i
        BY <1>2
      <4>2. QED
        BY <2>1, <4>1
    <3>2. is(n) /\ n \in 0..n
      BY <1>2, <3>1
    <3>3. QED
      BY <3>2
  <2>2. CASE B # {}
    <3>1. B \in SUBSET Nat
      OBVIOUS
    <3>2. PICK p \in B : \A k \in B : p <= k
      <4> HIDE DEF B
      <4>1. QED
        BY <2>2, <3>1, LeastNumber
    <3>3. p \in 0..n /\ p < n /\ old[p + 1] # new[p + 1]
      BY <1>2
    <3>4. ASSUME NEW i \in 1..p PROVE old[i] = new[i]
      <4>1. i - 1 \in 0..n - 1 /\ (i - 1) + 1 = i /\ ~(p <= i - 1)
        BY <1>2, <3>3
      <4>2. i - 1 \notin B
        BY <3>2, <4>1
      <4>3. QED
        BY <4>1, <4>2
    <3>5. is(p)
      BY <3>3, <3>4
    <3>6. QED
      BY <3>3, <3>5
  <2>3. QED
    BY <2>1, <2>2
<1>4. CommonPrefix(old, new) = CHOOSE p \in 0..n : is(p)
  BY <1>1 DEF CommonPrefix
<1>5. CommonPrefix(old, new) \in 0..n /\ is(CommonPrefix(old, new))
  BY <1>3, <1>4
<1>6. QED
  BY <1>1, <1>2, <1>5

LEMMA CommonSuffixFacts ==
  ASSUME NEW old, NEW new, NEW n \in Nat
  PROVE  /\ CommonSuffix(old, new, n) \in 0..n
         /\ \A i \in 0..CommonSuffix(old, new, n) - 1 : old[Len(old) - i] = new[Len(new) - i]
<1> DEFINE differ(i) == old[Len(old) - i] # new[Len(new) - i]
           is(s) == /\ \A i \in 0..s - 1 : old[Len(old) - i] = new[Len(new) - i]
                    /\ s < n => old[Len(old) - s] # new[Len(new) - s]
           B == {i \in 0..n - 1 : differ(i)}
<1>3. \E p \in 0..n : is(p)
  <2>1. CASE B = {}
    <3>0. ASSUME NEW i \in 0..n - 1 PROVE ~differ(i)
      <4>1. i \notin B
        BY <2>1
      <4>2. QED
        BY <4>1
    <3>1. is(n) /\ n \in 0..n
      BY <3>0
    <3>2. QED
      BY <3>1
  <2>2. CASE B # {}
    <3>1. B \in SUBSET Nat
      OBVIOUS
    <3>2. PICK p \in B : \A k \in B : p <= k
      <4> HIDE DEF B
      <4>1. QED
        BY <2>2, <3>1, LeastNumber
    <3>3. p \in 0..n /\ p < n /\ differ(p)
      OBVIOUS
    <3>4. ASSUME NEW i \in 0..p - 1 PROVE ~differ(i)
      <4> HIDE DEF differ
      <4>1. i \in 0..n - 1 /\ ~(p <= i)
        BY <3>3
      <4>2. i \notin B
        BY <3>2, <4>1
      <4>3. QED
        BY <4>1, <4>2
    <3>5. is(p)
      BY <3>3, <3>4
    <3>6. QED
      BY <3>3, <3>5
  <2>3. QED
    BY <2>1, <2>2
<1>4. CommonSuffix(old, new, n) = CHOOSE p \in 0..n : is(p)
  BY DEF CommonSuffix
<1>5. CommonSuffix(old, new, n) \in 0..n /\ is(CommonSuffix(old, new, n))
  BY <1>3, <1>4
<1>6. QED
  BY <1>5

\* A text is its first p characters, its last s and what is between them.
LEMMA ThreeParts ==
  ASSUME NEW t \in Text, NEW p \in Nat, NEW s \in Nat, p + s <= Len(t)
  PROVE  /\ SubSeq(t, 1, p) \in Text /\ Len(SubSeq(t, 1, p)) = p
         /\ SubSeq(t, p + 1, Len(t) - s) \in Text
         /\ Len(SubSeq(t, p + 1, Len(t) - s)) = Len(t) - p - s
         /\ SubSeq(t, Len(t) - s + 1, Len(t)) \in Text
         /\ Len(SubSeq(t, Len(t) - s + 1, Len(t))) = s
         /\ \A i \in 1..p : SubSeq(t, 1, p)[i] = t[i]
         /\ \A i \in 1..s : SubSeq(t, Len(t) - s + 1, Len(t))[i] = t[Len(t) - s + i]
         /\ t = SubSeq(t, 1, p)
                  \o (SubSeq(t, p + 1, Len(t) - s) \o SubSeq(t, Len(t) - s + 1, Len(t)))
<1>1. PICK n, m : n = Len(t) /\ m = n - s
  OBVIOUS
<1>2. /\ n \in Nat /\ m \in Nat /\ t \in Seq(Char) /\ p <= m /\ m <= n
      /\ \A i \in 1..n : t[i] \in Char
  BY <1>1, TextCases DEF Text
<1>3. PICK a, b, c : a = SubSeq(t, 1, p) /\ b = SubSeq(t, p + 1, m) /\ c = SubSeq(t, m + 1, n)
  OBVIOUS
<1>4. a \in Seq(Char) /\ Len(a) = p /\ \A i \in 1..p : a[i] = t[i]
  <2>1. p \in 0..Len(t)
    BY <1>1, <1>2
  <2>2. QED
    BY <1>2, <1>3, <2>1, UpTo
<1>5. b \in Seq(Char) /\ Len(b) = m - p
  <2>1. p + 1 \in Int /\ m \in Int /\ \A i \in p + 1..m : t[i] \in Char
    BY <1>2
  <2>2. b \in Seq(Char) /\ Len(b) = IF p + 1 <= m THEN m - (p + 1) + 1 ELSE 0
    BY <1>3, <2>1, SubSeqProperties
  <2>3. QED
    BY <1>2, <2>2
<1>6. c \in Seq(Char) /\ Len(c) = s /\ \A i \in 1..s : c[i] = t[m + i]
  <2>1. m + 1 \in Int /\ n \in Int /\ \A i \in m + 1..n : t[i] \in Char
    BY <1>2
  <2>2. /\ c \in Seq(Char) /\ Len(c) = IF m + 1 <= n THEN n - (m + 1) + 1 ELSE 0
        /\ \A i \in 1..n - (m + 1) + 1 : c[i] = t[(m + 1) + i - 1]
    BY <1>3, <2>1, SubSeqProperties
  <2>3. Len(c) = s /\ n - (m + 1) + 1 = s
    BY <1>1, <1>2, <2>2
  <2>4. \A i \in 1..s : c[i] = t[m + i]
    <3>1. ASSUME NEW i \in 1..s PROVE c[i] = t[m + i]
      <4>1. (m + 1) + i - 1 = m + i
        BY <1>2
      <4>2. QED
        BY <2>2, <2>3, <4>1
    <3>2. QED
      BY <3>1
  <2>5. QED
    BY <2>2, <2>3, <2>4
<1>7. t = a \o (b \o c)
  <2>1. p + 1 \in 1..Len(t) + 1 /\ m \in (p + 1) - 1..Len(t) /\ n \in m..Len(t)
    BY <1>1, <1>2
  <2>2. SubSeq(t, p + 1, m) \o SubSeq(t, m + 1, n) = SubSeq(t, p + 1, n)
    BY <1>2, <2>1, ConcatAdjacentSubSeq
  <2>3. 1 \in 1..Len(t) + 1 /\ p \in 1 - 1..Len(t) /\ n \in p..Len(t)
    BY <1>1, <1>2
  <2>4. SubSeq(t, 1, p) \o SubSeq(t, p + 1, n) = SubSeq(t, 1, n)
    BY <1>2, <2>3, ConcatAdjacentSubSeq
  <2>5. SubSeq(t, 1, n) = t
    BY <1>1, <1>2, SubSeqFull
  <2>6. QED
    BY <1>3, <2>2, <2>4, <2>5
<1>8. Len(t) - p - s = m - p
  BY <1>1, <1>2
<1>9. /\ a = SubSeq(t, 1, p) /\ b = SubSeq(t, p + 1, Len(t) - s)
      /\ c = SubSeq(t, Len(t) - s + 1, Len(t)) /\ m = Len(t) - s
  BY <1>1, <1>3
<1>10. QED
  BY <1>4, <1>5, <1>6, <1>7, <1>8, <1>9 DEF Text

\* Concatenation under a name: the provers lose themselves in chains of \o.
Joined(a, b) == a \o b

LEMMA JoinedAssociative ==
  ASSUME NEW S, NEW a \in Seq(S), NEW b \in Seq(S), NEW c \in Seq(S)
  PROVE  /\ Joined(a, b) \in Seq(S)
         /\ Joined(Joined(a, b), c) = Joined(a, Joined(b, c))
<1>1. (a \o b) \o c = a \o (b \o c)
  BY ConcatAssociative
<1>2. QED
  BY <1>1, ConcatProperties DEF Joined

\* What a diff must be good for.
RewritesTo(d, old, new) ==
  d \in Operation /\ Applicable(d, old) /\ Apply(d, old) = new /\ Normal(d)

LEMMA SpliceOf ==
  ASSUME NEW old \in Text, NEW new \in Text, NEW p \in Nat, NEW s \in Nat,
         p + s <= Len(old), p + s <= Len(new),
         \A i \in 1..p : old[i] = new[i],
         \A i \in 0..s - 1 : old[Len(old) - i] = new[Len(new) - i]
  PROVE  RewritesTo(Splice(old, new, p, s), old, new)
<1>1. PICK m, n : m = Len(old) /\ n = Len(new)
  OBVIOUS
<1>2. m \in Nat /\ n \in Nat /\ p + s <= m /\ p + s <= n
  BY <1>1, TextCases
<1>3. PICK a, b, c : /\ a = SubSeq(old, 1, p) /\ b = SubSeq(old, p + 1, m - s)
                     /\ c = SubSeq(old, m - s + 1, m)
  OBVIOUS
<1>4. PICK a2, e, c2 : /\ a2 = SubSeq(new, 1, p) /\ e = SubSeq(new, p + 1, n - s)
                     /\ c2 = SubSeq(new, n - s + 1, n)
  OBVIOUS
<1>5. /\ a \in Text /\ b \in Text /\ c \in Text
      /\ Len(a) = p /\ Len(b) = m - p - s /\ Len(c) = s
      /\ \A i \in 1..p : a[i] = old[i]
      /\ \A i \in 1..s : c[i] = old[m - s + i]
      /\ old = a \o (b \o c)
  <2>1. /\ SubSeq(old, 1, p) \in Text /\ Len(SubSeq(old, 1, p)) = p
        /\ SubSeq(old, p + 1, Len(old) - s) \in Text
        /\ Len(SubSeq(old, p + 1, Len(old) - s)) = Len(old) - p - s
        /\ SubSeq(old, Len(old) - s + 1, Len(old)) \in Text
        /\ Len(SubSeq(old, Len(old) - s + 1, Len(old))) = s
        /\ \A i \in 1..p : SubSeq(old, 1, p)[i] = old[i]
        /\ \A i \in 1..s : SubSeq(old, Len(old) - s + 1, Len(old))[i] = old[Len(old) - s + i]
        /\ old = SubSeq(old, 1, p)
                  \o (SubSeq(old, p + 1, Len(old) - s) \o SubSeq(old, Len(old) - s + 1, Len(old)))
    BY ThreeParts
  <2>2. QED
    BY <1>1, <1>3, <2>1
<1>6. /\ a2 \in Text /\ e \in Text /\ c2 \in Text
      /\ Len(a2) = p /\ Len(c2) = s
      /\ \A i \in 1..p : a2[i] = new[i]
      /\ \A i \in 1..s : c2[i] = new[n - s + i]
      /\ new = a2 \o (e \o c2)
  <2>1. /\ SubSeq(new, 1, p) \in Text /\ Len(SubSeq(new, 1, p)) = p
        /\ SubSeq(new, p + 1, Len(new) - s) \in Text
        /\ Len(SubSeq(new, p + 1, Len(new) - s)) = Len(new) - p - s
        /\ SubSeq(new, Len(new) - s + 1, Len(new)) \in Text
        /\ Len(SubSeq(new, Len(new) - s + 1, Len(new))) = s
        /\ \A i \in 1..p : SubSeq(new, 1, p)[i] = new[i]
        /\ \A i \in 1..s : SubSeq(new, Len(new) - s + 1, Len(new))[i] = new[Len(new) - s + i]
        /\ new = SubSeq(new, 1, p)
                  \o (SubSeq(new, p + 1, Len(new) - s) \o SubSeq(new, Len(new) - s + 1, Len(new)))
    BY ThreeParts
  <2>2. QED
    BY <1>1, <1>4, <2>1
<1>7. a = a2
  BY <1>5, <1>6, SeqEqual DEF Text
<1>8. c = c2
  <2>1. ASSUME NEW i \in 1..s PROVE c[i] = c2[i]
    <3>1. s - i \in 0..s - 1 /\ m - (s - i) = m - s + i /\ n - (s - i) = n - s + i
      BY <1>2
    <3>2. old[m - (s - i)] = new[n - (s - i)]
      BY <1>1, <3>1
    <3>3. QED
      BY <1>5, <1>6, <3>1, <3>2
  <2>2. QED
    BY <1>5, <1>6, <2>1, SeqEqual DEF Text
<1>9. PICK rp, rs, dm : rp = Times(Retain, p) /\ rs = Times(Retain, s) /\ dm = Times(Delete, Len(b))
  OBVIOUS
<1>10. /\ rp \in Seq(Component) /\ rs \in Seq(Component) /\ dm \in Seq(Component)
       /\ e \in Seq(Component) /\ e \in Operation /\ Len(b) \in Nat
  <2>1. e \in Operation /\ Len(b) \in Nat
    BY <1>5, <1>6, InsertionsInFront, EmptyOnes, TextCases
  <2>2. Retain \in Component /\ Delete \in Component
    BY ComponentKinds
  <2>3. QED
    BY <1>9, <2>1, <2>2, TimesFacts DEF Operation
<1>11. Splice(old, new, p, s) = rp \o (e \o (dm \o rs))
  <2>1. Splice(old, new, p, s) = rp \o FoldLeft(Push, dm, e) \o rs
    BY <1>1, <1>4, <1>5, <1>9 DEF Splice
  <2>2. FoldLeft(Push, dm, e) = e \o dm
    <3>1. FoldLeft(Push, Times(Delete, Len(b)), e) = e \o Times(Delete, Len(b))
      BY <1>6, <1>10, PushInsertions
    <3>2. QED
      BY <1>9, <3>1
  <2>3. /\ rp \in Seq(Component) /\ rs \in Seq(Component) /\ dm \in Seq(Component)
        /\ e \in Seq(Component)
    BY <1>10
  <2>4. Joined(Joined(rp, Joined(e, dm)), rs) = Joined(rp, Joined(e, Joined(dm, rs)))
    <3>1. Joined(e, dm) \in Seq(Component)
      BY <2>3, JoinedAssociative
    <3>2. Joined(Joined(rp, Joined(e, dm)), rs) = Joined(rp, Joined(Joined(e, dm), rs))
      BY <2>3, <3>1, JoinedAssociative
    <3>3. Joined(Joined(e, dm), rs) = Joined(e, Joined(dm, rs))
      BY <2>3, JoinedAssociative
    <3>4. QED
      BY <3>2, <3>3
  <2>6. Splice(old, new, p, s) = Joined(Joined(rp, Joined(e, dm)), rs)
    BY <2>1, <2>2 DEF Joined
  <2>7. Joined(rp, Joined(e, Joined(dm, rs))) = rp \o (e \o (dm \o rs))
    BY DEF Joined
  <2>5. QED
    BY <2>4, <2>6, <2>7
<1>12. /\ rs \in Operation /\ Applicable(rs, c) /\ Apply(rs, c) = c
       /\ Normal(rs) /\ ~Inserts(rs)
  <2>1. /\ <<>> \in Operation /\ <<>> \in Text /\ Applicable(<<>>, <<>>)
        /\ Apply(<<>>, <<>>) = <<>> /\ Normal(<<>>)
    BY EmptyOnes, FitsCons, ApplyCons DEF Normal
  <2>2. /\ Times(Retain, Len(c)) \o <<>> \in Operation
        /\ Applicable(Times(Retain, Len(c)) \o <<>>, c \o <<>>)
        /\ Apply(Times(Retain, Len(c)) \o <<>>, c \o <<>>) = c \o Apply(<<>>, <<>>)
        /\ Normal(<<>>) => Normal(Times(Retain, Len(c)) \o <<>>)
    BY <1>5, <2>1, InFront
  <2>3. Times(Retain, Len(c)) = rs /\ rs \o <<>> = rs /\ c \o <<>> = c
    BY <1>5, <1>9, <1>10, ConcatEmptySeq DEF Text
  <2>4. ~Inserts(rs)
    <3>1. ASSUME rs # <<>> PROVE Head(rs) \notin Char
      <4>1. Len(rs) # 0 /\ Head(rs) = rs[1]
        BY <1>10, <3>1, EmptySeq
      <4>2. Len(rs) = s /\ \A i \in 1..s : rs[i] = Retain
        BY <1>9, ComponentKinds, TimesFacts
      <4>3. Head(rs) = Retain
        BY <4>1, <4>2
      <4>4. QED
        BY <4>3, ComponentKinds
    <3>2. QED
      BY <3>1 DEF Inserts
  <2>5. QED
    BY <2>1, <2>2, <2>3, <2>4
<1>13. PICK q : q = dm \o rs
  OBVIOUS
<1>14. /\ q \in Operation /\ Applicable(q, b \o c) /\ Apply(q, b \o c) = c
       /\ Normal(q)
  <2>1. /\ dm \o rs \in Operation
        /\ Applicable(dm \o rs, b \o c)
        /\ Apply(dm \o rs, b \o c) = Apply(rs, c)
        /\ Normal(rs) /\ ~Inserts(rs) => Normal(dm \o rs)
    BY <1>5, <1>9, <1>12, InFront
  <2>2. QED
    BY <1>12, <1>13, <2>1
<1>15. PICK v, r : v = b \o c /\ r = e \o q
  OBVIOUS
<1>16. v \in Text /\ Applicable(q, v) /\ Apply(q, v) = c
  <2>1. b \o c \in Seq(Char)
    BY <1>5, ConcatProperties DEF Text
  <2>2. QED
    BY <1>14, <1>15, <2>1 DEF Text
<1>17. /\ r \in Operation /\ Applicable(r, v) /\ Apply(r, v) = e \o c
       /\ Normal(r)
  <2>1. /\ e \o q \in Operation /\ BaseLen(e \o q) = BaseLen(q)
        /\ \A t \in Text : Applicable(q, t) => Apply(e \o q, t) = e \o Apply(q, t)
        /\ Normal(e \o q) <=> Normal(q)
    BY <1>6, <1>14, InsertionsInFront
  <2>2. QED
    BY <1>14, <1>15, <1>16, <2>1 DEF Applicable
<1>18. PICK d : d = rp \o r
  OBVIOUS
<1>19. d \in Operation /\ Applicable(d, a \o v) /\ Apply(d, a \o v) = a \o Apply(r, v) /\ Normal(d)
  <2>1. Times(Retain, Len(a)) = rp
    BY <1>5, <1>9
  <2>2. /\ Times(Retain, Len(a)) \o r \in Operation
        /\ Applicable(Times(Retain, Len(a)) \o r, a \o v)
        /\ Apply(Times(Retain, Len(a)) \o r, a \o v) = a \o Apply(r, v)
        /\ Normal(r) => Normal(Times(Retain, Len(a)) \o r)
    BY <1>5, <1>16, <1>17, InFront
  <2>3. QED
    BY <1>17, <1>18, <2>1, <2>2
<1>20. d = Splice(old, new, p, s)
  BY <1>11, <1>13, <1>15, <1>18
<1>21. old = a \o v /\ new = a \o (e \o c)
  BY <1>5, <1>6, <1>7, <1>8, <1>15
<1>22. QED
  BY <1>17, <1>19, <1>20, <1>21 DEF RewritesTo

LEMMA DiffExact ==
  ASSUME NEW old \in Text, NEW new \in Text
  PROVE  RewritesTo(ComputeDiff(old, new), old, new)
<1>1. PICK n, p, k, s : /\ n = Shorter(old, new) /\ p = CommonPrefix(old, new)
                        /\ k = n - p /\ s = CommonSuffix(old, new, k)
  OBVIOUS
<1>2. /\ p \in 0..n /\ n \in Nat /\ n <= Len(old) /\ n <= Len(new)
      /\ \A i \in 1..p : old[i] = new[i]
  BY <1>1, CommonPrefixFacts
<1>3. k \in Nat /\ p \in Nat /\ p + k = n
  BY <1>1, <1>2
<1>4. s \in 0..k /\ \A i \in 0..s - 1 : old[Len(old) - i] = new[Len(new) - i]
  BY <1>1, <1>3, CommonSuffixFacts
<1>5. s \in Nat /\ p + s <= Len(old) /\ p + s <= Len(new)
  BY <1>2, <1>3, <1>4, TextCases
<1>6. ComputeDiff(old, new) = Splice(old, new, p, s)
  BY <1>1 DEF ComputeDiff
<1>7. QED
  BY <1>2, <1>3, <1>4, <1>5, <1>6, SpliceOf

LEMMA ComposeSteps ==
  ASSUME NEW a \in Operation, NEW b \in Operation
  PROVE  /\ a # <<>> /\ Head(a) = Delete => Compose(a, b) = PushFront(Delete, Compose(Rest(a), b))
         /\ ~(a # <<>> /\ Head(a) = Delete) /\ Inserts(b) =>
              Compose(a, b) = PushFront(Head(b), Compose(a, Rest(b)))
         /\ a = <<>> /\ b = <<>> => Compose(a, b) = <<>>
         /\ ~(a # <<>> /\ Head(a) = Delete) /\ ~Inserts(b) /\ (a # <<>> \/ b # <<>>) =>
              Compose(a, b) = Emit(ComposedPair(Head(a), Head(b)), Compose(Rest(a), Rest(b)))
<1> DEFINE S == Operation \X Operation
           C == Component \cup {Head(<<>>)}
           T == Seq(C)
           step(w, g) ==
             IF w[1] # <<>> /\ Head(w[1]) = Delete
             THEN PushFront(Delete, g[<<Rest(w[1]), w[2]>>])
             ELSE IF Inserts(w[2])
             THEN PushFront(Head(w[2]), g[<<w[1], Rest(w[2])>>])
             ELSE IF w[1] = <<>> /\ w[2] = <<>> THEN <<>>
             ELSE Emit(ComposedPair(Head(w[1]), Head(w[2])), g[<<Rest(w[1]), Rest(w[2])>>])
           size == [w \in S |-> Len(w[1]) + Len(w[2])]
           F == [x \in S \X [S -> T] |-> step(x[1], x[2])]
<1>1. ASSUME NEW w \in S
      PROVE  /\ <<Rest(w[1]), w[2]>> \in S /\ <<w[1], Rest(w[2])>> \in S
             /\ <<Rest(w[1]), Rest(w[2])>> \in S
             /\ w[1] # <<>> => size[<<Rest(w[1]), w[2]>>] < size[w]
             /\ Inserts(w[2]) => size[<<w[1], Rest(w[2])>>] < size[w]
             /\ ~(w[1] = <<>> /\ w[2] = <<>>) => size[<<Rest(w[1]), Rest(w[2])>>] < size[w]
             /\ Head(w[1]) \in C /\ Head(w[2]) \in C /\ Delete \in C
  <2>1. PICK x, y : x = w[1] /\ y = w[2]
    OBVIOUS
  <2>2. x \in Operation /\ y \in Operation /\ x \in Seq(Component) /\ y \in Seq(Component)
    BY <2>1 DEF Operation
  <2>3. /\ Rest(x) \in Operation /\ Rest(y) \in Operation
        /\ Len(x) \in Nat /\ Len(y) \in Nat
        /\ Len(Rest(x)) = IF x = <<>> THEN 0 ELSE Len(x) - 1
        /\ Len(Rest(y)) = IF y = <<>> THEN 0 ELSE Len(y) - 1
        /\ Head(x) \in C /\ Head(y) \in C /\ Delete \in C
    BY <2>2, RestOfAny, HeadOfAny, ComponentKinds DEF Operation
  <2>4. Len(x) = 0 <=> x = <<>>
    BY <2>2, EmptySeq
  <2>5. Len(y) = 0 <=> y = <<>>
    BY <2>2, EmptySeq
  <2>6. Inserts(y) => y # <<>>
    BY DEF Inserts
  <2>7. size[w] = Len(x) + Len(y) /\ \A u, v \in Operation : size[<<u, v>>] = Len(u) + Len(v)
    BY <2>1
  <2>8. /\ <<Rest(x), y>> \in S /\ <<x, Rest(y)>> \in S /\ <<Rest(x), Rest(y)>> \in S
    BY <2>2, <2>3
  <2> HIDE DEF S, size, C
  <2>9. x # <<>> => size[<<Rest(x), y>>] < size[w]
    BY <2>2, <2>3, <2>4, <2>7
  <2>10. Inserts(y) => size[<<x, Rest(y)>>] < size[w]
    BY <2>2, <2>3, <2>5, <2>6, <2>7
  <2>11. ~(x = <<>> /\ y = <<>>) => size[<<Rest(x), Rest(y)>>] < size[w]
    BY <2>2, <2>3, <2>4, <2>5, <2>7
  <2>12. QED
    BY <2>1, <2>3, <2>8, <2>9, <2>10, <2>11
<1>2. T # {} /\ size \in [S -> Nat]
  <2>1. <<>> \in T
    OBVIOUS
  <2>2. \A w \in S : Len(w[1]) \in Nat /\ Len(w[2]) \in Nat
    BY DEF Operation
  <2>3. \A w \in S : Len(w[1]) + Len(w[2]) \in Nat
    BY <2>2
  <2>4. QED
    BY <2>1, <2>3
<1>3. \A w \in S, g \in [S -> T] : step(w, g) \in T
  <2> SUFFICES ASSUME NEW w \in S, NEW g \in [S -> T] PROVE step(w, g) \in T
    OBVIOUS
  <2>1. PICK x, y, p, q, r : /\ x = w[1] /\ y = w[2] /\ p = g[<<Rest(x), y>>]
                             /\ q = g[<<x, Rest(y)>>] /\ r = g[<<Rest(x), Rest(y)>>]
    OBVIOUS
  <2>2. /\ p \in T /\ q \in T /\ r \in T /\ Head(x) \in C /\ Head(y) \in C /\ Delete \in C
    <3> HIDE DEF S, T, C, step, size
    <3>1. QED
      BY <1>1, <2>1
  <2>3. PushFront(Delete, p) \in T /\ PushFront(Head(y), q) \in T
    <3> HIDE DEF C
    <3>1. QED
      BY <2>2, PushFrontType
  <2>4. Emit(ComposedPair(Head(x), Head(y)), r) \in T
    <3> HIDE DEF C
    <3>1. \A c \in C : Emit(<<c>>, r) \in T
      BY <2>2, EmitType
    <3>2. Emit(<<>>, r) \in T
      BY <2>2 DEF Emit
    <3>3. QED
      BY <2>2, <3>1, <3>2 DEF ComposedPair
  <2>5. <<>> \in T
    OBVIOUS
  <2>6. step(w, g) = IF x # <<>> /\ Head(x) = Delete THEN PushFront(Delete, p)
                     ELSE IF Inserts(y) THEN PushFront(Head(y), q)
                     ELSE IF x = <<>> /\ y = <<>> THEN <<>>
                     ELSE Emit(ComposedPair(Head(x), Head(y)), r)
    BY <2>1
  <2> HIDE DEF step, T
  <2>7. QED
    BY <2>3, <2>4, <2>5, <2>6
<1>4. F \in [S \X [S -> T] -> T]
  <2> HIDE DEF step, T, S
  <2>1. QED
    BY <1>3
<1>5. \A w \in S, g, h \in [S -> T] :
         (\A y \in S : size[y] < size[w] => g[y] = h[y]) => step(w, g) = step(w, h)
  <2> HIDE DEF size, S, T, C
  <2> SUFFICES ASSUME NEW w \in S, NEW g \in [S -> T], NEW h \in [S -> T],
                      \A y \in S : size[y] < size[w] => g[y] = h[y]
               PROVE  step(w, g) = step(w, h)
    OBVIOUS
  <2>1. /\ w[1] # <<>> => g[<<Rest(w[1]), w[2]>>] = h[<<Rest(w[1]), w[2]>>]
        /\ Inserts(w[2]) => g[<<w[1], Rest(w[2])>>] = h[<<w[1], Rest(w[2])>>]
        /\ ~(w[1] = <<>> /\ w[2] = <<>>) =>
             g[<<Rest(w[1]), Rest(w[2])>>] = h[<<Rest(w[1]), Rest(w[2])>>]
    <3> HIDE DEF step
    <3>1. QED
      BY <1>1
  <2>2. CASE w[1] # <<>> /\ Head(w[1]) = Delete
    BY <2>1, <2>2
  <2>3. CASE ~(w[1] # <<>> /\ Head(w[1]) = Delete) /\ Inserts(w[2])
    BY <2>1, <2>3
  <2>4. CASE ~(w[1] # <<>> /\ Head(w[1]) = Delete) /\ ~Inserts(w[2])
    BY <2>1, <2>4
  <2>5. QED
    BY <2>2, <2>3, <2>4
<1>6. \A w \in S, g, h \in [S -> T] :
         (\A y \in S : size[y] < size[w] => g[y] = h[y]) => F[<<w, g>>] = F[<<w, h>>]
  <2> HIDE DEF step, T, S, size
  <2>1. \A w \in S, g \in [S -> T] : F[<<w, g>>] = step(w, g)
    OBVIOUS
  <2>2. QED
    BY <1>5, <2>1
<1>7. PICK g \in [S -> T] : \A w \in S : g[w] = F[<<w, g>>]
  <2>1. Recursion(S, T, size, F)
    <3> HIDE DEF S, T, size, F
    <3>1. QED
      BY <1>2, <1>4, <1>6 DEF Recursion
  <2> HIDE DEF S, T, size, F
  <2>2. QED
    BY <2>1, RecursiveFunction
<1>8. g = [w \in S |-> step(w, g)]
  <2> HIDE DEF step, T, S
  <2>1. \A w \in S : g[w] = step(w, g)
    BY <1>7
  <2>2. QED
    BY <2>1
<1>9. PICK comp : comp = CHOOSE f : f = [w \in S |-> step(w, f)]
  OBVIOUS
<1>10. comp = [w \in S |-> step(w, comp)]
  BY <1>8, <1>9
<1>11. \A x \in Operation, y \in Operation : Compose(x, y) = comp[<<x, y>>]
  <2>1. ASSUME NEW x \in Operation, NEW y \in Operation
        PROVE  Compose(x, y) = (CHOOSE f : f = [w \in S |-> step(w, f)])[<<x, y>>]
    BY DEF Compose, Emit
  <2>2. QED
    BY <1>9, <2>1
<1>12. PICK w : w = <<a, b>>
  OBVIOUS
<1>13. w \in S /\ w[1] = a /\ w[2] = b
  BY <1>12
<1>14. comp[w] = step(w, comp)
  BY <1>10, <1>13
<1>15. Rest(a) \in Operation /\ Rest(b) \in Operation
  BY RestOfAny DEF Operation
<1>16. /\ Compose(a, b) = comp[w]
       /\ Compose(Rest(a), b) = comp[<<Rest(a), b>>]
       /\ Compose(a, Rest(b)) = comp[<<a, Rest(b)>>]
       /\ Compose(Rest(a), Rest(b)) = comp[<<Rest(a), Rest(b)>>]
  BY <1>11, <1>12, <1>15
<1>17. Compose(a, b) = IF a # <<>> /\ Head(a) = Delete THEN PushFront(Delete, Compose(Rest(a), b))
                     ELSE IF Inserts(b) THEN PushFront(Head(b), Compose(a, Rest(b)))
                     ELSE IF a = <<>> /\ b = <<>> THEN <<>>
                     ELSE Emit(ComposedPair(Head(a), Head(b)), Compose(Rest(a), Rest(b)))
  BY <1>13, <1>14, <1>16
<1>18. Inserts(<<>>) = FALSE
  BY DEF Inserts
<1>19. QED
  BY <1>17, <1>18

\* p does what a followed by b does.
ActsAs(a, b, p) ==
  /\ p \in Operation /\ Normal(p)
  /\ BaseLen(p) = BaseLen(a) /\ TargetLen(p) = TargetLen(b)
  /\ \A t \in Text : Applicable(a, t) => Apply(p, t) = Apply(b, Apply(a, t))

Sequential(a, b) == Composable(a, b) => ActsAs(a, b, Compose(a, b))

LEMMA SequentialEmpty == Sequential(<<>>, <<>>)
<1>1. Compose(<<>>, <<>>) = <<>>
  BY EmptyOnes, ComposeSteps
<1>2. Normal(<<>>)
  BY EmptyOnes DEF Normal
<1>3. ASSUME NEW t \in Text PROVE Apply(<<>>, t) = Apply(<<>>, Apply(<<>>, t))
  BY EmptyOnes, ApplyCons
<1>4. QED
  BY <1>1, <1>2, <1>3, EmptyOnes DEF Sequential, ActsAs

LEMMA SequentialDelete ==
  ASSUME NEW u \in Operation, NEW b \in Operation, Sequential(u, b)
  PROVE  Sequential(<<Delete>> \o u, b)
<1>1. PICK a, r, p : a = <<Delete>> \o u /\ r = Compose(u, b) /\ p = Compose(a, b)
  OBVIOUS
<1> SUFFICES ASSUME Composable(a, b) PROVE ActsAs(a, b, p)
  BY <1>1 DEF Sequential
<1>2. a \in Operation /\ a # <<>> /\ Head(a) = Delete /\ Rest(a) = u
  BY <1>1, ComponentKinds, ConsOfOperation
<1>3. BaseLen(a) = BaseLen(u) + 1 /\ TargetLen(a) = TargetLen(u)
  BY <1>1, LengthsOfCons
<1>4. ActsAs(u, b, r)
  BY <1>1, <1>3 DEF Sequential, Composable
<1>5. r \in Operation /\ Normal(r) /\ BaseLen(r) = BaseLen(u) /\ TargetLen(r) = TargetLen(b)
  BY <1>4 DEF ActsAs
<1>6. p = PushFront(Delete, r)
  <2>1. a # <<>> /\ Head(a) = Delete => Compose(a, b) = PushFront(Delete, Compose(Rest(a), b))
    BY <1>2, ComposeSteps
  <2>2. Compose(a, b) = PushFront(Delete, Compose(Rest(a), b))
    BY <1>2, <2>1
  <2>3. QED
    BY <1>1, <1>2, <2>2
<1>7. p \in Operation /\ Normal(p) /\ BaseLen(p) = BaseLen(a) /\ TargetLen(p) = TargetLen(b)
  BY <1>3, <1>5, <1>6, PushFrontEffect, ComponentKinds
<1>8. ASSUME NEW t \in Text, Applicable(a, t)
      PROVE  Apply(p, t) = Apply(b, Apply(a, t))
  <2>1. PICK ch \in Char, s \in Text : t = <<ch>> \o s /\ Applicable(u, s)
    BY <1>1, <1>8, FitsCons
  <2>2. Apply(<<Delete>> \o u, <<ch>> \o s) = Apply(u, s)
    BY ApplyCons
  <2>3. Applicable(r, s) /\ Apply(r, s) = Apply(b, Apply(u, s))
    BY <1>4, <1>5, <2>1 DEF ActsAs, Applicable
  <2>4. Apply(PushFront(Delete, r), <<ch>> \o s) = Apply(r, s)
    BY <1>5, <2>3, PushFrontEffect
  <2>5. QED
    BY <1>1, <1>6, <2>1, <2>2, <2>3, <2>4
<1>9. QED
  BY <1>7, <1>8 DEF ActsAs

LEMMA SequentialInsert ==
  ASSUME NEW a \in Operation, NEW v \in Operation, Sequential(a, v), NEW c \in Char,
         ~(a # <<>> /\ Head(a) = Delete)
  PROVE  Sequential(a, <<c>> \o v)
<1>1. PICK b, r, p : b = <<c>> \o v /\ r = Compose(a, v) /\ p = Compose(a, b)
  OBVIOUS
<1> SUFFICES ASSUME Composable(a, b) PROVE ActsAs(a, b, p)
  BY <1>1 DEF Sequential
<1>2. b \in Operation /\ b # <<>> /\ Head(b) = c /\ Rest(b) = v
  BY <1>1, ComponentKinds, ConsOfOperation
<1>3. BaseLen(b) = BaseLen(v) /\ TargetLen(b) = TargetLen(v) + 1
  BY <1>1, LengthsOfCons
<1>4. ActsAs(a, v, r)
  BY <1>1, <1>3 DEF Sequential, Composable
<1>5. r \in Operation /\ Normal(r) /\ BaseLen(r) = BaseLen(a) /\ TargetLen(r) = TargetLen(v)
  BY <1>4 DEF ActsAs
<1>6. p = PushFront(c, r)
  <2>1. Inserts(b)
    BY <1>2 DEF Inserts
  <2>2. ~(a # <<>> /\ Head(a) = Delete) /\ Inserts(b) =>
          Compose(a, b) = PushFront(Head(b), Compose(a, Rest(b)))
    BY <1>2, ComposeSteps
  <2>3. Compose(a, b) = PushFront(Head(b), Compose(a, Rest(b)))
    BY <2>1, <2>2
  <2>4. QED
    BY <1>1, <1>2, <2>3
<1>7. p \in Operation /\ Normal(p) /\ BaseLen(p) = BaseLen(a) /\ TargetLen(p) = TargetLen(b)
  <2>1. c \in Component
    BY ComponentKinds
  <2>2. /\ PushFront(c, r) \in Operation /\ Normal(PushFront(c, r))
        /\ BaseLen(PushFront(c, r)) = BaseLen(r)
        /\ TargetLen(PushFront(c, r)) = TargetLen(r) + 1
    BY <1>5, <2>1, PushFrontEffect
  <2>3. QED
    BY <1>3, <1>5, <1>6, <2>2
<1>8. ASSUME NEW t \in Text, Applicable(a, t)
      PROVE  Apply(p, t) = Apply(b, Apply(a, t))
  <2>1. PICK w : w = Apply(a, t)
    OBVIOUS
  <2>2. w \in Text
    BY <1>8, <2>1, ApplyType
  <2>3. Applicable(r, t) /\ Apply(r, t) = Apply(v, w)
    BY <1>4, <1>5, <1>8, <2>1 DEF ActsAs, Applicable
  <2>4. Apply(PushFront(c, r), t) = <<c>> \o Apply(r, t)
    BY <1>5, <2>3, PushFrontEffect
  <2>5. Apply(<<c>> \o v, w) = <<c>> \o Apply(v, w)
    BY <2>2, ApplyCons
  <2>6. QED
    BY <1>1, <1>6, <2>1, <2>3, <2>4, <2>5
<1>9. QED
  BY <1>7, <1>8 DEF ActsAs

LEMMA SequentialPairInserted ==
  ASSUME NEW u \in Operation, NEW v \in Operation, Sequential(u, v), NEW c \in Char,
         NEW d \in {Retain, Delete}
  PROVE  Sequential(<<c>> \o u, <<d>> \o v)
<1>1. PICK a, b, r, p : a = <<c>> \o u /\ b = <<d>> \o v /\ r = Compose(u, v) /\ p = Compose(a, b)
  OBVIOUS
<1> SUFFICES ASSUME Composable(a, b) PROVE ActsAs(a, b, p)
  BY <1>1 DEF Sequential
<1>2. c \in Component /\ c # Delete /\ c # Retain /\ d \in Component /\ d \notin Char
      /\ Retain # Delete
  BY ComponentKinds
<1>3. /\ a \in Operation /\ a # <<>> /\ Head(a) = c /\ Rest(a) = u
      /\ b \in Operation /\ b # <<>> /\ Head(b) = d /\ Rest(b) = v
  BY <1>1, <1>2, ConsOfOperation
<1>4. /\ BaseLen(a) = BaseLen(u) /\ TargetLen(a) = TargetLen(u) + 1
      /\ TargetLen(u) \in Nat /\ BaseLen(v) \in Nat
  BY <1>1, LengthsOfCons
<1>5. /\ BaseLen(b) = BaseLen(v) + 1
      /\ d = Retain => TargetLen(b) = TargetLen(v) + 1
      /\ d = Delete => TargetLen(b) = TargetLen(v)
  <2>1. /\ BaseLen(<<Retain>> \o v) = BaseLen(v) + 1
        /\ TargetLen(<<Retain>> \o v) = TargetLen(v) + 1
        /\ BaseLen(<<Delete>> \o v) = BaseLen(v) + 1
        /\ TargetLen(<<Delete>> \o v) = TargetLen(v)
    BY LengthsOfCons
  <2>2. QED
    BY <1>1, <2>1
<1>6. ActsAs(u, v, r)
  <2>1. TargetLen(u) + 1 = BaseLen(v) + 1
    BY <1>4, <1>5 DEF Composable
  <2>2. \A m, n \in Nat : m + 1 = n + 1 => m = n
    OBVIOUS
  <2>3. Composable(u, v)
    BY <1>4, <2>1, <2>2 DEF Composable
  <2>4. QED
    BY <1>1, <2>3 DEF Sequential
<1>7. r \in Operation /\ Normal(r) /\ BaseLen(r) = BaseLen(u) /\ TargetLen(r) = TargetLen(v)
  BY <1>6 DEF ActsAs
<1>8. p = Emit(ComposedPair(c, d), r)
  <2>1. ~Inserts(b) /\ ~(a # <<>> /\ Head(a) = Delete)
    BY <1>2, <1>3 DEF Inserts
  <2>2. ~(a # <<>> /\ Head(a) = Delete) /\ ~Inserts(b) /\ (a # <<>> \/ b # <<>>) =>
          Compose(a, b) = Emit(ComposedPair(Head(a), Head(b)), Compose(Rest(a), Rest(b)))
    BY <1>3, ComposeSteps
  <2>3. Compose(a, b) = Emit(ComposedPair(Head(a), Head(b)), Compose(Rest(a), Rest(b)))
    BY <1>3, <2>1, <2>2
  <2>4. QED
    BY <1>1, <1>3, <2>3
<1>9. (d = Retain => p = PushFront(c, r)) /\ (d = Delete => p = r)
  <2>1. ComposedPair(c, d) = IF d = Retain THEN <<c>> ELSE <<>>
    BY <1>2 DEF ComposedPair
  <2>2. QED
    BY <1>2, <1>8, <2>1 DEF Emit
<1>10. p \in Operation /\ Normal(p) /\ BaseLen(p) = BaseLen(a) /\ TargetLen(p) = TargetLen(b)
  <2>1. CASE d = Retain
    <3>1. /\ PushFront(c, r) \in Operation /\ Normal(PushFront(c, r))
          /\ BaseLen(PushFront(c, r)) = BaseLen(r)
          /\ TargetLen(PushFront(c, r)) = TargetLen(r) + 1
      BY <1>2, <1>7, PushFrontEffect
    <3>2. QED
      BY <1>4, <1>5, <1>7, <1>9, <2>1, <3>1
  <2>2. CASE d = Delete
    BY <1>2, <1>4, <1>5, <1>7, <1>9, <2>2
  <2>3. QED
    BY <2>1, <2>2
<1>11. ASSUME NEW t \in Text, Applicable(a, t)
       PROVE  Apply(p, t) = Apply(b, Apply(a, t))
  <2>1. Applicable(u, t)
    BY <1>1, <1>11, FitsCons
  <2>2. PICK w : w = Apply(u, t)
    OBVIOUS
  <2>3. w \in Text
    BY <2>1, <2>2, ApplyType
  <2>4. Apply(<<c>> \o u, t) = <<c>> \o Apply(u, t)
    BY ApplyCons
  <2>5. Apply(a, t) = <<c>> \o w
    BY <1>1, <2>2, <2>4
  <2>6. Applicable(r, t) /\ Apply(r, t) = Apply(v, w)
    BY <1>6, <1>7, <2>1, <2>2 DEF ActsAs, Applicable
  <2>7. /\ Apply(<<Retain>> \o v, <<c>> \o w) = <<c>> \o Apply(v, w)
        /\ Apply(<<Delete>> \o v, <<c>> \o w) = Apply(v, w)
    BY <2>3, ApplyCons
  <2>8. Apply(PushFront(c, r), t) = <<c>> \o Apply(r, t)
    BY <1>7, <2>6, PushFrontEffect
  <2>9. CASE d = Retain
    BY <1>1, <1>9, <2>5, <2>6, <2>7, <2>8, <2>9
  <2>10. CASE d = Delete
    BY <1>1, <1>9, <2>5, <2>6, <2>7, <2>10
  <2>11. QED
    BY <2>9, <2>10
<1>12. QED
  BY <1>10, <1>11 DEF ActsAs

LEMMA SequentialPairKept ==
  ASSUME NEW u \in Operation, NEW v \in Operation, Sequential(u, v), NEW d \in {Retain, Delete}
  PROVE  Sequential(<<Retain>> \o u, <<d>> \o v)
<1>1. PICK a, b, r, p : /\ a = <<Retain>> \o u /\ b = <<d>> \o v
                        /\ r = Compose(u, v) /\ p = Compose(a, b)
  OBVIOUS
<1> SUFFICES ASSUME Composable(a, b) PROVE ActsAs(a, b, p)
  BY <1>1 DEF Sequential
<1>2. Retain \in Component /\ d \in Component /\ d \notin Char /\ Retain # Delete
  BY ComponentKinds
<1>3. /\ a \in Operation /\ a # <<>> /\ Head(a) = Retain /\ Rest(a) = u
      /\ b \in Operation /\ b # <<>> /\ Head(b) = d /\ Rest(b) = v
  BY <1>1, <1>2, ConsOfOperation
<1>4. /\ BaseLen(a) = BaseLen(u) + 1 /\ TargetLen(a) = TargetLen(u) + 1
      /\ TargetLen(u) \in Nat /\ BaseLen(v) \in Nat
  BY <1>1, LengthsOfCons
<1>5. /\ BaseLen(b) = BaseLen(v) + 1
      /\ d = Retain => TargetLen(b) = TargetLen(v) + 1
      /\ d = Delete => TargetLen(b) = TargetLen(v)
  <2>1. /\ BaseLen(<<Retain>> \o v) = BaseLen(v) + 1
        /\ TargetLen(<<Retain>> \o v) = TargetLen(v) + 1
        /\ BaseLen(<<Delete>> \o v) = BaseLen(v) + 1
        /\ TargetLen(<<Delete>> \o v) = TargetLen(v)
    BY LengthsOfCons
  <2>2. QED
    BY <1>1, <2>1
<1>6. ActsAs(u, v, r)
  <2>1. TargetLen(u) + 1 = BaseLen(v) + 1
    BY <1>4, <1>5 DEF Composable
  <2>2. \A m, n \in Nat : m + 1 = n + 1 => m = n
    OBVIOUS
  <2>3. Composable(u, v)
    BY <1>4, <2>1, <2>2 DEF Composable
  <2>4. QED
    BY <1>1, <2>3 DEF Sequential
<1>7. r \in Operation /\ Normal(r) /\ BaseLen(r) = BaseLen(u) /\ TargetLen(r) = TargetLen(v)
  BY <1>6 DEF ActsAs
<1>8. p = Emit(ComposedPair(Retain, d), r)
  <2>1. ~Inserts(b) /\ ~(a # <<>> /\ Head(a) = Delete)
    BY <1>2, <1>3 DEF Inserts
  <2>2. ~(a # <<>> /\ Head(a) = Delete) /\ ~Inserts(b) /\ (a # <<>> \/ b # <<>>) =>
          Compose(a, b) = Emit(ComposedPair(Head(a), Head(b)), Compose(Rest(a), Rest(b)))
    BY <1>3, ComposeSteps
  <2>3. Compose(a, b) = Emit(ComposedPair(Head(a), Head(b)), Compose(Rest(a), Rest(b)))
    BY <1>3, <2>1, <2>2
  <2>4. QED
    BY <1>1, <1>3, <2>3
<1>9. p = PushFront(d, r)
  <2>1. ComposedPair(Retain, d) = <<d>>
    BY <1>2 DEF ComposedPair
  <2>2. QED
    BY <1>2, <1>8, <2>1 DEF Emit
<1>10. p \in Operation /\ Normal(p) /\ BaseLen(p) = BaseLen(a) /\ TargetLen(p) = TargetLen(b)
  <2>1. CASE d = Retain
    BY <1>2, <1>4, <1>5, <1>7, <1>9, <2>1, PushFrontEffect
  <2>2. CASE d = Delete
    BY <1>2, <1>4, <1>5, <1>7, <1>9, <2>2, PushFrontEffect
  <2>3. QED
    BY <2>1, <2>2
<1>11. ASSUME NEW t \in Text, Applicable(a, t)
       PROVE  Apply(p, t) = Apply(b, Apply(a, t))
  <2>1. PICK ch \in Char, s \in Text : t = <<ch>> \o s /\ Applicable(u, s)
    BY <1>1, <1>11, FitsCons
  <2>2. PICK w : w = Apply(u, s)
    OBVIOUS
  <2>3. w \in Text
    BY <2>1, <2>2, ApplyType
  <2>4. Apply(<<Retain>> \o u, <<ch>> \o s) = <<ch>> \o Apply(u, s)
    BY ApplyCons
  <2>5. Apply(a, t) = <<ch>> \o w
    BY <1>1, <2>1, <2>2, <2>4
  <2>6. Applicable(r, s) /\ Apply(r, s) = Apply(v, w)
    BY <1>6, <1>7, <2>1, <2>2 DEF ActsAs, Applicable
  <2>7. /\ Apply(<<Retain>> \o v, <<ch>> \o w) = <<ch>> \o Apply(v, w)
        /\ Apply(<<Delete>> \o v, <<ch>> \o w) = Apply(v, w)
    BY <2>3, ApplyCons
  <2>8. /\ Apply(PushFront(Retain, r), <<ch>> \o s) = <<ch>> \o Apply(r, s)
        /\ Apply(PushFront(Delete, r), <<ch>> \o s) = Apply(r, s)
    BY <1>7, <2>6, PushFrontEffect
  <2>9. CASE d = Retain
    BY <1>1, <1>9, <2>1, <2>5, <2>6, <2>7, <2>8, <2>9
  <2>10. CASE d = Delete
    BY <1>1, <1>9, <2>1, <2>5, <2>6, <2>7, <2>8, <2>10
  <2>11. QED
    BY <2>9, <2>10
<1>12. QED
  BY <1>10, <1>11 DEF ActsAs

\* Composing two operations does what applying one after the other does: of
\* every two operations that fit.
THEOREM Composition == \A a, b \in Operation : Sequential(a, b)
<1> DEFINE A == {n \in Nat : \A a, b \in Operation : Len(a) + Len(b) <= n => Sequential(a, b)}
<1>1. \A o \in Operation : Len(o) \in Nat /\ (Len(o) = 0 <=> o = <<>>)
  BY EmptySeq DEF Operation
<1>2. 0 \in A
  <2>1. ASSUME NEW a \in Operation, NEW b \in Operation, Len(a) + Len(b) <= 0
        PROVE  a = <<>> /\ b = <<>>
    BY <1>1, <2>1
  <2>2. QED
    BY <2>1, SequentialEmpty
<1>3. ASSUME NEW n \in A PROVE n + 1 \in A
  <2>1. ASSUME NEW a \in Operation, NEW b \in Operation, Len(a) + Len(b) <= n + 1
        PROVE  Sequential(a, b)
    <3>0. \A x, y \in Operation : Len(x) + Len(y) <= n => Sequential(x, y)
      OBVIOUS
    <3>1. CASE a # <<>> /\ Head(a) = Delete
      <4>1. PICK c \in Component, u \in Operation : a = <<c>> \o u /\ Len(a) = Len(u) + 1
        BY <3>1, OperationCases
      <4>2. c = Delete
        BY <3>1, <4>1, ConsOfOperation
      <4>3. Len(u) + Len(b) <= n
        BY <1>1, <2>1, <4>1
      <4>4. QED
        BY <3>0, <4>1, <4>2, <4>3, SequentialDelete
    <3>2. CASE ~(a # <<>> /\ Head(a) = Delete) /\ Inserts(b)
      <4>1. PICK c \in Component, u \in Operation : b = <<c>> \o u /\ Len(b) = Len(u) + 1
        BY <3>2, OperationCases DEF Inserts
      <4>2. c \in Char
        BY <3>2, <4>1, ConsOfOperation DEF Inserts
      <4>3. Len(a) + Len(u) <= n
        BY <1>1, <2>1, <4>1
      <4>4. QED
        BY <3>0, <3>2, <4>1, <4>2, <4>3, SequentialInsert
    <3>3. CASE a # <<>> /\ Head(a) # Delete /\ ~Inserts(b) /\ b # <<>>
      <4>1. PICK c \in Component, u \in Operation : a = <<c>> \o u /\ Len(a) = Len(u) + 1
        BY <3>3, OperationCases
      <4>2. PICK d \in Component, v \in Operation : b = <<d>> \o v /\ Len(b) = Len(v) + 1
        BY <3>3, OperationCases
      <4>3. c # Delete /\ d \notin Char
        BY <3>3, <4>1, <4>2, ConsOfOperation DEF Inserts
      <4>4. (c \in Char \/ c = Retain) /\ d \in {Retain, Delete}
        BY <4>3, ComponentKinds
      <4>5. Len(u) + Len(v) <= n
        BY <1>1, <2>1, <4>1, <4>2
      <4>6. Sequential(u, v)
        BY <3>0, <4>5
      <4>7. CASE c \in Char
        BY <4>1, <4>2, <4>4, <4>6, <4>7, SequentialPairInserted
      <4>8. CASE c = Retain
        BY <4>1, <4>2, <4>4, <4>6, <4>8, SequentialPairKept
      <4>9. QED
        BY <4>4, <4>7, <4>8
    <3>4. CASE a = <<>> /\ b = <<>>
      BY <3>4, SequentialEmpty
    <3>5. CASE a = <<>> /\ ~Inserts(b) /\ b # <<>>
      <4>1. PICK c \in Component, u \in Operation : b = <<c>> \o u
        BY <3>5, OperationCases
      <4>2. c \notin Char
        BY <3>5, <4>1, ConsOfOperation DEF Inserts
      <4>3. c = Retain \/ c = Delete
        BY <4>2, ComponentKinds
      <4>4. BaseLen(u) \in Nat /\ BaseLen(b) = BaseLen(u) + 1
        BY <4>1, <4>3, LengthsOfCons
      <4>5. ~Composable(a, b)
        BY <3>5, <4>4, EmptyOnes DEF Composable
      <4>6. QED
        BY <4>5 DEF Sequential
    <3>6. CASE a # <<>> /\ Head(a) # Delete /\ b = <<>>
      <4>1. PICK c \in Component, u \in Operation : a = <<c>> \o u
        BY <3>6, OperationCases
      <4>2. c # Delete
        BY <3>6, <4>1, ConsOfOperation
      <4>3. c \in Char \/ c = Retain
        BY <4>2, ComponentKinds
      <4>4. TargetLen(u) \in Nat /\ TargetLen(a) = TargetLen(u) + 1
        BY <4>1, <4>3, LengthsOfCons
      <4>5. ~Composable(a, b)
        BY <3>6, <4>4, EmptyOnes DEF Composable
      <4>6. QED
        BY <4>5 DEF Sequential
    <3>7. QED
      BY <3>1, <3>2, <3>3, <3>4, <3>5, <3>6 DEF Inserts
  <2>2. QED
    BY <2>1
<1>4. A = Nat
  <2> HIDE DEF A
  <2>1. A \in SUBSET Nat
    BY DEF A
  <2>2. QED
    BY <1>2, <1>3, <2>1, Induction
<1>5. ASSUME NEW a \in Operation, NEW b \in Operation PROVE Sequential(a, b)
  <2>1. PICK n : n = Len(a) + Len(b)
    OBVIOUS
  <2>2. n \in Nat /\ n <= n
    BY <1>1, <2>1
  <2>3. n \in A
    <3> HIDE DEF A
    <3>1. QED
      BY <1>4, <2>2
  <2>4. QED
    BY <2>1, <2>2, <2>3
<1>6. QED
  BY <1>5

----------------------------------------------------------------------------
(* Positions (text.rs:112-143). *)

\* Where a walk over the operation w[1] that is w[2] characters away from the cursor
\* brings the number w[3].
WalkStep(w, g, own) ==
  IF w[1] = <<>> THEN w[3]
  ELSE IF Inserts(w[1])
  THEN g[<<Rest(w[1]), w[2], IF PushesCursor(w[2], own) THEN w[3] + 1 ELSE w[3]>>]
  ELSE IF w[2] = 0 THEN w[3]
  ELSE g[<<Rest(w[1]), w[2] - 1, IF Head(w[1]) = Delete THEN w[3] - 1 ELSE w[3]>>]

IsWalk(walk, own) ==
  \A w \in Operation \X Nat \X Int : walk[w] = WalkStep(w, walk, own)

Walked(walk, o, p, n) == walk[<<o, p, n>>]

LEMMA PositionWalk ==
  ASSUME NEW own
  PROVE  \E walk :
           /\ IsWalk(walk, own)
           /\ \A o \in Operation, p \in Nat : TransformPosition(p, o, own) = Walked(walk, o, p, p)
<1> DEFINE S == Operation \X Nat \X Int
           T == Int
           step(w, g) == WalkStep(w, g, own)
           size == [w \in S |-> Len(w[1])]
           F == [x \in S \X [S -> T] |-> step(x[1], x[2])]
<1>1. ASSUME NEW w \in S, w[1] # <<>>
      PROVE  \A p \in Nat, n \in Int : /\ <<Rest(w[1]), p, n>> \in S
                                       /\ size[<<Rest(w[1]), p, n>>] < size[w]
  <2>1. w[1] \in Seq(Component)
    BY DEF Operation
  <2>2. Rest(w[1]) \in Operation /\ Len(Rest(w[1])) = Len(w[1]) - 1 /\ Len(w[1]) \in Nat
    BY <1>1, <2>1, RestOf, RestOfAny DEF Operation
  <2>3. Len(w[1]) - 1 < Len(w[1])
    BY <2>2
  <2>4. QED
    BY <2>2, <2>3
<1>2. T # {} /\ size \in [S -> Nat]
  <2>1. \A w \in S : Len(w[1]) \in Nat
    BY DEF Operation
  <2>2. QED
    BY <2>1
<1>3. ASSUME NEW w \in S, w[1] # <<>>
      PROVE  \E x, y \in S :
               /\ x = <<Rest(w[1]), w[2], IF PushesCursor(w[2], own) THEN w[3] + 1 ELSE w[3]>>
               /\ w[2] # 0 =>
                    y = <<Rest(w[1]), w[2] - 1, IF Head(w[1]) = Delete THEN w[3] - 1 ELSE w[3]>>
               /\ size[x] < size[w] /\ size[y] < size[w]
  <2>1. w[2] \in Nat /\ w[3] \in Int /\ (w[2] # 0 => w[2] - 1 \in Nat)
    OBVIOUS
  <2>2. PICK m : m = IF PushesCursor(w[2], own) THEN w[3] + 1 ELSE w[3]
    OBVIOUS
  <2>3. PICK n : n = IF Head(w[1]) = Delete THEN w[3] - 1 ELSE w[3]
    OBVIOUS
  <2>4. m \in Int /\ n \in Int
    BY <2>1, <2>2, <2>3
  <2>5. PICK k \in Nat : w[2] # 0 => k = w[2] - 1
    BY <2>1
  <2> HIDE DEF S, size
  <2>6. /\ <<Rest(w[1]), w[2], m>> \in S /\ <<Rest(w[1]), k, n>> \in S
        /\ size[<<Rest(w[1]), w[2], m>>] < size[w] /\ size[<<Rest(w[1]), k, n>>] < size[w]
    BY <1>1, <1>3, <2>1, <2>4
  <2>7. QED
    BY <2>2, <2>3, <2>5, <2>6
<1>4. \A w \in S, g \in [S -> T] : step(w, g) \in T
  <2> SUFFICES ASSUME NEW w \in S, NEW g \in [S -> T] PROVE step(w, g) \in T
    OBVIOUS
  <2>1. w[3] \in T
    OBVIOUS
  <2>2. CASE w[1] = <<>>
    BY <2>1, <2>2 DEF WalkStep
  <2>3. CASE w[1] # <<>>
    <3>1. PICK x, y \in S :
               /\ x = <<Rest(w[1]), w[2], IF PushesCursor(w[2], own) THEN w[3] + 1 ELSE w[3]>>
               /\ w[2] # 0 =>
                    y = <<Rest(w[1]), w[2] - 1, IF Head(w[1]) = Delete THEN w[3] - 1 ELSE w[3]>>
      BY <1>3, <2>3
    <3>2. step(w, g) = IF Inserts(w[1]) THEN g[x] ELSE IF w[2] = 0 THEN w[3] ELSE g[y]
      BY <2>3, <3>1 DEF WalkStep
    <3>3. g[x] \in T /\ g[y] \in T
      OBVIOUS
    <3> HIDE DEF T, S, step
    <3>4. QED
      BY <2>1, <3>2, <3>3
  <2>4. QED
    BY <2>2, <2>3
<1>5. F \in [S \X [S -> T] -> T]
  <2> HIDE DEF step, T, S
  <2>1. QED
    BY <1>4
<1>6. \A w \in S, g, h \in [S -> T] :
         (\A y \in S : size[y] < size[w] => g[y] = h[y]) => step(w, g) = step(w, h)
  <2> SUFFICES ASSUME NEW w \in S, NEW g \in [S -> T], NEW h \in [S -> T],
                      \A y \in S : size[y] < size[w] => g[y] = h[y]
               PROVE  step(w, g) = step(w, h)
    OBVIOUS
  <2>1. CASE w[1] = <<>>
    BY <2>1 DEF WalkStep
  <2>2. CASE w[1] # <<>>
    <3>1. PICK x, y \in S :
               /\ x = <<Rest(w[1]), w[2], IF PushesCursor(w[2], own) THEN w[3] + 1 ELSE w[3]>>
               /\ w[2] # 0 =>
                    y = <<Rest(w[1]), w[2] - 1, IF Head(w[1]) = Delete THEN w[3] - 1 ELSE w[3]>>
               /\ size[x] < size[w] /\ size[y] < size[w]
      BY <1>3, <2>2
    <3>2. /\ step(w, g) = IF Inserts(w[1]) THEN g[x] ELSE IF w[2] = 0 THEN w[3] ELSE g[y]
          /\ step(w, h) = IF Inserts(w[1]) THEN h[x] ELSE IF w[2] = 0 THEN w[3] ELSE h[y]
      BY <2>2, <3>1 DEF WalkStep
    <3> HIDE DEF T, S, step, size
    <3>3. g[x] = h[x] /\ g[y] = h[y]
      BY <3>1
    <3>4. QED
      BY <3>2, <3>3
  <2>3. QED
    BY <2>1, <2>2
<1>7. \A w \in S, g, h \in [S -> T] :
         (\A y \in S : size[y] < size[w] => g[y] = h[y]) => F[<<w, g>>] = F[<<w, h>>]
  <2> HIDE DEF step, T, S, size
  <2>1. \A w \in S, g \in [S -> T] : F[<<w, g>>] = step(w, g)
    OBVIOUS
  <2>2. QED
    BY <1>6, <2>1
<1>8. PICK g \in [S -> T] : \A w \in S : g[w] = F[<<w, g>>]
  <2>1. Recursion(S, T, size, F)
    <3> HIDE DEF S, T, size, F
    <3>1. QED
      BY <1>2, <1>5, <1>7 DEF Recursion
  <2> HIDE DEF S, T, size, F
  <2>2. QED
    BY <2>1, RecursiveFunction
<1>9. g = [w \in S |-> step(w, g)]
  <2> HIDE DEF step, T, S
  <2>1. \A w \in S : g[w] = step(w, g)
    BY <1>8
  <2>2. QED
    BY <2>1
<1>10. PICK walk : walk = CHOOSE f : f = [w \in S |-> step(w, f)]
  OBVIOUS
<1>11. walk = [w \in S |-> step(w, walk)]
  BY <1>9, <1>10
<1>12. \A o \in Operation, p \in Nat : TransformPosition(p, o, own) = walk[<<o, p, p>>]
  <2>1. ASSUME NEW o \in Operation, NEW p \in Nat
        PROVE  TransformPosition(p, o, own) = (CHOOSE f : f = [w \in S |-> step(w, f)])[<<o, p, p>>]
    BY DEF TransformPosition, WalkStep
  <2>2. QED
    BY <2>1, <1>10
<1>13. \A w \in S : walk[w] = step(w, walk)
  <2> HIDE DEF step, S
  <2>1. QED
    BY <1>11
<1>14. QED
  BY <1>12, <1>13 DEF IsWalk, Walked

\* One step of the walk.
LEMMA PositionWalkCons ==
  ASSUME NEW own \in BOOLEAN, NEW walk, IsWalk(walk, own),
         NEW o \in Operation, NEW p \in Nat, NEW n \in Int
  PROVE  /\ Walked(walk, <<>>, p, n) = n
         /\ \A c \in Char :
              /\ own \/ p > 0 => Walked(walk, <<c>> \o o, p, n) = Walked(walk, o, p, n + 1)
              /\ ~(own \/ p > 0) => Walked(walk, <<c>> \o o, p, n) = Walked(walk, o, p, n)
         /\ \A c \in {Retain, Delete} : p = 0 => Walked(walk, <<c>> \o o, p, n) = n
         /\ p > 0 => /\ Walked(walk, <<Retain>> \o o, p, n) = Walked(walk, o, p - 1, n)
                     /\ Walked(walk, <<Delete>> \o o, p, n) = Walked(walk, o, p - 1, n - 1)
<1>1. Walked(walk, <<>>, p, n) = n
  <2>1. PICK w : w = <<<<>>, p, n>>
    OBVIOUS
  <2>2. w \in Operation \X Nat \X Int /\ w[1] = <<>> /\ w[3] = n
    BY <2>1, EmptyOnes
  <2>3. walk[w] = WalkStep(w, walk, own)
    BY <2>2 DEF IsWalk
  <2>4. WalkStep(w, walk, own) = n
    BY <2>2 DEF WalkStep
  <2>5. QED
    BY <2>1, <2>3, <2>4 DEF Walked
<1>2. ASSUME NEW c \in Component
      PROVE  Walked(walk, <<c>> \o o, p, n) =
               IF c \in Char
               THEN walk[<<o, p, IF PushesCursor(p, own) THEN n + 1 ELSE n>>]
               ELSE IF p = 0 THEN n
               ELSE walk[<<o, p - 1, IF c = Delete THEN n - 1 ELSE n>>]
  <2>0. PICK r : r = <<c>> \o o
    OBVIOUS
  <2>1. r \in Operation /\ r # <<>> /\ Head(r) = c /\ Rest(r) = o
    BY <2>0, ConsOfOperation
  <2>2. PICK w : w = <<r, p, n>>
    OBVIOUS
  <2>3. w \in Operation \X Nat \X Int /\ w[1] = r /\ w[2] = p /\ w[3] = n
    BY <2>1, <2>2
  <2>4. walk[w] = WalkStep(w, walk, own)
    BY <2>3 DEF IsWalk
  <2>5. Inserts(r) <=> c \in Char
    BY <2>1 DEF Inserts
  <2>6. WalkStep(w, walk, own) =
               IF c \in Char
               THEN walk[<<o, p, IF PushesCursor(p, own) THEN n + 1 ELSE n>>]
               ELSE IF p = 0 THEN n
               ELSE walk[<<o, p - 1, IF c = Delete THEN n - 1 ELSE n>>]
    <3>1. CASE c \in Char
      BY <2>1, <2>3, <2>5, <3>1 DEF WalkStep
    <3>2. CASE c \notin Char
      BY <2>1, <2>3, <2>5, <3>2 DEF WalkStep
    <3>3. QED
      BY <3>1, <3>2
  <2>7. QED
    BY <2>0, <2>2, <2>4, <2>6 DEF Walked
<1>3. ASSUME NEW c \in Char
      PROVE  /\ own \/ p > 0 => Walked(walk, <<c>> \o o, p, n) = Walked(walk, o, p, n + 1)
             /\ ~(own \/ p > 0) => Walked(walk, <<c>> \o o, p, n) = Walked(walk, o, p, n)
  <2>1. c \in Component
    BY ComponentKinds
  <2>2. PICK x : x = Walked(walk, <<c>> \o o, p, n)
    OBVIOUS
  <2>3. x = walk[<<o, p, IF PushesCursor(p, own) THEN n + 1 ELSE n>>]
    BY <1>2, <2>1, <2>2
  <2>4. PushesCursor(p, own) <=> own \/ p > 0
    BY DEF PushesCursor
  <2>5. CASE own \/ p > 0
    BY <2>2, <2>3, <2>4, <2>5 DEF Walked
  <2>6. CASE ~(own \/ p > 0)
    BY <2>2, <2>3, <2>4, <2>6 DEF Walked
  <2>7. QED
    BY <2>5, <2>6
<1>4. ASSUME NEW c \in {Retain, Delete}
      PROVE  Walked(walk, <<c>> \o o, p, n)
              = IF p = 0 THEN n ELSE walk[<<o, p - 1, IF c = Delete THEN n - 1 ELSE n>>]
  <2>1. c \in Component /\ c \notin Char
    BY ComponentKinds
  <2>2. QED
    BY <1>2, <2>1
<1>5. \A c \in {Retain, Delete} : p = 0 => Walked(walk, <<c>> \o o, p, n) = n
  BY <1>4
<1>6. ASSUME p > 0
      PROVE  /\ Walked(walk, <<Retain>> \o o, p, n) = Walked(walk, o, p - 1, n)
             /\ Walked(walk, <<Delete>> \o o, p, n) = Walked(walk, o, p - 1, n - 1)
  <2>1. Walked(walk, <<Retain>> \o o, p, n)
          = walk[<<o, p - 1, IF Retain = Delete THEN n - 1 ELSE n>>]
    BY <1>4, <1>6
  <2>2. Walked(walk, <<Delete>> \o o, p, n) = walk[<<o, p - 1, n - 1>>]
    BY <1>4, <1>6
  <2>3. QED
    BY <2>1, <2>2, ComponentKinds DEF Walked
<1>7. QED
  BY <1>1, <1>3, <1>5, <1>6

\* Where the walk starts from only shifts where it ends.
Shifting(walk, o) ==
  \A p \in Nat : /\ Walked(walk, o, p, 0) \in Int
                 /\ \A n \in Int : Walked(walk, o, p, n) = Walked(walk, o, p, 0) + n

LEMMA WalkShifts ==
  ASSUME NEW own \in BOOLEAN, NEW walk, IsWalk(walk, own)
  PROVE  \A o \in Operation : Shifting(walk, o)
<1> DEFINE P == {o \in Operation : Shifting(walk, o)}
<1>1. <<>> \in P
  <2>1. \A p \in Nat, n \in Int : Walked(walk, <<>>, p, n) = n
    BY EmptyOnes, PositionWalkCons
  <2>2. Shifting(walk, <<>>)
    BY <2>1 DEF Shifting
  <2>3. QED
    BY <2>2, EmptyOnes
<1>2. ASSUME NEW o \in Operation, Shifting(walk, o), NEW c \in Component
      PROVE  Shifting(walk, <<c>> \o o)
  <2>1. PICK r : r = <<c>> \o o
    OBVIOUS
  <2>2. ASSUME NEW p \in Nat, NEW q \in Nat, NEW k \in Int,
               \A n \in Int : Walked(walk, r, p, n) = Walked(walk, o, q, n + k)
        PROVE  /\ Walked(walk, r, p, 0) \in Int
               /\ \A n \in Int : Walked(walk, r, p, n) = Walked(walk, r, p, 0) + n
    <3>1. PICK d : d = Walked(walk, o, q, 0)
      OBVIOUS
    <3>2. d \in Int /\ \A n \in Int : Walked(walk, o, q, n) = d + n
      BY <1>2, <3>1 DEF Shifting
    <3>3. \A n \in Int : n + k \in Int
      OBVIOUS
    <3>4. \A n \in Int : Walked(walk, r, p, n) = d + (n + k)
      BY <2>2, <3>2, <3>3
    <3>5. Walked(walk, r, p, 0) = d + k
      BY <3>2, <3>4
    <3>6. QED
      BY <3>2, <3>4, <3>5
  <2>3. ASSUME NEW p \in Nat
        PROVE  /\ Walked(walk, r, p, 0) \in Int
               /\ \A n \in Int : Walked(walk, r, p, n) = Walked(walk, r, p, 0) + n
    <3>1. CASE c \in Char /\ (own \/ p > 0)
      <4>1. \A n \in Int : Walked(walk, <<c>> \o o, p, n) = Walked(walk, o, p, n + 1)
        BY <3>1, PositionWalkCons
      <4>2. \A n \in Int : Walked(walk, r, p, n) = Walked(walk, o, p, n + 1)
        BY <2>1, <4>1
      <4>3. 1 \in Int
        OBVIOUS
      <4>4. QED
        BY <2>2, <4>2, <4>3
    <3>2. CASE c \in Char /\ ~(own \/ p > 0)
      <4>1. \A n \in Int : Walked(walk, <<c>> \o o, p, n) = Walked(walk, o, p, n)
        BY <3>2, PositionWalkCons
      <4>2. \A n \in Int : n + 0 = n
        OBVIOUS
      <4>3. \A n \in Int : Walked(walk, r, p, n) = Walked(walk, o, p, n + 0)
        BY <2>1, <4>1, <4>2
      <4>4. QED
        BY <2>2, <4>3
    <3>3. CASE c \in {Retain, Delete} /\ p = 0
      <4>1. \A n \in Int : Walked(walk, <<c>> \o o, p, n) = n
        BY <3>3, PositionWalkCons
      <4>2. QED
        BY <2>1, <4>1
    <3>4. CASE c = Retain /\ p > 0
      <4>1. \A n \in Int : Walked(walk, <<Retain>> \o o, p, n) = Walked(walk, o, p - 1, n)
        BY <3>4, PositionWalkCons
      <4>2. \A n \in Int : n + 0 = n
        OBVIOUS
      <4>3. \A n \in Int : Walked(walk, r, p, n) = Walked(walk, o, p - 1, n + 0)
        BY <2>1, <3>4, <4>1, <4>2
      <4>4. p - 1 \in Nat
        BY <3>4
      <4>5. QED
        BY <2>2, <4>3, <4>4
    <3>5. CASE c = Delete /\ p > 0
      <4>1. \A n \in Int : Walked(walk, <<Delete>> \o o, p, n) = Walked(walk, o, p - 1, n - 1)
        BY <3>5, PositionWalkCons
      <4>2. \A n \in Int : n - 1 = n + (-1)
        OBVIOUS
      <4>3. \A n \in Int : Walked(walk, r, p, n) = Walked(walk, o, p - 1, n + (-1))
        BY <2>1, <3>5, <4>1, <4>2
      <4>4. p - 1 \in Nat /\ -1 \in Int
        BY <3>5
      <4>5. QED
        BY <2>2, <4>3, <4>4
    <3>6. p = 0 \/ p > 0
      OBVIOUS
    <3>7. QED
      BY <3>1, <3>2, <3>3, <3>4, <3>5, <3>6, ComponentKinds
  <2>4. QED
    BY <2>1, <2>3 DEF Shifting
<1>3. \A o \in P, c \in Component : <<c>> \o o \in P
  BY <1>2, ConsOfOperation
<1>4. P = Operation
  <2> HIDE DEF P
  <2>1. P \in SUBSET Seq(Component)
    BY DEF P, Operation
  <2>2. QED
    BY <1>1, <1>3, <2>1, SequenceInduction DEF Operation
<1>5. QED
  BY <1>4

\* TransformPosition, one component after the other.
LEMMA PositionCons ==
  ASSUME NEW own \in BOOLEAN, NEW o \in Operation, NEW p \in Nat
  PROVE  /\ TransformPosition(p, o, own) \in Int
         /\ TransformPosition(p, <<>>, own) = p
         /\ \A c \in Char :
              /\ own \/ p > 0 => TransformPosition(p, <<c>> \o o, own)
                                   = TransformPosition(p, o, own) + 1
              /\ ~(own \/ p > 0) => TransformPosition(p, <<c>> \o o, own)
                                      = TransformPosition(p, o, own)
         /\ \A c \in {Retain, Delete} : p = 0 => TransformPosition(p, <<c>> \o o, own) = 0
         /\ p > 0 =>
              /\ TransformPosition(p, <<Retain>> \o o, own) = TransformPosition(p - 1, o, own) + 1
              /\ TransformPosition(p, <<Delete>> \o o, own) = TransformPosition(p - 1, o, own)
<1>1. PICK walk :
        /\ IsWalk(walk, own)
        /\ \A u \in Operation, q \in Nat : TransformPosition(q, u, own) = Walked(walk, u, q, q)
  BY PositionWalk
<1>2. \A u \in Operation, q \in Nat :
        /\ Walked(walk, u, q, 0) \in Int
        /\ \A n \in Int : Walked(walk, u, q, n) = Walked(walk, u, q, 0) + n
  <2>1. \A u \in Operation : Shifting(walk, u)
    BY <1>1, WalkShifts
  <2>2. QED
    BY <2>1 DEF Shifting
<1>3. \A u \in Operation, q \in Nat :
        /\ TransformPosition(q, u, own) = Walked(walk, u, q, 0) + q
        /\ Walked(walk, u, q, 0) \in Int /\ q \in Int
  BY <1>1, <1>2
<1>4. TransformPosition(p, <<>>, own) = p
  <2>1. Walked(walk, <<>>, p, p) = p
    BY <1>1, PositionWalkCons
  <2>2. QED
    BY <1>1, <2>1, EmptyOnes
<1>5. ASSUME NEW c \in Char
      PROVE  /\ own \/ p > 0 => TransformPosition(p, <<c>> \o o, own)
                                   = TransformPosition(p, o, own) + 1
             /\ ~(own \/ p > 0) => TransformPosition(p, <<c>> \o o, own)
                                      = TransformPosition(p, o, own)
  <2>1. <<c>> \o o \in Operation
    BY ConsOfOperation, ComponentKinds
  <2>2. /\ own \/ p > 0 => Walked(walk, <<c>> \o o, p, p) = Walked(walk, o, p, p + 1)
        /\ ~(own \/ p > 0) => Walked(walk, <<c>> \o o, p, p) = Walked(walk, o, p, p)
    BY <1>1, PositionWalkCons
  <2>3. Walked(walk, o, p, p + 1) = Walked(walk, o, p, 0) + (p + 1)
    BY <1>2
  <2>4. Walked(walk, o, p, p + 1) = TransformPosition(p, o, own) + 1
    BY <1>3, <2>3
  <2>5. /\ TransformPosition(p, <<c>> \o o, own) = Walked(walk, <<c>> \o o, p, p)
        /\ TransformPosition(p, o, own) = Walked(walk, o, p, p)
    BY <1>1, <2>1
  <2>6. QED
    BY <2>2, <2>4, <2>5
<1>6. ASSUME NEW c \in {Retain, Delete}
      PROVE  /\ <<c>> \o o \in Operation
             /\ TransformPosition(p, <<c>> \o o, own) = Walked(walk, <<c>> \o o, p, p)
  BY <1>1, ConsOfOperation, ComponentKinds
<1>7. ASSUME NEW c \in {Retain, Delete}, p = 0
      PROVE  TransformPosition(p, <<c>> \o o, own) = 0
  <2>1. Walked(walk, <<c>> \o o, p, p) = p
    BY <1>1, <1>7, PositionWalkCons
  <2>2. QED
    BY <1>6, <1>7, <2>1
<1>8. ASSUME p > 0
      PROVE  /\ TransformPosition(p, <<Retain>> \o o, own) = TransformPosition(p - 1, o, own) + 1
             /\ TransformPosition(p, <<Delete>> \o o, own) = TransformPosition(p - 1, o, own)
  <2>1. PICK q \in Nat : q = p - 1 /\ p = q + 1
    BY <1>8
  <2>2. PICK d : d = Walked(walk, o, q, 0)
    OBVIOUS
  <2>3. TransformPosition(q, o, own) = d + q /\ d \in Int
    BY <1>3, <2>2
  <2>4. /\ Walked(walk, <<Retain>> \o o, p, p) = Walked(walk, o, p - 1, p)
        /\ Walked(walk, <<Delete>> \o o, p, p) = Walked(walk, o, p - 1, p - 1)
    BY <1>1, <1>8, PositionWalkCons
  <2>5. Walked(walk, o, q, p) = d + p /\ Walked(walk, o, q, q) = d + q
    BY <1>2, <2>2
  <2>6. /\ TransformPosition(p, <<Retain>> \o o, own) = d + p
        /\ TransformPosition(p, <<Delete>> \o o, own) = d + q
    BY <1>6, <2>1, <2>4, <2>5
  <2>7. QED
    BY <2>1, <2>3, <2>6
<1>9. TransformPosition(p, o, own) \in Int
  BY <1>3
<1>10. QED
  BY <1>4, <1>5, <1>7, <1>8, <1>9

\* Cursors keep their order and stay inside the text.
Orderly(o, own) ==
  \A p \in Nat :
    /\ TransformPosition(p, o, own) \in Nat
    /\ p <= BaseLen(o) => TransformPosition(p, o, own) <= TargetLen(o)
    /\ \A q \in Nat : p <= q => TransformPosition(p, o, own) <= TransformPosition(q, o, own)

LEMMA OrderlyCons ==
  ASSUME NEW own \in BOOLEAN, NEW o \in Operation, Orderly(o, own), NEW c \in Component
  PROVE  Orderly(<<c>> \o o, own)
<1>1. PICK r : r = <<c>> \o o
  OBVIOUS
<1>2. PICK f, g : /\ f = [p \in Nat |-> TransformPosition(p, o, own)]
                  /\ g = [p \in Nat |-> TransformPosition(p, r, own)]
  OBVIOUS
<1>3. PICK m, n : m = BaseLen(o) /\ n = TargetLen(o)
  OBVIOUS
<1>4. m \in Nat /\ n \in Nat
  BY <1>3, LengthsOfCons
<1>5. \A p \in Nat : f[p] \in Nat /\ (p <= m => f[p] <= n) /\ \A q \in Nat : p <= q => f[p] <= f[q]
  BY <1>2, <1>3 DEF Orderly
<1>6. SUFFICES \A p \in Nat : /\ g[p] \in Nat /\ (p <= BaseLen(r) => g[p] <= TargetLen(r))
                              /\ \A q \in Nat : p <= q => g[p] <= g[q]
  BY <1>1, <1>2 DEF Orderly
<1>7. CASE c \in Char
  <2>1. \A p \in Nat : /\ own \/ p > 0 => g[p] = f[p] + 1
                       /\ ~(own \/ p > 0) => g[p] = f[p]
    BY <1>1, <1>2, <1>7, PositionCons
  <2>2. BaseLen(r) = m /\ TargetLen(r) = n + 1
    BY <1>1, <1>3, <1>7, LengthsOfCons
  <2>3. QED
    BY <1>4, <1>5, <2>1, <2>2
<1>8. ASSUME c \in {Retain, Delete}
      PROVE  /\ g[0] = 0
             /\ BaseLen(r) = m + 1
             /\ c = Retain => /\ TargetLen(r) = n + 1
                              /\ \A p \in Nat : p > 0 => g[p] = f[p - 1] + 1
             /\ c = Delete => /\ TargetLen(r) = n
                              /\ \A p \in Nat : p > 0 => g[p] = f[p - 1]
  <2>1. g[0] = 0
    <3>1. 0 = 0 => TransformPosition(0, <<c>> \o o, own) = 0
      BY <1>8, PositionCons
    <3>2. QED
      BY <1>1, <1>2, <3>1
  <2>2. /\ BaseLen(<<Retain>> \o o) = m + 1 /\ TargetLen(<<Retain>> \o o) = n + 1
        /\ BaseLen(<<Delete>> \o o) = m + 1 /\ TargetLen(<<Delete>> \o o) = n
    BY <1>3, LengthsOfCons
  <2>3. ASSUME NEW p \in Nat, p > 0
        PROVE  (c = Retain => g[p] = f[p - 1] + 1) /\ (c = Delete => g[p] = f[p - 1])
    <3>1. /\ TransformPosition(p, <<Retain>> \o o, own) = TransformPosition(p - 1, o, own) + 1
          /\ TransformPosition(p, <<Delete>> \o o, own) = TransformPosition(p - 1, o, own)
      BY <2>3, PositionCons
    <3>2. p - 1 \in Nat
      BY <2>3
    <3>3. f[p - 1] = TransformPosition(p - 1, o, own) /\ g[p] = TransformPosition(p, r, own)
      BY <1>2, <3>2
    <3>4. QED
      BY <1>1, <3>1, <3>3
  <2>4. QED
    BY <1>1, <1>8, <2>1, <2>2, <2>3
<1>9. CASE c = Retain
  <2>1. /\ g[0] = 0 /\ BaseLen(r) = m + 1 /\ TargetLen(r) = n + 1
        /\ \A p \in Nat : p > 0 => g[p] = f[p - 1] + 1
    BY <1>8, <1>9
  <2>2. \A p \in Nat : p > 0 => p - 1 \in Nat
    OBVIOUS
  <2>3. QED
    BY <1>4, <1>5, <2>1, <2>2
<1>10. CASE c = Delete
  <2>1. /\ g[0] = 0 /\ BaseLen(r) = m + 1 /\ TargetLen(r) = n
        /\ \A p \in Nat : p > 0 => g[p] = f[p - 1]
    BY <1>8, <1>10
  <2>2. \A p \in Nat : p > 0 => p - 1 \in Nat
    OBVIOUS
  <2>3. QED
    BY <1>4, <1>5, <2>1, <2>2
<1>11. QED
  BY <1>7, <1>9, <1>10, ComponentKinds

LEMMA PositionsOrderly == \A o \in Operation, own \in BOOLEAN : Orderly(o, own)
<1> DEFINE P == {o \in Operation : \A own \in BOOLEAN : Orderly(o, own)}
<1>1. <<>> \in P
  <2>1. ASSUME NEW own \in BOOLEAN PROVE Orderly(<<>>, own)
    <3>1. \A p \in Nat : TransformPosition(p, <<>>, own) = p
      BY EmptyOnes, PositionCons
    <3>2. QED
      BY <3>1, EmptyOnes DEF Orderly
  <2>2. QED
    BY <2>1, EmptyOnes
<1>2. \A o \in P, c \in Component : <<c>> \o o \in P
  BY OrderlyCons, ConsOfOperation
<1>3. P = Operation
  <2> HIDE DEF P
  <2>1. P \in SUBSET Seq(Component)
    BY DEF P, Operation
  <2>2. QED
    BY <1>1, <1>2, <2>1, SequenceInduction DEF Operation
<1>4. QED
  BY <1>3

\* D is A one further up, but for what it says of 1.
Shifts(n, A, D) ==
  /\ A \subseteq 1..n /\ D \subseteq 1..n + 1
  /\ \A i \in 1..n : i + 1 \in D <=> i \in A

LEMMA ShiftedCount ==
  ASSUME NEW n \in Nat, NEW A, NEW D, Shifts(n, A, D)
  PROVE  /\ Cardinality(A) \in Nat
         /\ 1 \in D => Cardinality(D) = Cardinality(A) + 1
         /\ 1 \notin D => Cardinality(D) = Cardinality(A)
<1> USE DEF Shifts
<1>1. IsFiniteSet(A)
  <2>1. IsFiniteSet(1..n) /\ A \in SUBSET (1..n)
    BY FS_Interval
  <2>2. QED
    BY <2>1, FS_Subset
<1>2. PICK B : B = D \ {1}
  OBVIOUS
<1>3. ExistsBijection(A, B)
  <2> DEFINE f == [i \in A |-> i + 1]
  <2>1. f \in [A -> B]
    BY <1>2
  <2>2. \A i, j \in A : f[i] = f[j] => i = j
    OBVIOUS
  <2>3. \A k \in B : \E i \in A : f[i] = k
    <3>1. ASSUME NEW k \in B PROVE k - 1 \in A /\ (k - 1) + 1 = k
      <4>1. k \in 1..n + 1 /\ k # 1 /\ k \in D
        BY <1>2
      <4>2. k - 1 \in 1..n /\ (k - 1) + 1 = k
        BY <4>1
      <4>3. QED
        BY <4>1, <4>2
    <3>2. QED
      BY <3>1
  <2>4. f \in Injection(A, B) /\ f \in Surjection(A, B)
    <3> HIDE DEF f
    <3>1. f \in Injection(A, B)
      BY <2>1, <2>2 DEF Injection, IsInjective
    <3>2. f \in Surjection(A, B)
      BY <2>1, <2>3 DEF Surjection
    <3>3. QED
      BY <3>1, <3>2
  <2>5. QED
    BY <2>4 DEF ExistsBijection, Bijection
<1>4. IsFiniteSet(B) /\ Cardinality(B) = Cardinality(A) /\ Cardinality(A) \in Nat
  BY <1>1, <1>3, FS_Bijection, FS_CardinalityType
<1>5. 1 \notin D => D = B
  BY <1>2
<1>6. 1 \in D => D = B \cup {1} /\ 1 \notin B
  BY <1>2
<1>7. 1 \notin B => Cardinality(B \cup {1}) = Cardinality(B) + 1
  BY <1>4, FS_AddElement
<1>8. QED
  BY <1>4, <1>5, <1>6, <1>7

\* The components that leave a character left of a cursor at p.
LeftOf(p, o, own) ==
  {i \in 1..Len(o) :
     /\ o[i] # Delete
     /\ \/ BaseLen(SubSeq(o, 1, i - 1)) < p
        \/ own /\ o[i] \in Char /\ BaseLen(SubSeq(o, 1, i - 1)) = p}

Counts(p, o, own) ==
  p <= BaseLen(o) => TransformPosition(p, o, own) = Cardinality(LeftOf(p, o, own))

\* How many characters an operation has walked over before it is at a component.
LEMMA SourceCons ==
  ASSUME NEW o \in Operation, NEW c \in Component, NEW i \in 1..Len(o)
  PROVE  /\ BaseLen(SubSeq(o, 1, i - 1)) \in Nat
         /\ BaseLen(SubSeq(<<c>> \o o, 1, i))
              = BaseLen(SubSeq(o, 1, i - 1)) + IF c \in Char THEN 0 ELSE 1
         /\ (<<c>> \o o)[i + 1] = o[i]
<1>1. PICK r, u : r = <<c>> \o o /\ u = SubSeq(o, 1, i - 1)
  OBVIOUS
<1>2. o \in Seq(Component) /\ Len(o) \in Nat
  BY DEF Operation
<1>3. /\ r \in Seq(Component) /\ Len(r) = Len(o) + 1 /\ r[1] = c
      /\ \A j \in 1..Len(o) : r[j + 1] = o[j]
  BY <1>1, <1>2, ConsOf
<1>4. u \in Seq(Component) /\ Len(u) = i - 1 /\ \A j \in 1..i - 1 : u[j] = o[j]
  <2>1. i - 1 \in 0..Len(o)
    BY <1>2
  <2>2. QED
    BY <1>1, <1>2, <2>1, UpTo
<1>5. SubSeq(r, 1, i) = <<c>> \o u
  <2>1. i \in 0..Len(r)
    BY <1>2, <1>3
  <2>2. /\ SubSeq(r, 1, i) \in Seq(Component) /\ Len(SubSeq(r, 1, i)) = i
        /\ \A j \in 1..i : SubSeq(r, 1, i)[j] = r[j]
    BY <1>3, <2>1, UpTo
  <2>3. PICK v : v = <<c>> \o u
    OBVIOUS
  <2>4. v \in Seq(Component) /\ Len(v) = Len(u) + 1 /\ \A j \in 1..Len(u) : v[j + 1] = u[j]
    BY <1>4, <2>3, ConsOf
  <2>5. v[1] = c
    BY <1>4, <2>3, ConsOf
  <2>6. ASSUME NEW j \in 1..i PROVE SubSeq(r, 1, i)[j] = v[j]
    <3>1. CASE j = 1
      BY <1>3, <2>2, <2>5, <3>1
    <3>2. CASE j # 1
      <4>1. PICK k \in 1..i - 1 : j = k + 1
        <5>1. j - 1 \in 1..i - 1 /\ j = (j - 1) + 1
          BY <3>2
        <5>2. QED
          BY <5>1
      <4>2. k \in 1..Len(o) /\ k \in 1..Len(u)
        BY <1>2, <1>4
      <4>3. r[k + 1] = o[k] /\ v[k + 1] = u[k] /\ u[k] = o[k]
        BY <1>3, <1>4, <2>4, <4>2
      <4>4. QED
        BY <2>2, <4>1, <4>3
    <3>3. QED
      BY <3>1, <3>2
  <2>7. Len(v) = i
    BY <1>4, <2>4
  <2>8. QED
    BY <2>2, <2>3, <2>4, <2>6, <2>7, SeqEqual
<1>6. u \in Operation
  BY <1>4 DEF Operation
<1>7. BaseLen(u) \in Nat /\ BaseLen(<<c>> \o u) = BaseLen(u) + IF c \in Char THEN 0 ELSE 1
  BY <1>6, BaseLenCons
<1>8. QED
  BY <1>1, <1>3, <1>5, <1>7

LEMMA CountsCons ==
  ASSUME NEW own \in BOOLEAN, NEW o \in Operation, \A p \in Nat : Counts(p, o, own),
         NEW c \in Component, NEW p \in Nat
  PROVE  Counts(p, <<c>> \o o, own)
<1> SUFFICES ASSUME p <= BaseLen(<<c>> \o o)
             PROVE  TransformPosition(p, <<c>> \o o, own) = Cardinality(LeftOf(p, <<c>> \o o, own))
  BY DEF Counts
<1>0. BaseLen(o) \in Nat /\ BaseLen(<<c>> \o o) = BaseLen(o) + IF c \in Char THEN 0 ELSE 1
  BY BaseLenCons
<1>1. PICK r, n, D : r = <<c>> \o o /\ n = Len(o) /\ D = LeftOf(p, r, own)
  OBVIOUS
<1>2. n \in Nat /\ Len(r) = n + 1 /\ r[1] = c
  BY <1>1, ConsOf DEF Operation
<1>3. PICK f, g : /\ f = [i \in 1..n |-> BaseLen(SubSeq(o, 1, i - 1))]
                  /\ g = [i \in 1..n + 1 |-> BaseLen(SubSeq(r, 1, i - 1))]
  OBVIOUS
<1>4. D \in SUBSET (1..n + 1)
  BY <1>1, <1>2 DEF LeftOf
<1>5. \A q \in Nat : LeftOf(q, o, own) \in SUBSET (1..n)
  BY <1>1 DEF LeftOf
<1>6. 1 \in D <=> c # Delete /\ (0 < p \/ (own /\ c \in Char /\ 0 = p))
  <2>1. SubSeq(r, 1, 0) = <<>>
    BY SubSeqEmpty
  <2>2. 1 - 1 = 0
    OBVIOUS
  <2>3. BaseLen(SubSeq(r, 1, 1 - 1)) = 0
    BY <2>1, <2>2, EmptyOnes
  <2>4. 1 \in 1..Len(r)
    BY <1>2
  <2>5. QED
    BY <1>1, <1>2, <2>3, <2>4 DEF LeftOf
<1>7. ASSUME NEW i \in 1..n
      PROVE  /\ f[i] \in Nat
             /\ i + 1 \in D <=> /\ o[i] # Delete
                                /\ \/ f[i] + (IF c \in Char THEN 0 ELSE 1) < p
                                   \/ /\ own /\ o[i] \in Char
                                      /\ f[i] + (IF c \in Char THEN 0 ELSE 1) = p
             /\ \A q \in Nat : i \in LeftOf(q, o, own) <=>
                  o[i] # Delete /\ (f[i] < q \/ (own /\ o[i] \in Char /\ f[i] = q))
  <2>1. /\ BaseLen(SubSeq(o, 1, i - 1)) \in Nat
        /\ BaseLen(SubSeq(r, 1, i)) = BaseLen(SubSeq(o, 1, i - 1)) + IF c \in Char THEN 0 ELSE 1
        /\ r[i + 1] = o[i]
    BY <1>1, SourceCons
  <2>2. i + 1 \in 1..Len(r) /\ (i + 1) - 1 = i /\ i \in 1..Len(o)
    BY <1>1, <1>2
  <2>3. f[i] = BaseLen(SubSeq(o, 1, i - 1))
    BY <1>3
  <2>4. i + 1 \in D <=> /\ o[i] # Delete
                        /\ \/ BaseLen(SubSeq(r, 1, i)) < p
                           \/ own /\ o[i] \in Char /\ BaseLen(SubSeq(r, 1, i)) = p
    BY <1>1, <2>1, <2>2 DEF LeftOf
  <2>5. \A q \in Nat : i \in LeftOf(q, o, own) <=>
          o[i] # Delete /\ (f[i] < q \/ (own /\ o[i] \in Char /\ f[i] = q))
    BY <2>2, <2>3 DEF LeftOf
  <2>6. QED
    BY <2>1, <2>3, <2>4, <2>5
<1>8. ASSUME NEW q \in Nat, q <= BaseLen(o), \A i \in 1..n : i + 1 \in D <=> i \in LeftOf(q, o, own)
      PROVE  /\ 1 \in D => Cardinality(D) = TransformPosition(q, o, own) + 1
             /\ 1 \notin D => Cardinality(D) = TransformPosition(q, o, own)
  <2>1. PICK A : A = LeftOf(q, o, own)
    OBVIOUS
  <2>2. Shifts(n, A, D)
    BY <1>4, <1>5, <1>8, <2>1 DEF Shifts
  <2>3. /\ 1 \in D => Cardinality(D) = Cardinality(A) + 1
        /\ 1 \notin D => Cardinality(D) = Cardinality(A)
    BY <1>2, <2>2, ShiftedCount
  <2>4. TransformPosition(q, o, own) = Cardinality(A)
    BY <1>8, <2>1 DEF Counts
  <2>5. QED
    BY <2>3, <2>4
<1>9. CASE c \in Char
  <2>1. \A i \in 1..n : i + 1 \in D <=> i \in LeftOf(p, o, own)
    BY <1>7, <1>9
  <2>2. 1 \in D <=> own \/ p > 0
    BY <1>6, <1>9, ComponentKinds
  <2>3. /\ own \/ p > 0 => TransformPosition(p, r, own) = TransformPosition(p, o, own) + 1
        /\ ~(own \/ p > 0) => TransformPosition(p, r, own) = TransformPosition(p, o, own)
    BY <1>1, <1>9, PositionCons
  <2>4. TransformPosition(p, r, own) = Cardinality(D)
    BY <1>0, <1>8, <1>9, <2>1, <2>2, <2>3
  <2>5. QED
    BY <1>1, <2>4
<1>10. CASE c \in {Retain, Delete} /\ p = 0
  <2>1. \A i \in 1..n : i + 1 \notin D
    BY <1>7, <1>10, ComponentKinds
  <2>2. 1 \notin D
    BY <1>6, <1>10, ComponentKinds
  <2>3. D = {}
    <3>1. \A k \in 1..n + 1 : k = 1 \/ (k - 1 \in 1..n /\ k = (k - 1) + 1)
      BY <1>2
    <3>2. QED
      BY <1>4, <2>1, <2>2, <3>1
  <2>4. TransformPosition(p, r, own) = 0
    BY <1>1, <1>10, PositionCons
  <2>5. QED
    BY <1>1, <2>3, <2>4, FS_EmptySet
<1>11. CASE c \in {Retain, Delete} /\ p > 0
  <2>1. PICK q \in Nat : q = p - 1 /\ p = q + 1
    BY <1>11
  <2>2. c \notin Char
    BY <1>11, ComponentKinds
  <2>3. \A i \in 1..n : i + 1 \in D <=> i \in LeftOf(q, o, own)
    BY <1>7, <2>1, <2>2
  <2>4. 1 \in D <=> c = Retain
    BY <1>6, <1>11, <2>1, ComponentKinds
  <2>5. /\ TransformPosition(p, <<Retain>> \o o, own) = TransformPosition(q, o, own) + 1
        /\ TransformPosition(p, <<Delete>> \o o, own) = TransformPosition(q, o, own)
    BY <1>11, <2>1, PositionCons
  <2>6. q <= BaseLen(o)
    BY <1>0, <2>1, <2>2
  <2>7. TransformPosition(p, r, own) = Cardinality(D)
    BY <1>1, <1>8, <1>11, <2>3, <2>4, <2>5, <2>6, ComponentKinds
  <2>8. QED
    BY <1>1, <2>7
<1>12. p = 0 \/ p > 0
  OBVIOUS
<1>13. QED
  BY <1>9, <1>10, <1>11, <1>12, ComponentKinds

LEMMA PositionCounts ==
  \A o \in Operation, own \in BOOLEAN, p \in Nat : Counts(p, o, own)
<1> DEFINE P == {o \in Operation : \A own \in BOOLEAN, p \in Nat : Counts(p, o, own)}
<1>1. <<>> \in P
  <2>1. ASSUME NEW own \in BOOLEAN, NEW p \in Nat PROVE Counts(p, <<>>, own)
    <3>1. p <= BaseLen(<<>>) => p = 0
      BY EmptyOnes
    <3>2. LeftOf(p, <<>>, own) = {}
      BY EmptyOnes DEF LeftOf
    <3>3. TransformPosition(p, <<>>, own) = p
      BY EmptyOnes, PositionCons
    <3>4. QED
      BY <3>1, <3>2, <3>3, FS_EmptySet DEF Counts
  <2>2. QED
    BY <2>1, EmptyOnes
<1>2. \A o \in P, c \in Component : <<c>> \o o \in P
  BY CountsCons, ConsOfOperation
<1>3. P = Operation
  <2> HIDE DEF P
  <2>1. P \in SUBSET Seq(Component)
    BY DEF P, Operation
  <2>2. QED
    BY <1>1, <1>2, <2>1, SequenceInduction DEF Operation
<1>4. QED
  BY <1>3

----------------------------------------------------------------------------
(* The two sites of TextOTCheck. *)

\* e is an edit of the text t.
Fits(e, t) == e \in Operation /\ t \in Text /\ Applicable(e, t) /\ Apply(e, t) \in Text

TextInv ==
  /\ Fits(firstEdit, doc)
  /\ Fits(secondEdit, Apply(firstEdit, doc))
  /\ Fits(otherEdit, doc)

LEMMA TextsAreTexts == \A S, n : BoundedSeq(S, n) \subseteq Seq(S)
<1> SUFFICES ASSUME NEW S, NEW n, NEW s \in BoundedSeq(S, n) PROVE s \in Seq(S)
  OBVIOUS
<1>1. PICK k \in Nat : s \in [1..k -> S]
  BY DEF BoundedSeq, SeqOf
<1>2. QED
  BY <1>1, SeqDef

LEMMA DiffFits ==
  ASSUME NEW old \in Text, NEW new \in Text
  PROVE  /\ Fits(ComputeDiff(old, new), old)
         /\ Apply(ComputeDiff(old, new), old) = new
BY DiffExact DEF RewritesTo, Fits

LEMMA SyncedFits ==
  ASSUME NEW t \in Text, Synced(t)
  PROVE  TextInv'
<1>1. Fits(Untouched(t), t) /\ Apply(Untouched(t), t) = t
  BY DiffFits DEF Untouched
<1>2. doc' = t /\ firstEdit' = Untouched(t) /\ secondEdit' = Untouched(t) /\ otherEdit' = Untouched(t)
  BY DEF Synced
<1>3. QED
  BY <1>1, <1>2 DEF TextInv

\* What the first site sends fits the text it started from, and the edits of both
\* sites can be exchanged.
LEMMA SentFits ==
  ASSUME TextInv
  PROVE  /\ Fits(Sent, doc) /\ Normal(Sent)
         /\ Apply(Sent, doc) = Apply(secondEdit, Apply(firstEdit, doc))
         /\ Composable(firstEdit, secondEdit)
<1>1. PICK t : t = Apply(firstEdit, doc)
  OBVIOUS
<1>2. /\ firstEdit \in Operation /\ secondEdit \in Operation /\ doc \in Text /\ t \in Text
      /\ Applicable(firstEdit, doc) /\ Applicable(secondEdit, t) /\ Apply(secondEdit, t) \in Text
  BY <1>1 DEF TextInv, Fits
<1>3. Len(t) = TargetLen(firstEdit)
  BY <1>1, <1>2, ApplyType
<1>4. Composable(firstEdit, secondEdit)
  BY <1>2, <1>3 DEF Composable, Applicable
<1>5. ActsAs(firstEdit, secondEdit, Sent)
  BY <1>2, <1>4, Composition DEF Sequential, Sent
<1>6. /\ Sent \in Operation /\ Normal(Sent) /\ BaseLen(Sent) = BaseLen(firstEdit)
      /\ Apply(Sent, doc) = Apply(secondEdit, t)
  BY <1>1, <1>2, <1>5 DEF ActsAs
<1>7. Applicable(Sent, doc)
  BY <1>2, <1>6 DEF Applicable
<1>8. QED
  BY <1>1, <1>2, <1>4, <1>6, <1>7 DEF Fits

LEMMA ExchangeFits ==
  ASSUME NEW x, NEW y, NEW t, Fits(x, t), Fits(y, t)
  PROVE  /\ Transformable(x, y)
         /\ Exchanges(x, y, Transform(x, y))
         /\ Fits(Transform(x, y).aPrime, Apply(y, t))
         /\ Fits(Transform(x, y).bPrime, Apply(x, t))
         /\ Apply(Transform(x, y).bPrime, Apply(x, t)) = Apply(Transform(x, y).aPrime, Apply(y, t))
<1>1. PICK p : p = Transform(x, y)
  OBVIOUS
<1>2. /\ x \in Operation /\ y \in Operation /\ t \in Text
      /\ Applicable(x, t) /\ Applicable(y, t) /\ Apply(x, t) \in Text /\ Apply(y, t) \in Text
  BY DEF Fits
<1>3. Transformable(x, y)
  BY <1>2 DEF Applicable, Transformable
<1>4. Exchanges(x, y, p)
  BY <1>1, <1>2, <1>3, Transformation DEF Convergent
<1>5. /\ p.aPrime \in Operation /\ p.bPrime \in Operation
      /\ BaseLen(p.aPrime) = TargetLen(y) /\ BaseLen(p.bPrime) = TargetLen(x)
      /\ Apply(p.bPrime, Apply(x, t)) = Apply(p.aPrime, Apply(y, t))
  BY <1>2, <1>4 DEF Exchanges
<1>6. Len(Apply(x, t)) = TargetLen(x) /\ Len(Apply(y, t)) = TargetLen(y)
  BY <1>2, ApplyType
<1>7. Applicable(p.aPrime, Apply(y, t)) /\ Applicable(p.bPrime, Apply(x, t))
  BY <1>5, <1>6 DEF Applicable
<1>8. Apply(p.aPrime, Apply(y, t)) \in Text /\ Apply(p.bPrime, Apply(x, t)) \in Text
  BY <1>2, <1>5, <1>7, ApplyType
<1>9. QED
  BY <1>1, <1>2, <1>3, <1>4, <1>5, <1>7, <1>8 DEF Fits

\* What the two sites have made since they were in sync are edits that fit: the
\* first site's of its text, one after the other, the second's of the text both
\* started from (useTextSync.ts, notebookEngine.ts).
THEOREM TextInvariance == TextSpec => []TextInv
<1>1. TextInit => TextInv
  <2> SUFFICES ASSUME TextInit PROVE TextInv
    OBVIOUS
  <2>1. doc \in Text
    BY TextsAreTexts DEF TextInit, Texts, Text
  <2>2. Fits(Untouched(doc), doc) /\ Apply(Untouched(doc), doc) = doc
    BY <2>1, DiffFits DEF Untouched
  <2>3. QED
    BY <2>2 DEF TextInit, TextInv
<1>2. TextInv /\ [TextNext]_textVars => TextInv'
  <2> SUFFICES ASSUME TextInv, [TextNext]_textVars PROVE TextInv'
    OBVIOUS
  <2>0. doc \in Text /\ Apply(firstEdit, doc) \in Text
    BY DEF TextInv, Fits
  <2>1. CASE TypeFirst
    <3>1. PICK new \in Texts : firstEdit' = ComputeDiff(doc, new)
      BY <2>1 DEF TypeFirst, Diffs
    <3>2. new \in Text
      BY TextsAreTexts DEF Texts, Text
    <3>3. Fits(firstEdit', doc) /\ Apply(firstEdit', doc) = new
      BY <2>0, <3>1, <3>2, DiffFits
    <3>4. Fits(Untouched(new), new)
      BY <3>2, DiffFits DEF Untouched
    <3>5. doc' = doc /\ otherEdit' = otherEdit /\ secondEdit' = Untouched(new)
      BY <2>1, <3>3 DEF TypeFirst
    <3>6. QED
      BY <3>3, <3>4, <3>5 DEF TextInv
  <2>2. CASE TypeAgain
    <3>1. PICK new \in Texts : secondEdit' = ComputeDiff(Apply(firstEdit, doc), new)
      BY <2>2 DEF TypeAgain, Diffs
    <3>2. new \in Text
      BY TextsAreTexts DEF Texts, Text
    <3>3. Fits(secondEdit', Apply(firstEdit, doc))
      BY <2>0, <3>1, <3>2, DiffFits
    <3>4. QED
      BY <2>2, <3>3 DEF TypeAgain, TextInv
  <2>3. CASE TypeOther
    <3>1. PICK new \in Texts : otherEdit' = ComputeDiff(doc, new)
      BY <2>3 DEF TypeOther, Diffs
    <3>2. new \in Text
      BY TextsAreTexts DEF Texts, Text
    <3>3. Fits(otherEdit', doc)
      BY <2>0, <3>1, <3>2, DiffFits
    <3>4. QED
      BY <2>3, <3>3 DEF TypeOther, TextInv
  <2>4. CASE Exchange
    <3>1. Fits(Sent, doc) /\ Fits(otherEdit, doc)
      BY SentFits DEF TextInv
    <3>2. PICK t : t = Apply(Exchanged.bPrime, Apply(Sent, doc))
      OBVIOUS
    <3>3. t \in Text
      BY <3>1, <3>2, ExchangeFits DEF Exchanged, Fits
    <3>4. Synced(t)
      BY <2>4, <3>2 DEF Exchange
    <3>5. QED
      BY <3>3, <3>4, SyncedFits
  <2>5. CASE UNCHANGED textVars
    BY <2>5 DEF textVars, TextInv
  <2>6. QED
    BY <2>1, <2>2, <2>3, <2>4, <2>5 DEF TextNext
<1>3. QED
  BY <1>1, <1>2, PTL DEF TextSpec

\* DiffIsExact for every text: what the client sends for a change of its text makes
\* the new one of the old one, wherever the two agree (textDiff.ts:3-44).
THEOREM DiffIsExactAlways == TextSpec => []DiffIsExact
<1>1. TextInv => DiffIsExact
  <2> SUFFICES ASSUME TextInv, NEW new \in Texts
               PROVE  /\ Applicable(ComputeDiff(doc, new), doc)
                      /\ Apply(ComputeDiff(doc, new), doc) = new
                      /\ ComputeDiff(doc, new) = FoldLeft(Push, <<>>, ComputeDiff(doc, new))
    BY DEF DiffIsExact
  <2>1. doc \in Text /\ new \in Text
    BY TextsAreTexts DEF TextInv, Fits, Texts, Text
  <2>2. RewritesTo(ComputeDiff(doc, new), doc, new)
    BY <2>1, DiffExact
  <2>3. PICK d : d = ComputeDiff(doc, new)
    OBVIOUS
  <2>4. d \in Operation /\ Applicable(d, doc) /\ Apply(d, doc) = new /\ Normal(d)
    BY <2>2, <2>3 DEF RewritesTo
  <2>5. d = FoldLeft(Push, <<>>, d)
    BY <2>4, NormalIsPushed
  <2>6. QED
    BY <2>3, <2>4, <2>5
<1>2. QED
  BY TextInvariance, <1>1, PTL

\* ComposeIsSequential for every two edits: the one operation a client sends for
\* what it has buffered does what the edits did one by one (text.rs:102-104,
\* resolver.rs, notebookEngine.ts).
THEOREM ComposeIsSequentialAlways == TextSpec => []ComposeIsSequential
<1>1. TextInv => ComposeIsSequential
  <2> SUFFICES ASSUME TextInv PROVE ComposeIsSequential
    OBVIOUS
  <2>1. /\ Fits(Sent, doc) /\ Normal(Sent)
        /\ Apply(Sent, doc) = Apply(secondEdit, Apply(firstEdit, doc))
        /\ Composable(firstEdit, secondEdit)
    BY SentFits
  <2>2. Sent = FoldLeft(Push, <<>>, Sent)
    BY <2>1, NormalIsPushed DEF Fits
  <2>3. QED
    BY <2>1, <2>2 DEF ComposeIsSequential, Fits
<1>2. QED
  BY TextInvariance, <1>1, PTL

\* TransformConverges for every two edits of a text: the site that made the one and
\* has got the other shows what the site shows that had it the other way round
\* (text.rs:93-99).
THEOREM TransformConvergesAlways == TextSpec => []TransformConverges
<1>1. TextInv => TransformConverges
  <2> SUFFICES ASSUME TextInv PROVE TransformConverges
    OBVIOUS
  <2>1. Fits(Sent, doc) /\ Fits(otherEdit, doc)
    BY SentFits DEF TextInv
  <2>2. /\ Exchanges(Sent, otherEdit, Exchanged)
        /\ Fits(Exchanged.aPrime, Apply(otherEdit, doc))
        /\ Fits(Exchanged.bPrime, Apply(Sent, doc))
        /\ Apply(Exchanged.bPrime, Apply(Sent, doc)) = Apply(Exchanged.aPrime, Apply(otherEdit, doc))
    BY <2>1, ExchangeFits DEF Exchanged
  <2>3. Exchanged.aPrime \in Operation /\ Normal(Exchanged.aPrime)
    BY <2>2 DEF Exchanges
  <2>4. Exchanged.aPrime = FoldLeft(Push, <<>>, Exchanged.aPrime)
    BY <2>3, NormalIsPushed
  <2>5. QED
    BY <2>2, <2>4 DEF TransformConverges, Fits
<1>2. QED
  BY TextInvariance, <1>1, PTL

\* CursorStaysPut for every text, every edit and every position: a cursor stays
\* between the characters it stood between, as far as they are still there
\* (text.rs:112-143).
THEOREM CursorStaysPutAlways == TextSpec => []CursorStaysPut
<1>1. TextInv => CursorStaysPut
  <2> SUFFICES ASSUME TextInv, NEW p \in 0..Len(doc), NEW own \in BOOLEAN
               PROVE  TransformPosition(p, Sent, own) = Cardinality(LeftOf(p, Sent, own))
    BY DEF CursorStaysPut, LeftOf
  <2>1. Sent \in Operation /\ Applicable(Sent, doc) /\ doc \in Text
    BY SentFits DEF Fits
  <2>2. Counts(p, Sent, own)
    BY PositionCounts, <2>1
  <2>3. p <= BaseLen(Sent)
    BY <2>1 DEF Applicable
  <2>4. QED
    BY <2>2, <2>3 DEF Counts
<1>2. QED
  BY TextInvariance, <1>1, PTL

----------------------------------------------------------------------------
(* Operations and positions over the edits of a cell (resolver.rs:236-289). *)

\* What apply_text_operation makes of what it has so far when it meets an edit.
RebaseStep(r, edit) ==
  IF r # <<>> /\ Transformable(edit.operation, r[1])
  THEN <<Transform(edit.operation, r[1]).bPrime>>
  ELSE <<>>

PositionStep(p, edit, origin) == TransformPosition(p, edit.operation, edit.origin = origin)

\* An edit in a history.
IsEdit(edit) == edit.operation \in Operation

\* None or one.
Perhaps == {<<>>} \cup {<<o>> : o \in Operation}

LEMMA RebaseStepType ==
  ASSUME NEW r \in Perhaps, NEW edit, IsEdit(edit)
  PROVE  RebaseStep(r, edit) \in Perhaps
<1>1. CASE r # <<>> /\ Transformable(edit.operation, r[1])
  <2>1. PICK o \in Operation : r = <<o>>
    BY <1>1 DEF Perhaps
  <2>2. PICK e : e = edit.operation
    OBVIOUS
  <2>3. e \in Operation /\ Transformable(e, o) /\ r[1] = o
    BY <1>1, <2>1, <2>2 DEF IsEdit
  <2>4. Exchanges(e, o, Transform(e, o))
    BY <2>3, Transformation DEF Convergent
  <2>5. Transform(e, o).bPrime \in Operation
    BY <2>4 DEF Exchanges
  <2>6. RebaseStep(r, edit) = <<Transform(e, o).bPrime>>
    BY <1>1, <2>2, <2>3 DEF RebaseStep
  <2>7. QED
    BY <2>5, <2>6 DEF Perhaps
<1>2. CASE ~(r # <<>> /\ Transformable(edit.operation, r[1]))
  BY <1>2 DEF RebaseStep, Perhaps
<1>3. QED
  BY <1>1, <1>2

LEMMA PositionStepType ==
  ASSUME NEW p \in Nat, NEW edit, IsEdit(edit), NEW origin
  PROVE  PositionStep(p, edit, origin) \in Nat
<1>1. PICK o, own : o = edit.operation /\ own = (edit.origin = origin)
  OBVIOUS
<1>2. o \in Operation /\ own \in BOOLEAN
  BY <1>1 DEF IsEdit
<1>3. Orderly(o, own)
  BY <1>2, PositionsOrderly
<1>4. QED
  BY <1>1, <1>3 DEF Orderly, PositionStep

\* An operation transformed over the edits of past, one by one.
Transformed(past, operation, h) ==
  /\ h \in [0..Len(past) -> Perhaps]
  /\ h[0] = <<operation>> /\ h[Len(past)] = RebaseOver(past, operation)
  /\ \A k \in 0..Len(past) - 1 : h[k + 1] = RebaseStep(h[k], past[k + 1])

LEMMA RebaseRun ==
  ASSUME NEW past, IsSequence(past), \A i \in 1..Len(past) : IsEdit(past[i]),
         NEW operation \in Operation
  PROVE  \E h : Transformed(past, operation, h)
<1>1. PICK n : n = Len(past)
  OBVIOUS
<1>2. n \in Nat /\ DOMAIN past = 1..n /\ \A i \in 1..n : IsEdit(past[i])
  BY <1>1 DEF IsSequence
<1>0. PICK base \in Perhaps : base = <<operation>>
  BY DEF Perhaps
<1>3. PICK G : G = [w \in Perhaps \X (1..n) |-> RebaseStep(w[1], past[w[2]])]
  OBVIOUS
<1> DEFINE rec(f) == f = [r \in SUBSET (1..n) |->
                            IF r = {} THEN base
                            ELSE RebaseStep(f[r \ {Max(r)}], past[Max(r)])]
           iter == CHOOSE f : rec(f)
<1>4. Folding(n, Perhaps, base, G)
  BY <1>2, <1>3, RebaseStepType, <1>0 DEF Folding
<1>5. \A x \in Perhaps, i \in 1..n : G[<<x, i>>] = RebaseStep(x, past[i])
  BY <1>3
<1>6. PICK g : FoldTable(n, Perhaps, base, G, g)
  BY <1>4, FoldExists
<1>7. /\ g \in [SUBSET (1..n) -> Perhaps]
      /\ \A r \in SUBSET (1..n) :
           g[r] = IF r = {} THEN base ELSE G[<<g[r \ {Max(r)}], Max(r)>>]
  BY <1>6 DEF FoldTable
<1>8. rec(g)
  <2>1. ASSUME NEW r \in SUBSET (1..n)
        PROVE  g[r] = IF r = {} THEN base ELSE RebaseStep(g[r \ {Max(r)}], past[Max(r)])
    <3>1. CASE r = {}
      BY <1>7, <3>1
    <3>2. CASE r # {}
      <4>1. Max(r) \in 1..n
        BY <1>2, <3>2, LastPosition
      <4>2. g[r \ {Max(r)}] \in Perhaps
        BY <1>7
      <4>3. G[<<g[r \ {Max(r)}], Max(r)>>] = RebaseStep(g[r \ {Max(r)}], past[Max(r)])
        BY <1>5, <4>1, <4>2
      <4>4. QED
        BY <1>7, <3>2, <4>3
    <3>3. QED
      BY <3>1, <3>2
  <2>2. g = [r \in SUBSET (1..n) |-> g[r]]
    BY <1>7
  <2>3. QED
    BY <2>1, <2>2
<1>9. rec(iter)
  BY <1>8
<1>10. RebaseOver(past, operation) = iter[1..n]
  BY <1>0, <1>2 DEF RebaseOver, RebaseStep, FoldLeft, MapThenFoldSet
<1>11. PICK it : it = iter
  OBVIOUS
<1>12. \A r \in SUBSET (1..n) :
         it[r] = IF r = {} THEN base ELSE RebaseStep(it[r \ {Max(r)}], past[Max(r)])
  <2>1. it = [r \in SUBSET (1..n) |->
                IF r = {} THEN base ELSE RebaseStep(it[r \ {Max(r)}], past[Max(r)])]
    BY <1>9, <1>11
  <2>2. QED
    BY <2>1
<1>13. it[{}] = base
  BY <1>12
<1>14. ASSUME NEW r \in SUBSET (1..n), r # {}, it[r \ {Max(r)}] \in Perhaps
       PROVE  it[r] = G[<<it[r \ {Max(r)}], Max(r)>>]
  <2>1. Max(r) \in 1..n
    BY <1>2, <1>14, LastPosition
  <2>2. G[<<it[r \ {Max(r)}], Max(r)>>] = RebaseStep(it[r \ {Max(r)}], past[Max(r)])
    BY <1>5, <1>14, <2>1
  <2>3. it[r] = RebaseStep(it[r \ {Max(r)}], past[Max(r)])
    BY <1>12, <1>14
  <2>4. QED
    BY <2>2, <2>3
<1>15. PICK h \in [0..n -> Perhaps] :
         /\ h[0] = base /\ h[n] = it[1..n]
         /\ \A k \in 0..n - 1 : h[k + 1] = G[<<h[k], k + 1>>]
  <2>1. \A r \in SUBSET (1..n) : r # {} /\ it[r \ {Max(r)}] \in Perhaps
           => it[r] = G[<<it[r \ {Max(r)}], Max(r)>>]
    BY <1>14
  <2>2. Folded(n, Perhaps, base, G, it)
    BY <1>13, <2>1 DEF Folded
  <2>3. \E h \in [0..n -> Perhaps] :
           /\ h[0] = base /\ h[n] = it[1..n]
           /\ \A k \in 0..n - 1 : h[k + 1] = G[<<h[k], k + 1>>]
    <3>1. PICK S : S = Perhaps
      OBVIOUS
    <3>2. Folding(n, S, base, G) /\ Folded(n, S, base, G, it)
      BY <1>4, <2>2, <3>1
    <3>3. \E h \in [0..n -> S] :
             /\ h[0] = base /\ h[n] = it[1..n]
             /\ \A k \in 0..n - 1 : h[k + 1] = G[<<h[k], k + 1>>]
      BY <3>2, FoldRun
    <3>4. QED
      BY <3>1, <3>3
  <2>4. QED
    BY <2>3
<1>16. \A k \in 0..n - 1 : h[k + 1] = RebaseStep(h[k], past[k + 1])
  <2>1. ASSUME NEW k \in 0..n - 1 PROVE h[k] \in Perhaps /\ k + 1 \in 1..n
    BY <1>2, <1>15
  <2>2. QED
    BY <1>5, <1>15, <2>1
<1>17. h[n] = RebaseOver(past, operation)
  BY <1>10, <1>11, <1>15
<1>18. Transformed(past, operation, h)
  BY <1>0, <1>1, <1>15, <1>16, <1>17 DEF Transformed
<1>19. QED
  BY <1>18

\* A position moved over the edits of past, one by one.
Moved(past, position, origin, h) ==
  /\ h \in [0..Len(past) -> Nat]
  /\ h[0] = position /\ h[Len(past)] = PositionOver(past, position, origin)
  /\ \A k \in 0..Len(past) - 1 : h[k + 1] = PositionStep(h[k], past[k + 1], origin)

LEMMA PositionRun ==
  ASSUME NEW past, IsSequence(past), \A i \in 1..Len(past) : IsEdit(past[i]),
         NEW position \in Nat, NEW origin
  PROVE  \E h : Moved(past, position, origin, h)
<1>1. PICK n : n = Len(past)
  OBVIOUS
<1>2. n \in Nat /\ DOMAIN past = 1..n /\ \A i \in 1..n : IsEdit(past[i])
  BY <1>1 DEF IsSequence
<1>3. PICK G : G = [w \in Nat \X (1..n) |-> PositionStep(w[1], past[w[2]], origin)]
  OBVIOUS
<1> DEFINE rec(f) == f = [r \in SUBSET (1..n) |->
                            IF r = {} THEN position
                            ELSE PositionStep(f[r \ {Max(r)}], past[Max(r)], origin)]
           iter == CHOOSE f : rec(f)
<1>4. Folding(n, Nat, position, G)
  BY <1>2, <1>3, PositionStepType DEF Folding
<1>5. \A x \in Nat, i \in 1..n : G[<<x, i>>] = PositionStep(x, past[i], origin)
  BY <1>3
<1>6. PICK g : FoldTable(n, Nat, position, G, g)
  BY <1>4, FoldExists
<1>7. /\ g \in [SUBSET (1..n) -> Nat]
      /\ \A r \in SUBSET (1..n) :
           g[r] = IF r = {} THEN position ELSE G[<<g[r \ {Max(r)}], Max(r)>>]
  BY <1>6 DEF FoldTable
<1>8. rec(g)
  <2>1. ASSUME NEW r \in SUBSET (1..n)
        PROVE  g[r] = IF r = {} THEN position ELSE PositionStep(g[r \ {Max(r)}], past[Max(r)], origin)
    <3>1. CASE r = {}
      BY <1>7, <3>1
    <3>2. CASE r # {}
      <4>1. Max(r) \in 1..n
        BY <1>2, <3>2, LastPosition
      <4>2. g[r \ {Max(r)}] \in Nat
        BY <1>7
      <4>3. G[<<g[r \ {Max(r)}], Max(r)>>] = PositionStep(g[r \ {Max(r)}], past[Max(r)], origin)
        BY <1>5, <4>1, <4>2
      <4>4. QED
        BY <1>7, <3>2, <4>3
    <3>3. QED
      BY <3>1, <3>2
  <2>2. g = [r \in SUBSET (1..n) |-> g[r]]
    BY <1>7
  <2>3. QED
    BY <2>1, <2>2
<1>9. rec(iter)
  BY <1>8
<1>10. PositionOver(past, position, origin) = iter[1..n]
  BY <1>2 DEF PositionOver, PositionStep, FoldLeft, MapThenFoldSet
<1>11. PICK it : it = iter
  OBVIOUS
<1>12. \A r \in SUBSET (1..n) :
         it[r] = IF r = {} THEN position ELSE PositionStep(it[r \ {Max(r)}], past[Max(r)], origin)
  <2>1. it = [r \in SUBSET (1..n) |->
                IF r = {} THEN position ELSE PositionStep(it[r \ {Max(r)}], past[Max(r)], origin)]
    BY <1>9, <1>11
  <2>2. QED
    BY <2>1
<1>13. it[{}] = position
  BY <1>12
<1>14. ASSUME NEW r \in SUBSET (1..n), r # {}, it[r \ {Max(r)}] \in Nat
       PROVE  it[r] = G[<<it[r \ {Max(r)}], Max(r)>>]
  <2>1. Max(r) \in 1..n
    BY <1>2, <1>14, LastPosition
  <2>2. G[<<it[r \ {Max(r)}], Max(r)>>] = PositionStep(it[r \ {Max(r)}], past[Max(r)], origin)
    BY <1>5, <1>14, <2>1
  <2>3. it[r] = PositionStep(it[r \ {Max(r)}], past[Max(r)], origin)
    BY <1>12, <1>14
  <2>4. QED
    BY <2>2, <2>3
<1>15. PICK h \in [0..n -> Nat] :
         /\ h[0] = position /\ h[n] = it[1..n]
         /\ \A k \in 0..n - 1 : h[k + 1] = G[<<h[k], k + 1>>]
  <2>1. \A r \in SUBSET (1..n) : r # {} /\ it[r \ {Max(r)}] \in Nat
           => it[r] = G[<<it[r \ {Max(r)}], Max(r)>>]
    BY <1>14
  <2>2. Folded(n, Nat, position, G, it)
    BY <1>13, <2>1 DEF Folded
  <2>3. QED
    BY <1>4, <2>2, FoldRun
<1>16. \A k \in 0..n - 1 : h[k + 1] = PositionStep(h[k], past[k + 1], origin)
  <2>1. ASSUME NEW k \in 0..n - 1 PROVE h[k] \in Nat /\ k + 1 \in 1..n
    BY <1>2, <1>15
  <2>2. QED
    BY <1>5, <1>15, <2>1
<1>17. h[n] = PositionOver(past, position, origin)
  BY <1>10, <1>11, <1>15
<1>18. Moved(past, position, origin, h)
  BY <1>1, <1>15, <1>16, <1>17 DEF Moved
<1>19. QED
  BY <1>18

\* The edits of past, made one after the other, lead through the texts t[0], t[1], ...
Trail(past, t) ==
  /\ IsSequence(past)
  /\ t[0] \in Text
  /\ \A k \in 1..Len(past) :
       /\ Fits(past[k].operation, t[k - 1])
       /\ t[k] = Apply(past[k].operation, t[k - 1])

LEMMA TrailTexts ==
  ASSUME NEW past, NEW t, Trail(past, t)
  PROVE  /\ Len(past) \in Nat
         /\ \A i \in 1..Len(past) : IsEdit(past[i])
         /\ \A k \in 0..Len(past) : t[k] \in Text
<1>1. Len(past) \in Nat
  BY DEF Trail, IsSequence
<1>2. \A i \in 1..Len(past) : IsEdit(past[i])
  BY DEF Trail, IsEdit, Fits
<1>3. ASSUME NEW k \in 0..Len(past) PROVE t[k] \in Text
  <2>1. CASE k = 0
    BY <2>1 DEF Trail
  <2>2. CASE k \in 1..Len(past)
    BY <2>2 DEF Trail, Fits
  <2>3. QED
    BY <1>1, <2>1, <2>2
<1>4. QED
  BY <1>1, <1>2, <1>3

\* An edit of the text a trail starts at, transformed over the trail, is an edit of
\* the text it ends at: no transformation on the way fails.
LEMMA RebaseFits ==
  ASSUME NEW past, NEW t, Trail(past, t), NEW operation, Fits(operation, t[0])
  PROVE  \E o \in Operation : RebaseOver(past, operation) = <<o>> /\ Fits(o, t[Len(past)])
<1>1. PICK n : n = Len(past)
  OBVIOUS
<1>2. n \in Nat /\ IsSequence(past) /\ \A i \in 1..Len(past) : IsEdit(past[i])
  BY <1>1, TrailTexts DEF Trail
<1>3. operation \in Operation
  BY DEF Fits
<1>4. PICK h : Transformed(past, operation, h)
  BY <1>2, <1>3, RebaseRun
<1> DEFINE P == {k \in Nat : k <= n => \E o \in Operation : h[k] = <<o>> /\ Fits(o, t[k])}
<1>5. 0 \in P
  BY <1>3, <1>4 DEF Transformed
<1>6. ASSUME NEW k \in P PROVE k + 1 \in P
  <2>1. ASSUME k + 1 <= n PROVE \E o \in Operation : h[k + 1] = <<o>> /\ Fits(o, t[k + 1])
    <3>0. k \in Nat /\ (k <= n => \E o \in Operation : h[k] = <<o>> /\ Fits(o, t[k]))
      BY <1>6
    <3>1. k <= n /\ k \in 0..n - 1 /\ k + 1 \in 1..n /\ k + 1 - 1 = k
      BY <1>2, <2>1, <3>0
    <3>2. PICK o \in Operation : h[k] = <<o>> /\ Fits(o, t[k])
      BY <3>0, <3>1
    <3>3. PICK e : e = past[k + 1].operation
      OBVIOUS
    <3>4. Fits(e, t[k]) /\ t[k + 1] = Apply(e, t[k])
      BY <1>1, <3>1, <3>3 DEF Trail
    <3>5. Transformable(e, o) /\ Fits(Transform(e, o).bPrime, Apply(e, t[k]))
      BY <3>2, <3>4, ExchangeFits
    <3>6. h[k + 1] = RebaseStep(h[k], past[k + 1])
      BY <1>1, <1>4, <3>1 DEF Transformed
    <3>7. RebaseStep(<<o>>, past[k + 1]) = <<Transform(e, o).bPrime>>
      BY <3>3, <3>5 DEF RebaseStep
    <3>8. PICK p : p = Transform(e, o).bPrime
      OBVIOUS
    <3>9. p \in Operation /\ h[k + 1] = <<p>> /\ Fits(p, t[k + 1])
      BY <3>2, <3>4, <3>5, <3>6, <3>7, <3>8 DEF Fits
    <3>10. QED
      BY <3>9
  <2>2. QED
    BY <2>1
<1>7. P = Nat
  <2> HIDE DEF P
  <2>1. P \in SUBSET Nat
    BY DEF P
  <2>2. QED
    BY <1>5, <1>6, <2>1, Induction
<1>8. \E o \in Operation : h[n] = <<o>> /\ Fits(o, t[n])
  BY <1>2, <1>7
<1>9. QED
  BY <1>1, <1>4, <1>8 DEF Transformed

\* What is transformed over edits is an operation or nothing, whether they fit or not.
LEMMA RebaseType ==
  ASSUME NEW past, IsSequence(past), \A i \in 1..Len(past) : IsEdit(past[i]),
         NEW operation \in Operation, RebaseOver(past, operation) # <<>>
  PROVE  RebaseOver(past, operation)[1] \in Operation
<1>1. PICK h : Transformed(past, operation, h)
  BY RebaseRun
<1>2. Len(past) \in Nat
  BY DEF IsSequence
<1>3. RebaseOver(past, operation) \in Perhaps
  BY <1>1, <1>2 DEF Transformed
<1>4. PICK o \in Operation : RebaseOver(past, operation) = <<o>>
  BY <1>3 DEF Perhaps
<1>5. QED
  BY <1>4

\* Positions moved over edits stay positions ...
LEMMA PositionType ==
  ASSUME NEW past, IsSequence(past), \A i \in 1..Len(past) : IsEdit(past[i]),
         NEW p \in Nat, NEW origin
  PROVE  PositionOver(past, p, origin) \in Nat
<1>1. PICK h : Moved(past, p, origin, h)
  BY PositionRun
<1>2. Len(past) \in Nat
  BY DEF IsSequence
<1>3. QED
  BY <1>1, <1>2 DEF Moved

\* ... and along a trail they stay inside the text and in the order they were in.
LEMMA PositionsStayInside ==
  ASSUME NEW past, NEW t, Trail(past, t), NEW origin,
         NEW p \in Nat, NEW q \in Nat, q <= p, p <= Len(t[0])
  PROVE  /\ PositionOver(past, p, origin) \in Nat
         /\ PositionOver(past, p, origin) <= Len(t[Len(past)])
         /\ PositionOver(past, q, origin) <= PositionOver(past, p, origin)
<1>1. PICK n : n = Len(past)
  OBVIOUS
<1>2. n \in Nat /\ IsSequence(past) /\ \A i \in 1..Len(past) : IsEdit(past[i])
  BY <1>1, TrailTexts DEF Trail
<1>3. PICK h : Moved(past, p, origin, h)
  BY <1>2, PositionRun
<1>4. PICK g : Moved(past, q, origin, g)
  BY <1>2, PositionRun
<1> DEFINE P == {k \in Nat : k <= n => g[k] <= h[k] /\ h[k] <= Len(t[k])}
<1>5. 0 \in P
  BY <1>3, <1>4 DEF Moved
<1>6. ASSUME NEW k \in P PROVE k + 1 \in P
  <2>1. ASSUME k + 1 <= n PROVE g[k + 1] <= h[k + 1] /\ h[k + 1] <= Len(t[k + 1])
    <3>0. k \in Nat /\ (k <= n => g[k] <= h[k] /\ h[k] <= Len(t[k]))
      BY <1>6
    <3>1. k <= n /\ k \in 0..n - 1 /\ k \in 0..n /\ k + 1 \in 1..n /\ k + 1 - 1 = k
      BY <1>2, <2>1, <3>0
    <3>2. g[k] <= h[k] /\ h[k] <= Len(t[k]) /\ g[k] \in Nat /\ h[k] \in Nat
      BY <1>1, <1>3, <1>4, <3>0, <3>1 DEF Moved
    <3>3. PICK e, own : e = past[k + 1].operation /\ own = (past[k + 1].origin = origin)
      OBVIOUS
    <3>4. Fits(e, t[k]) /\ t[k + 1] = Apply(e, t[k])
      BY <1>1, <3>1, <3>3 DEF Trail
    <3>5. e \in Operation /\ t[k] \in Text /\ Applicable(e, t[k])
      BY <3>4 DEF Fits
    <3>6. BaseLen(e) = Len(t[k]) /\ Len(t[k + 1]) = TargetLen(e)
      BY <3>4, <3>5, ApplyType DEF Applicable
    <3>7. own \in BOOLEAN
      BY <3>3
    <3>8. Orderly(e, own)
      BY <3>5, <3>7, PositionsOrderly
    <3>9. /\ TransformPosition(h[k], e, own) <= TargetLen(e)
          /\ TransformPosition(g[k], e, own) <= TransformPosition(h[k], e, own)
      BY <3>2, <3>6, <3>8 DEF Orderly
    <3>10. /\ h[k + 1] = TransformPosition(h[k], e, own)
           /\ g[k + 1] = TransformPosition(g[k], e, own)
      BY <1>1, <1>3, <1>4, <3>1, <3>3 DEF Moved, PositionStep
    <3>11. QED
      BY <3>6, <3>9, <3>10
  <2>2. QED
    BY <2>1
<1>7. P = Nat
  <2> HIDE DEF P
  <2>1. P \in SUBSET Nat
    BY DEF P
  <2>2. QED
    BY <1>5, <1>6, <2>1, Induction
<1>8. g[n] <= h[n] /\ h[n] <= Len(t[n]) /\ h[n] \in Nat
  <2>1. n \in P /\ n <= n /\ n \in 0..n
    BY <1>2, <1>7
  <2>2. QED
    BY <1>1, <1>3, <2>1 DEF Moved
<1>9. QED
  BY <1>1, <1>3, <1>4, <1>8 DEF Moved

\* A run of equal components in front of an operation.
LEMMA RunInFront ==
  ASSUME NEW o \in Operation, NEW c \in {Retain, Delete}
  PROVE  \A k \in Nat : /\ Times(c, k) \o o \in Operation
                        /\ BaseLen(Times(c, k) \o o) = k + BaseLen(o)
<1>0. c \in Component /\ o \in Seq(Component) /\ BaseLen(o) \in Nat
  BY ComponentKinds, LengthsOfCons DEF Operation
<1>5. PICK m : m = BaseLen(o)
  OBVIOUS
<1>6. PICK f : f = [k \in Nat |-> Times(c, k) \o o]
  OBVIOUS
<1> DEFINE P == {k \in Nat : f[k] \in Operation /\ BaseLen(f[k]) = k + m}
<1>1. 0 \in P
  <2>1. Times(c, 0) = <<>>
    BY <1>0, TimesFacts
  <2>2. <<>> \o o = o
    BY <1>0, ConcatEmptySeq
  <2>3. f[0] = o
    BY <1>6, <2>1, <2>2
  <2>4. 0 + m = m
    BY <1>0, <1>5
  <2>5. QED
    BY <1>5, <2>3, <2>4
<1>2. ASSUME NEW k \in P PROVE k + 1 \in P
  <2>1. PICK r, q : r = Times(c, k) /\ q = f[k]
    OBVIOUS
  <2>2. k \in Nat /\ k + 1 \in Nat /\ q \in Operation /\ BaseLen(q) = k + m /\ q = r \o o
    BY <1>6, <2>1
  <2>3. Times(c, k) \in Seq(Component) /\ Times(c, k + 1) = <<c>> \o Times(c, k)
    BY <1>0, <2>2, TimesFacts
  <2>4. (<<c>> \o r) \o o = <<c>> \o (r \o o)
    <3>1. r \in Seq(Component) /\ <<c>> \in Seq(Component)
      BY <1>0, <2>1, <2>3
    <3>2. QED
      BY <1>0, <3>1, ConcatAssociative
  <2>5. f[k + 1] = <<c>> \o q
    BY <1>6, <2>1, <2>2, <2>3, <2>4
  <2>6. <<c>> \o q \in Operation
    BY <1>0, <2>2, ConsOfOperation
  <2>7. BaseLen(<<Retain>> \o q) = BaseLen(q) + 1 /\ BaseLen(<<Delete>> \o q) = BaseLen(q) + 1
    BY <2>2, LengthsOfCons
  <2>8. BaseLen(<<c>> \o q) = BaseLen(q) + 1
    BY <2>7
  <2>9. (k + m) + 1 = (k + 1) + m
    BY <1>0, <1>5, <2>2
  <2>10. QED
    BY <2>2, <2>5, <2>6, <2>8, <2>9
<1>3. P = Nat
  <2> HIDE DEF P
  <2>1. P \in SUBSET Nat
    BY DEF P
  <2>2. QED
    BY <1>1, <1>2, <2>1, Induction
<1>4. QED
  BY <1>3, <1>5, <1>6

\* Typing or deleting one character is an edit of the text (insert_text_at and
\* delete_range, text.rs:45-64).
LEMMA InsertTextAtFits ==
  ASSUME NEW t \in Text, NEW p \in 0..Len(t), NEW ch \in Char
  PROVE  Fits(InsertTextAt(Len(t), p, <<ch>>), t)
<1>1. PICK n, a, b : n = Len(t) /\ a = Times(Retain, p) /\ b = Times(Retain, n - p)
  OBVIOUS
<1>2. n \in Nat /\ p \in Nat /\ n - p \in Nat /\ p + (n - p) = n
  BY <1>1, TextCases
<1>3. PICK q : q = <<ch>> \o b
  OBVIOUS
<1>4. b \in Operation /\ BaseLen(b) = n - p /\ a \in Seq(Component) /\ b \in Seq(Component)
  <2>1. Retain \in Component /\ Retain \in {Retain, Delete} /\ <<>> \in Operation /\ BaseLen(<<>>) = 0
    BY ComponentKinds, EmptyOnes
  <2>2. a \in Seq(Component) /\ b \in Seq(Component)
    BY <1>1, <1>2, <2>1, TimesFacts
  <2>3. Times(Retain, n - p) \o <<>> \in Operation /\ BaseLen(Times(Retain, n - p) \o <<>>) = n - p + BaseLen(<<>>)
    BY <1>2, <2>1, RunInFront
  <2>4. b \o <<>> = b
    BY <2>2, ConcatEmptySeq
  <2>5. QED
    BY <1>1, <1>2, <2>1, <2>2, <2>3, <2>4
<1>5. q \in Operation /\ BaseLen(q) = n - p
  BY <1>3, <1>4, ComponentKinds, ConsOfOperation, LengthsOfCons
<1>6. Times(Retain, p) \o q \in Operation /\ BaseLen(Times(Retain, p) \o q) = p + BaseLen(q)
  BY <1>2, <1>5, RunInFront
<1>7. InsertTextAt(n, p, <<ch>>) = a \o q
  <2>1. InsertTextAt(n, p, <<ch>>) = (a \o <<ch>>) \o b
    BY <1>1 DEF InsertTextAt
  <2>2. <<ch>> \in Seq(Component)
    BY ComponentKinds
  <2>3. (a \o <<ch>>) \o b = a \o (<<ch>> \o b)
    BY <1>4, <2>2, ConcatAssociative
  <2>4. QED
    BY <1>3, <2>1, <2>3
<1>8. PICK o : o = InsertTextAt(n, p, <<ch>>)
  OBVIOUS
<1>9. o \in Operation /\ Applicable(o, t)
  BY <1>1, <1>2, <1>5, <1>6, <1>7, <1>8 DEF Applicable
<1>10. QED
  BY <1>1, <1>8, <1>9, ApplyType DEF Fits

LEMMA DeleteRangeFits ==
  ASSUME NEW t \in Text, NEW p \in 0..Len(t) - 1
  PROVE  Fits(DeleteRange(Len(t), p, p + 1), t)
<1>1. PICK n, a, b, d : /\ n = Len(t) /\ a = Times(Retain, p) /\ b = Times(Retain, n - (p + 1))
                        /\ d = Times(Delete, p + 1 - p)
  OBVIOUS
<1>2. n \in Nat /\ p \in Nat /\ n - (p + 1) \in Nat /\ p + (1 + (n - (p + 1))) = n /\ p + 1 - p = 1 /\ 1 \in Nat
  BY <1>1, TextCases
<1>3. PICK q : q = d \o b
  OBVIOUS
<1>4. /\ b \in Operation /\ BaseLen(b) = n - (p + 1)
      /\ a \in Seq(Component) /\ b \in Seq(Component) /\ d \in Seq(Component)
  <2>1. /\ Retain \in Component /\ Delete \in Component /\ Retain \in {Retain, Delete}
        /\ <<>> \in Operation /\ BaseLen(<<>>) = 0
    BY ComponentKinds, EmptyOnes
  <2>2. a \in Seq(Component) /\ b \in Seq(Component) /\ d \in Seq(Component)
    BY <1>1, <1>2, <2>1, TimesFacts
  <2>3. /\ Times(Retain, n - (p + 1)) \o <<>> \in Operation
        /\ BaseLen(Times(Retain, n - (p + 1)) \o <<>>) = n - (p + 1) + BaseLen(<<>>)
    BY <1>2, <2>1, RunInFront
  <2>4. b \o <<>> = b
    BY <2>2, ConcatEmptySeq
  <2>5. QED
    BY <1>1, <1>2, <2>1, <2>2, <2>3, <2>4
<1>5. q \in Operation /\ BaseLen(q) = 1 + (n - (p + 1))
  <2>1. Times(Delete, 1) \o b \in Operation /\ BaseLen(Times(Delete, 1) \o b) = 1 + BaseLen(b)
    BY <1>2, <1>4, RunInFront
  <2>2. QED
    BY <1>1, <1>2, <1>3, <1>4, <2>1
<1>6. Times(Retain, p) \o q \in Operation /\ BaseLen(Times(Retain, p) \o q) = p + BaseLen(q)
  BY <1>2, <1>5, RunInFront
<1>7. DeleteRange(n, p, p + 1) = a \o q
  <2>1. DeleteRange(n, p, p + 1) = (a \o d) \o b
    BY <1>1 DEF DeleteRange
  <2>2. (a \o d) \o b = a \o (d \o b)
    BY <1>4, ConcatAssociative
  <2>3. QED
    BY <1>3, <2>1, <2>2
<1>8. PICK o : o = DeleteRange(n, p, p + 1)
  OBVIOUS
<1>9. o \in Operation /\ Applicable(o, t)
  BY <1>1, <1>2, <1>5, <1>6, <1>7, <1>8 DEF Applicable
<1>10. QED
  BY <1>1, <1>8, <1>9, ApplyType DEF Fits

Fields == {"content", "version", "base", "history"}

\* The history grows, and gives up its oldest edit when it is full.
LEMMA RememberEffect ==
  ASSUME NEW c, DOMAIN c = Fields, IsSequence(c.history), c.base \in Nat,
         NEW edit
  PROVE  LET n == Remember(c, edit)
         IN  /\ DOMAIN n = Fields
             /\ n.content = c.content
             /\ n.version = c.version
             /\ \/ /\ Len(c.history) < HistoryCap
                   /\ n.base = c.base
                   /\ n.history = Append(c.history, edit)
                \/ /\ Len(c.history) >= HistoryCap
                   /\ n.base = c.base + 1
                   /\ n.history = Tail(Append(c.history, edit))
<1> DEFINE grown == Append(c.history, edit)
<1>1. Len(grown) = Len(c.history) + 1 /\ Len(c.history) \in Nat
  BY AppendIsSequence DEF IsSequence
<1>2. CASE Len(grown) > HistoryCap
  <2>1. Remember(c, edit) = [c EXCEPT !.history = Tail(grown), !.base = @ + 1]
    BY <1>2 DEF Remember
  <2>2. Len(c.history) >= HistoryCap
    BY <1>1, <1>2, HistoryCapAssumption
  <2> HIDE DEF grown
  <2>3. QED
    BY <2>1, <2>2 DEF Fields, grown
<1>3. CASE ~(Len(grown) > HistoryCap)
  <2>1. Remember(c, edit) = [c EXCEPT !.history = grown]
    BY <1>3 DEF Remember
  <2>2. Len(c.history) < HistoryCap
    BY <1>1, <1>3, HistoryCapAssumption
  <2>3. QED
    BY <2>1, <2>2 DEF Fields
<1>4. QED
  BY <1>2, <1>3


\* A cell as the server keeps it.
WellKept(c) ==
  /\ DOMAIN c = Fields
  /\ c.content \in Text /\ c.base \in Nat
  /\ IsSequence(c.history) /\ c.version = c.base + Len(c.history)
  /\ \A i \in 1..Len(c.history) : IsEdit(c.history[i])

\* The edit that made a version.
EditAt(c, v) == c.history[v - c.base]

\* The edits that led from one version to another.
Stretch(c, a, b) == [i \in 1..b - a |-> EditAt(c, a + i)]

LEMMA NewCellKept ==
  ASSUME NEW t \in Text
  PROVE  WellKept(NewCell(t)) /\ NewCell(t).version = 0 /\ NewCell(t).base = 0
<1>1. IsSequence(<<>>) /\ Len(<<>>) = 0
  BY DEF IsSequence
<1>2. QED
  BY <1>1 DEF WellKept, NewCell, Fields

\* An operation made against the current version is not transformed.
LEMMA NothingUnseen ==
  ASSUME NEW c, WellKept(c), NEW operation \in Operation
  PROVE  Rebased(c, c.version, operation) = <<operation>>
<1>1. PICK n, h, m : n = Len(c.history) /\ h = c.history /\ m = c.version - c.base + 1
  OBVIOUS
<1>2. n \in Nat /\ IsSequence(h) /\ m = n + 1 /\ n = Len(h)
  BY <1>1 DEF WellKept, IsSequence
<1>3. PICK u : u = SubSeq(h, m, n)
  OBVIOUS
<1>4. IsSequence(u) /\ Len(u) = 0
  <2>1. m \in 1..Len(h) + 1
    BY <1>2
  <2>2. IsSequence(SubSeq(h, m, Len(h))) /\ Len(SubSeq(h, m, Len(h))) = Len(h) - m + 1
    BY <1>2, <2>1, SubSeqOfSequence
  <2>3. QED
    BY <1>2, <1>3, <2>2
<1>5. PICK g : Transformed(u, operation, g)
  <2>1. \A i \in 1..Len(u) : IsEdit(u[i])
    BY <1>4
  <2>2. QED
    BY <1>4, <2>1, RebaseRun
<1>6. RebaseOver(u, operation) = <<operation>>
  BY <1>4, <1>5 DEF Transformed
<1>7. QED
  BY <1>1, <1>3, <1>6 DEF Rebased, Unseen

\* An edit of the current text, made, is remembered with its author, and the edits
\* that are still remembered are what they were.
LEMMA EditedKeeps ==
  ASSUME NEW c, WellKept(c), NEW base, NEW original, NEW operation,
         Rebased(c, base, original)[1] = operation, Fits(operation, c.content), NEW origin
  PROVE  LET e == Edited(c, base, original, origin)
         IN  /\ WellKept(e)
             /\ e.version = c.version + 1 /\ e.base \in c.base..c.base + 1
             /\ e.content = Apply(operation, c.content)
             /\ \A v \in e.base + 1..c.version : EditAt(e, v) = EditAt(c, v)
             /\ e.version > e.base => /\ EditAt(e, e.version).operation = operation
                                      /\ EditAt(e, e.version).origin = origin
<1>1. PICK e : e = Edited(c, base, original, origin)
  OBVIOUS
<1>2. PICK r : r = [version |-> c.version + 1, operation |-> operation, origin |-> origin]
  OBVIOUS
<1>3. r.operation = operation /\ r.origin = origin
  BY <1>2
<1>4. PICK a : a = [c EXCEPT !.content = Apply(operation, @), !.version = @ + 1]
  OBVIOUS
<1>5. operation \in Operation
  BY DEF Fits
<1>6. /\ DOMAIN c = Fields /\ c.base \in Nat
      /\ IsSequence(c.history) /\ c.version = c.base + Len(c.history)
      /\ \A i \in 1..Len(c.history) : IsEdit(c.history[i])
  BY DEF WellKept
<1>7. /\ DOMAIN a = Fields /\ a.content = Apply(operation, c.content)
      /\ a.version = c.version + 1 /\ a.base = c.base /\ a.history = c.history
  BY <1>4, <1>6 DEF Fields
<1>8. e = Remember(a, r)
  BY <1>1, <1>2, <1>4 DEF Edited
<1>9. PICK h, n, b, g : /\ h = c.history /\ n = Len(c.history) /\ b = c.base
                        /\ g = Append(c.history, r)
  OBVIOUS
<1>10. /\ DOMAIN e = Fields /\ e.content = a.content /\ e.version = a.version
       /\ \/ Len(a.history) < HistoryCap /\ e.base = a.base /\ e.history = Append(a.history, r)
          \/ /\ Len(a.history) >= HistoryCap
             /\ e.base = a.base + 1 /\ e.history = Tail(Append(a.history, r))
  BY <1>6, <1>7, <1>8, RememberEffect
<1>11. /\ DOMAIN e = Fields /\ e.content = Apply(operation, c.content)
       /\ e.version = b + n + 1
       /\ (e.base = b /\ e.history = g) \/ (e.base = b + 1 /\ e.history = Tail(g))
  BY <1>6, <1>7, <1>9, <1>10
<1>12. /\ b \in Nat /\ n \in Nat /\ c.version = b + n
       /\ IsSequence(g) /\ Len(g) = n + 1
       /\ \A i \in 1..n : g[i] = h[i]
       /\ g[n + 1] = r
  BY <1>6, <1>9, AppendIsSequence DEF IsSequence
<1>13. /\ IsSequence(Tail(g)) /\ Len(Tail(g)) = n
       /\ \A i \in 1..n : Tail(g)[i] = g[i + 1]
  BY <1>12, TailIsSequence
<1>14. \A i \in 1..n + 1 : IsEdit(g[i])
  <2>1. \A i \in 1..n : IsEdit(g[i])
    BY <1>6, <1>9, <1>12
  <2>2. IsEdit(g[n + 1])
    BY <1>3, <1>5, <1>12 DEF IsEdit
  <2>3. QED
    BY <1>12, <2>1, <2>2
<1>15. e.content \in Text
  BY <1>11 DEF Fits
<1>16. CASE e.base = b /\ e.history = g
  <2>1. WellKept(e)
    <3>1. b + n + 1 = b + (n + 1)
      BY <1>12
    <3>2. e.version = e.base + Len(e.history)
      BY <1>11, <1>12, <1>16, <3>1
    <3>3. \A i \in 1..Len(e.history) : IsEdit(e.history[i])
      BY <1>12, <1>14, <1>16
    <3>4. QED
      BY <1>11, <1>12, <1>15, <1>16, <3>2, <3>3 DEF WellKept
  <2>2. ASSUME NEW v \in e.base + 1..c.version PROVE EditAt(e, v) = EditAt(c, v)
    <3>1. v - b \in 1..n
      BY <1>12, <1>16
    <3>2. QED
      BY <1>9, <1>12, <1>16, <3>1 DEF EditAt
  <2>3. EditAt(e, e.version) = r
    <3>1. b + n + 1 - b = n + 1
      BY <1>12
    <3>2. QED
      BY <1>11, <1>12, <1>16, <3>1 DEF EditAt
  <2>4. QED
    BY <1>1, <1>3, <1>9, <1>11, <1>12, <1>16, <2>1, <2>2, <2>3
<1>17. CASE e.base = b + 1 /\ e.history = Tail(g)
  <2>1. WellKept(e)
    <3>1. \A i \in 1..n : IsEdit(Tail(g)[i])
      <4>1. ASSUME NEW i \in 1..n PROVE IsEdit(Tail(g)[i])
        <5>1. i + 1 \in 1..n + 1
          BY <1>12
        <5>2. QED
          BY <1>13, <1>14, <5>1
      <4>2. QED
        BY <4>1
    <3>2. b + n + 1 = b + 1 + n /\ b + 1 \in Nat
      BY <1>12
    <3>3. QED
      BY <1>11, <1>13, <1>15, <1>17, <3>1, <3>2 DEF WellKept
  <2>2. ASSUME NEW v \in e.base + 1..c.version PROVE EditAt(e, v) = EditAt(c, v)
    <3>1. /\ v - (b + 1) \in 1..n /\ v - b \in 1..n /\ v - (b + 1) + 1 = v - b
      BY <1>12, <1>17
    <3>2. QED
      BY <1>9, <1>12, <1>13, <1>17, <3>1 DEF EditAt
  <2>3. e.version > e.base => EditAt(e, e.version) = r
    <3>1. SUFFICES ASSUME e.version > e.base PROVE EditAt(e, e.version) = r
      OBVIOUS
    <3>2. b + n + 1 - (b + 1) = n /\ n \in 1..n
      BY <1>11, <1>12, <1>17, <3>1
    <3>3. QED
      BY <1>11, <1>12, <1>13, <1>17, <3>2 DEF EditAt
  <2>4. QED
    BY <1>1, <1>3, <1>9, <1>11, <1>12, <1>17, <2>1, <2>2, <2>3
<1>18. QED
  BY <1>11, <1>16, <1>17

\* The same for an operation made against the current version.
LEMMA EditKeepsCell ==
  ASSUME NEW c, WellKept(c), NEW operation, Fits(operation, c.content), NEW origin
  PROVE  LET e == Edited(c, c.version, operation, origin)
         IN  /\ WellKept(e)
             /\ e.version = c.version + 1 /\ e.base \in c.base..c.base + 1
             /\ \A v \in e.base + 1..c.version : EditAt(e, v) = EditAt(c, v)
             /\ e.version > e.base => /\ EditAt(e, e.version).operation = operation
                                      /\ EditAt(e, e.version).origin = origin
<1>1. Rebased(c, c.version, operation)[1] = operation
  BY NothingUnseen DEF Fits
<1>2. QED
  BY <1>1, EditedKeeps

----------------------------------------------------------------------------
(* Positions over the edits of a cell. *)

\* One edit more.
LEMMA MovedOnce ==
  ASSUME NEW past, NEW more, IsSequence(past), IsSequence(more), Len(more) = Len(past) + 1,
         \A i \in 1..Len(past) : more[i] = past[i],
         \A i \in 1..Len(more) : IsEdit(more[i]), NEW p \in Nat, NEW origin
  PROVE  PositionOver(more, p, origin)
           = PositionStep(PositionOver(past, p, origin), more[Len(more)], origin)
<1>1. PICK n : n = Len(past)
  OBVIOUS
<1>2. n \in Nat /\ Len(more) = n + 1 /\ \A i \in 1..n : IsEdit(past[i]) /\ more[i] = past[i]
  BY <1>1 DEF IsSequence
<1>3. PICK h : Moved(past, p, origin, h)
  BY <1>1, <1>2, PositionRun
<1>4. PICK g : Moved(more, p, origin, g)
  BY PositionRun
<1> DEFINE P == {k \in Nat : k <= n => g[k] = h[k]}
<1>5. 0 \in P
  BY <1>3, <1>4 DEF Moved
<1>6. ASSUME NEW k \in P PROVE k + 1 \in P
  <2>1. ASSUME k + 1 <= n PROVE g[k + 1] = h[k + 1]
    <3>0. k \in Nat /\ (k <= n => g[k] = h[k])
      BY <1>6
    <3>1. k <= n /\ k \in 0..n - 1 /\ k \in 0..n + 1 - 1 /\ k + 1 \in 1..n
      BY <1>2, <2>1, <3>0
    <3>2. h[k + 1] = PositionStep(h[k], past[k + 1], origin)
      BY <1>1, <1>3, <3>1 DEF Moved
    <3>3. g[k + 1] = PositionStep(g[k], more[k + 1], origin)
      BY <1>2, <1>4, <3>1 DEF Moved
    <3>4. QED
      BY <1>2, <3>0, <3>1, <3>2, <3>3
  <2>2. QED
    BY <2>1
<1>7. P = Nat
  <2> HIDE DEF P
  <2>1. P \in SUBSET Nat
    BY DEF P
  <2>2. QED
    BY <1>5, <1>6, <2>1, Induction
<1>8. g[n] = h[n]
  BY <1>2, <1>7
<1>9. g[n + 1] = PositionStep(g[n], more[n + 1], origin)
  <2>1. n \in 0..n + 1 - 1
    BY <1>2
  <2>2. QED
    BY <1>2, <1>4, <2>1 DEF Moved
<1>10. QED
  BY <1>1, <1>2, <1>3, <1>4, <1>8, <1>9 DEF Moved

\* A stretch has the edits of the cell.
LEMMA StretchFacts ==
  ASSUME NEW c, WellKept(c), NEW a \in c.base..c.version, NEW b \in a..c.version
  PROVE  /\ IsSequence(Stretch(c, a, b)) /\ Len(Stretch(c, a, b)) = b - a
         /\ \A i \in 1..b - a : /\ Stretch(c, a, b)[i] = EditAt(c, a + i)
                                /\ IsEdit(Stretch(c, a, b)[i])
<1>1. PICK n, m, k : n = Len(c.history) /\ m = c.base /\ k = b - a
  OBVIOUS
<1>2. m \in Nat /\ n \in Nat /\ c.version = m + n /\ a \in Int /\ b \in Int
  BY <1>1 DEF WellKept, IsSequence
<1>3. k \in Nat
  BY <1>1, <1>2
<1>4. PICK s : s = [i \in 1..k |-> EditAt(c, a + i)]
  OBVIOUS
<1>5. s = Stretch(c, a, b)
  BY <1>1, <1>4 DEF Stretch
<1>6. Len(s) = k /\ IsSequence(s) /\ \A i \in 1..k : s[i] = EditAt(c, a + i)
  BY <1>3, <1>4 DEF IsSequence
<1>7. ASSUME NEW i \in 1..k PROVE IsEdit(EditAt(c, a + i))
  <2>1. a + i - m \in 1..n
    BY <1>1, <1>2
  <2>2. QED
    BY <1>1, <2>1 DEF EditAt, WellKept
<1>8. QED
  BY <1>1, <1>5, <1>6, <1>7

\* The same edits of a cell before and after it is edited.
LEMMA SameStretch ==
  ASSUME NEW c, NEW d, NEW a \in Nat, NEW b \in Nat,
         \A v \in a + 1..b : EditAt(d, v) = EditAt(c, v)
  PROVE  Stretch(d, a, b) = Stretch(c, a, b)
<1>1. \A i \in 1..b - a : a + i \in a + 1..b
  OBVIOUS
<1>2. \A i \in 1..b - a : EditAt(d, a + i) = EditAt(c, a + i)
  BY <1>1
<1>3. QED
  BY <1>2 DEF Stretch

\* A position that has not met an edit stays; the next edit moves it once more.
LEMMA OverNothing ==
  ASSUME NEW c, WellKept(c), NEW a \in c.base..c.version, NEW p \in Nat, NEW origin
  PROVE  PositionOver(Stretch(c, a, a), p, origin) = p
<1>1. PICK s : s = Stretch(c, a, a)
  OBVIOUS
<1>2. a \in Int /\ a - a = 0 /\ a \in a..c.version
  BY DEF WellKept, IsSequence
<1>3. IsSequence(s) /\ Len(s) = 0
  BY <1>1, <1>2, StretchFacts
<1>4. \A i \in 1..Len(s) : IsEdit(s[i])
  BY <1>3
<1>5. PICK h : Moved(s, p, origin, h)
  BY <1>3, <1>4, PositionRun
<1>6. QED
  BY <1>1, <1>3, <1>5 DEF Moved

LEMMA OverOneMore ==
  ASSUME NEW c, WellKept(c), NEW a \in c.base..c.version, NEW b \in a..c.version - 1,
         NEW p \in Nat, NEW origin
  PROVE  PositionOver(Stretch(c, a, b + 1), p, origin)
           = PositionStep(PositionOver(Stretch(c, a, b), p, origin), EditAt(c, b + 1), origin)
<1>1. PICK s, t : s = Stretch(c, a, b) /\ t = Stretch(c, a, b + 1)
  OBVIOUS
<1>2. c.base \in Nat /\ c.version \in Nat
  BY DEF WellKept, IsSequence
<1>3. b \in a..c.version /\ b + 1 \in a..c.version /\ b - a \in Nat /\ b + 1 - a = (b - a) + 1
      /\ a + ((b - a) + 1) = b + 1
  BY <1>2
<1>4. IsSequence(s) /\ Len(s) = b - a /\ \A i \in 1..b - a : s[i] = EditAt(c, a + i)
  BY <1>1, <1>3, StretchFacts
<1>5. IsSequence(t) /\ Len(t) = b + 1 - a
      /\ \A i \in 1..b + 1 - a : t[i] = EditAt(c, a + i) /\ IsEdit(t[i])
  <2>1. PICK d : d = b + 1
    OBVIOUS
  <2>2. d \in a..c.version
    BY <1>3, <2>1
  <2>3. /\ IsSequence(Stretch(c, a, d)) /\ Len(Stretch(c, a, d)) = d - a
        /\ \A i \in 1..d - a : /\ Stretch(c, a, d)[i] = EditAt(c, a + i)
                               /\ IsEdit(Stretch(c, a, d)[i])
    BY <2>2, StretchFacts
  <2>4. t = Stretch(c, a, d)
    BY <1>1, <2>1
  <2>5. QED
    BY <2>1, <2>3, <2>4
<1>6. PICK n : n = b - a
  OBVIOUS
<1>7. /\ n \in Nat /\ Len(s) = n /\ Len(t) = n + 1 /\ b + 1 - a = n + 1 /\ a + (n + 1) = b + 1
      /\ n + 1 \in 1..n + 1
  BY <1>3, <1>4, <1>5, <1>6
<1>8. \A i \in 1..Len(s) : t[i] = s[i]
  BY <1>4, <1>5, <1>7
<1>9. \A i \in 1..Len(t) : IsEdit(t[i])
  BY <1>5
<1>10. PositionOver(t, p, origin)
         = PositionStep(PositionOver(s, p, origin), t[Len(t)], origin)
  BY <1>4, <1>5, <1>7, <1>8, <1>9, MovedOnce
<1>11. t[Len(t)] = EditAt(c, b + 1)
  BY <1>5, <1>7
<1>12. QED
  BY <1>1, <1>10, <1>11

\* rebase_position replays the edits since the version a position was reported for.
LEMMA RebaseOverStretch ==
  ASSUME NEW c, WellKept(c), NEW a \in c.base..c.version, NEW p, NEW origin
  PROVE  RebasePosition(c, a, p, origin) = PositionOver(Stretch(c, a, c.version), p, origin)
<1>1. PICK h, n, m : h = c.history /\ n = Len(c.history) /\ m = a - c.base + 1
  OBVIOUS
<1>2. c.base \in Nat /\ n \in Nat /\ c.version = c.base + n /\ IsSequence(h) /\ n = Len(h) /\ a \in Int
  BY <1>1 DEF WellKept, IsSequence
<1>3. (IF a > c.base THEN a ELSE c.base) = a
  BY <1>2
<1>4. PICK u, s : u = SubSeq(h, m, n) /\ s = Stretch(c, a, c.version)
  OBVIOUS
<1>5. m \in 1..n + 1 /\ n - m + 1 = c.version - a
  BY <1>1, <1>2
<1>6. IsSequence(u) /\ Len(u) = c.version - a /\ \A i \in 1..c.version - a : u[i] = h[m + i - 1]
  <2>1. /\ IsSequence(SubSeq(h, m, Len(h))) /\ Len(SubSeq(h, m, Len(h))) = Len(h) - m + 1
        /\ \A i \in 1..Len(h) - m + 1 : SubSeq(h, m, Len(h))[i] = h[m + i - 1]
    BY <1>2, <1>5, SubSeqOfSequence
  <2>2. QED
    BY <1>2, <1>4, <1>5, <2>1
<1>7. IsSequence(s) /\ Len(s) = c.version - a
      /\ \A i \in 1..c.version - a : s[i] = EditAt(c, a + i)
  <2>1. c.version \in a..c.version
    BY <1>2
  <2>2. QED
    BY <1>4, <2>1, StretchFacts
<1>8. \A i \in 1..Len(u) : u[i] = s[i]
  <2>1. ASSUME NEW i \in 1..Len(u) PROVE u[i] = s[i]
    <3>1. i \in 1..c.version - a
      BY <1>6
    <3>2. m + i - 1 = a + i - c.base
      BY <1>1, <1>2, <3>1
    <3>3. EditAt(c, a + i) = h[a + i - c.base]
      <4>0. a + i \in Int /\ c.base \in Int
        BY <1>2, <3>1
      <4>1. EditAt(c, a + i) = c.history[a + i - c.base]
        BY <4>0 DEF EditAt
      <4>2. h = c.history
        BY <1>1
      <4>3. QED
        BY <4>1, <4>2
    <3>4. u[i] = h[m + i - 1]
      BY <1>6, <3>1
    <3>5. s[i] = EditAt(c, a + i)
      BY <1>7, <3>1
    <3>6. QED
      BY <3>2, <3>3, <3>4, <3>5
  <2>2. QED
    BY <2>1
<1>9. u = s
  <2>1. u = [i \in 1..Len(u) |-> u[i]] /\ s = [i \in 1..Len(u) |-> s[i]]
    BY <1>6, <1>7 DEF IsSequence
  <2>2. [i \in 1..Len(u) |-> u[i]] = [i \in 1..Len(u) |-> s[i]]
    BY <1>8
  <2>3. QED
    BY <2>1, <2>2
<1>10. QED
  BY <1>1, <1>3, <1>4, <1>9 DEF RebasePosition, Unseen

\* A position reported for any version comes out as a position.
LEMMA RebasedPositionType ==
  ASSUME NEW c, WellKept(c), NEW v \in 0..c.version, NEW p \in Nat, NEW origin
  PROVE  RebasePosition(c, v, p, origin) \in Nat
<1>1. PICK a : a = IF v > c.base THEN v ELSE c.base
  OBVIOUS
<1>2. c.base \in Nat /\ c.version \in Nat /\ c.base <= c.version
  BY DEF WellKept, IsSequence
<1>3. a \in c.base..c.version /\ (IF a > c.base THEN a ELSE c.base) = a
  BY <1>1, <1>2
<1>4. RebasePosition(c, v, p, origin) = RebasePosition(c, a, p, origin)
  BY <1>1, <1>3 DEF RebasePosition
<1>5. PICK s : s = Stretch(c, a, c.version)
  OBVIOUS
<1>6. IsSequence(s) /\ \A i \in 1..Len(s) : IsEdit(s[i])
  <2>1. c.version \in a..c.version
    BY <1>2, <1>3
  <2>2. QED
    BY <1>3, <1>5, <2>1, StretchFacts
<1>7. PositionOver(s, p, origin) \in Nat
  BY <1>6, PositionType
<1>8. QED
  BY <1>3, <1>4, <1>5, <1>7, RebaseOverStretch
====

---------------------------- MODULE FocusState_proofs ----------------------------
(***************************************************************************)
(* FocusState for every set of users and cells: index and buckets agree on *)
(* who is in which cell (Membership), who stays behind where nobody should *)
(* be was set there late (OnlyLateReportsStay), and a snapshot has those   *)
(* who do not move while it is taken (SnapshotHasThoseWhoStay), all but    *)
(* for a change that was aborted.  Texts and positions do not matter to    *)
(* these three.  They do to the last two: positions are positions          *)
(* (FocusTypeOK), and each is what the edits since its report make of it   *)
(* (CursorsExact), however often it was moved on one by one.               *)
(***************************************************************************)
EXTENDS FocusState, TextOT_proofs

\* The inductive invariant: two cells never share a bucket, so that who leaves
\* one of them stays in no other.
IInv ==
  /\ IsSequence(buckets)
  /\ \A x \in DOMAIN byCell : byCell[x] \in 1..Len(buckets)
  /\ \A x, y \in DOMAIN byCell : byCell[x] = byCell[y] => x = y
  /\ Membership

\* One element changed.
Put(s, k, e) == [s EXCEPT ![k] = e]

LEMMA PutEffect ==
  ASSUME NEW s, IsSequence(s), NEW k, NEW e
  PROVE  /\ IsSequence(Put(s, k, e)) /\ Len(Put(s, k, e)) = Len(s)
         /\ k \in 1..Len(s) => Put(s, k, e)[k] = e
         /\ \A i \in 1..Len(s) : i # k => Put(s, k, e)[i] = s[i]
<1> DEFINE S == {s[i] : i \in 1..Len(s)} \cup {e}
           n == Put(s, k, e)
<1>1. s \in Seq(S) /\ e \in S /\ Len(s) \in Nat /\ DOMAIN s = 1..Len(s)
  BY SequenceOfElements DEF IsSequence
<1> HIDE DEF S
<1>2. s \in [1..Len(s) -> S]
  BY <1>1
<1>3. n \in [1..Len(s) -> S]
  BY <1>1, <1>2 DEF Put
<1>4. n \in Seq(S) /\ Len(n) = Len(s)
  BY <1>1, <1>3
<1>5. IsSequence(n)
  BY <1>4, SeqIsSequence
<1>6. /\ k \in 1..Len(s) => n[k] = e
      /\ \A i \in 1..Len(s) : i # k => n[i] = s[i]
  BY <1>1 DEF Put
<1>7. QED
  BY <1>4, <1>5, <1>6

----------------------------------------------------------------------------
(* Who is in the bucket of a cell after a change. *)

\* The bucket of one cell is changed.
LEMMA OneBucketChanged ==
  ASSUME IInv, NEW x \in DOMAIN byCell, NEW e
  PROVE  LET bs == Put(buckets, byCell[x], e)
         IN  /\ IsSequence(bs) /\ Len(bs) = Len(buckets)
             /\ bs[byCell[x]] = e
             /\ \A y \in DOMAIN byCell \ {x} : bs[byCell[y]] = buckets[byCell[y]]
BY PutEffect DEF IInv

LEMMA LeavingEffect ==
  ASSUME IInv, NEW u, NEW x, NEW bs, bs = Leaving(u, x)
  PROVE  /\ IsSequence(bs) /\ Len(bs) = Len(buckets) /\ Len(bs) \in Nat
         /\ \A y \in DOMAIN byCell :
              /\ DOMAIN bs[byCell[y]] \ {u} = DOMAIN buckets[byCell[y]] \ {u}
              /\ u \in DOMAIN bs[byCell[y]] <=>
                   /\ u \in DOMAIN buckets[byCell[y]]
                   /\ ~(u \in DOMAIN byUser /\ byUser[u] # x /\ byUser[u] = y)
<1>1. CASE u \in DOMAIN byUser /\ byUser[u] # x /\ byUser[u] \in DOMAIN byCell
  <2> DEFINE z  == byUser[u]
             n  == Put(buckets, byCell[z], Without(buckets[byCell[z]], u))
  <2>1. bs = n
    BY <1>1 DEF Leaving, Put
  <2>2. /\ IsSequence(n) /\ Len(n) = Len(buckets)
        /\ n[byCell[z]] = Without(buckets[byCell[z]], u)
        /\ \A y \in DOMAIN byCell \ {z} : n[byCell[y]] = buckets[byCell[y]]
    BY <1>1, OneBucketChanged
  <2>3. DOMAIN Without(buckets[byCell[z]], u) = DOMAIN buckets[byCell[z]] \ {u}
    BY DEF Without
  <2> HIDE DEF n
  <2>4. QED
    BY <1>1, <2>1, <2>2, <2>3 DEF IsSequence
<1>2. CASE ~(u \in DOMAIN byUser /\ byUser[u] # x /\ byUser[u] \in DOMAIN byCell)
  BY <1>2 DEF IInv, IsSequence, Leaving
<1>3. QED
  BY <1>1, <1>2

\* The steps that move nobody.
LEMMA StayInv ==
  ASSUME IInv, UNCHANGED <<focusVars, cut>>
  PROVE  IInv'
BY DEF IInv, Membership, UsersIn, PositionsOf, focusVars

LEMMA ShiftInv ==
  ASSUME IInv, NEW u \in User, Shift(u)
  PROVE  IInv'
<1> DEFINE k == task[u].bucket
           e == Shifted(buckets[k], task[u].operation, u)
<1>1. /\ buckets' = Put(buckets, k, e)
      /\ UNCHANGED <<byUser, byCell, cut>>
  BY DEF Shift, Put
<1>2. DOMAIN e = DOMAIN buckets[k]
  BY DEF Shifted
<1> HIDE DEF k, e
<1>3. /\ IsSequence(buckets') /\ Len(buckets') = Len(buckets)
      /\ k \in 1..Len(buckets) => buckets'[k] = e
      /\ \A i \in 1..Len(buckets) : i # k => buckets'[i] = buckets[i]
  BY <1>1, PutEffect DEF IInv
<1>4. \A i \in 1..Len(buckets) : DOMAIN buckets'[i] = DOMAIN buckets[i]
  BY <1>2, <1>3
<1>5. \A x : UsersIn(x)' = UsersIn(x)
  BY <1>1, <1>4 DEF UsersIn, PositionsOf, IInv
<1>6. QED
  BY <1>1, <1>3, <1>5 DEF IInv, Membership

\* Setting a focus, to the end.
LEMMA SetFocusInv ==
  ASSUME IInv, NEW u \in User, SetFocus(u),
         NEW x, x = task[u].cell, NEW p, p = task[u].position
  PROVE  IInv'
<1>0. PICK bs : bs = Leaving(u, x)
  OBVIOUS
<1>1. /\ byUser' = With(byUser, u, x) /\ UNCHANGED cut
      /\ \/ /\ x \in DOMAIN byCell
            /\ buckets' = Put(bs, byCell[x], With(bs[byCell[x]], u, p))
            /\ byCell' = byCell
         \/ /\ x \notin DOMAIN byCell
            /\ buckets' = Append(bs, With(<<>>, u, p))
            /\ byCell' = With(byCell, x, Len(buckets'))
  BY <1>0 DEF SetFocus, Put
<1>2. /\ IsSequence(bs) /\ Len(bs) = Len(buckets) /\ Len(bs) \in Nat
      /\ \A y \in DOMAIN byCell :
           /\ DOMAIN bs[byCell[y]] \ {u} = DOMAIN buckets[byCell[y]] \ {u}
           /\ u \in DOMAIN bs[byCell[y]] <=>
                /\ u \in DOMAIN buckets[byCell[y]]
                /\ ~(u \in DOMAIN byUser /\ byUser[u] # x /\ byUser[u] = y)
  BY <1>0, LeavingEffect
<1>3. /\ DOMAIN byUser' = DOMAIN byUser \cup {u}
      /\ byUser'[u] = x
      /\ \A w \in DOMAIN byUser \ {u} : byUser'[w] = byUser[w]
  BY <1>1 DEF With
<1>4. /\ IsSequence(buckets')
      /\ \A y \in DOMAIN byCell' : byCell'[y] \in 1..Len(buckets')
      /\ \A y, z \in DOMAIN byCell' : byCell'[y] = byCell'[z] => y = z
      /\ DOMAIN byCell' = DOMAIN byCell \cup {x}
      /\ \A y \in DOMAIN byCell \ {x} :
           buckets'[byCell'[y]] = bs[byCell[y]]
      /\ u \in UsersIn(x)'
      /\ \A w \in User \ {u} :
           w \in UsersIn(x)' <=> w \in UsersIn(x)
  <2>1. CASE /\ x \in DOMAIN byCell
             /\ buckets' = Put(bs, byCell[x], With(bs[byCell[x]], u, p))
             /\ byCell' = byCell
    <3>1. /\ IsSequence(buckets') /\ Len(buckets') = Len(bs)
          /\ byCell[x] \in 1..Len(bs) =>
               buckets'[byCell[x]] = With(bs[byCell[x]], u, p)
          /\ \A i \in 1..Len(bs) : i # byCell[x] => buckets'[i] = bs[i]
      BY <1>2, <2>1, PutEffect
    <3>2. /\ \A y \in DOMAIN byCell : byCell[y] \in 1..Len(bs)
          /\ \A y, z \in DOMAIN byCell : byCell[y] = byCell[z] => y = z
      BY <1>2 DEF IInv
    <3>3. UsersIn(x)' = DOMAIN bs[byCell[x]] \cup {u}
      BY <2>1, <3>1, <3>2 DEF UsersIn, PositionsOf, With
    <3>4. \A w \in User \ {u} : w \in DOMAIN bs[byCell[x]] <=> w \in UsersIn(x)
      BY <1>2, <2>1 DEF UsersIn, PositionsOf
    <3>5. QED
      BY <2>1, <3>1, <3>2, <3>3, <3>4
  <2>2. CASE /\ x \notin DOMAIN byCell
             /\ buckets' = Append(bs, With(<<>>, u, p))
             /\ byCell' = With(byCell, x, Len(buckets'))
    <3>1. /\ IsSequence(buckets') /\ Len(buckets') = Len(bs) + 1
          /\ \A i \in 1..Len(bs) : buckets'[i] = bs[i]
          /\ buckets'[Len(bs) + 1] = With(<<>>, u, p)
      BY <1>2, <2>2, AppendIsSequence
    <3>2. /\ DOMAIN byCell' = DOMAIN byCell \cup {x}
          /\ byCell'[x] = Len(bs) + 1
          /\ \A y \in DOMAIN byCell : byCell'[y] = byCell[y]
      BY <2>2, <3>1 DEF With
    <3>3. /\ \A y \in DOMAIN byCell : byCell[y] \in 1..Len(bs)
          /\ \A y, z \in DOMAIN byCell : byCell[y] = byCell[z] => y = z
      BY <1>2 DEF IInv
    <3>4. UsersIn(x)' = {u} /\ UsersIn(x) = {}
      <4>1. DOMAIN With(<<>>, u, p) = {u}
        BY DEF With
      <4>2. QED
        BY <2>2, <3>1, <3>2, <4>1 DEF UsersIn, PositionsOf
    <3>5. QED
      BY <1>2, <3>1, <3>2, <3>3, <3>4
  <2>3. QED
    BY <1>1, <2>1, <2>2
<1>5. \A y \in DOMAIN byCell \ {x} : UsersIn(y)' = DOMAIN bs[byCell[y]]
  BY <1>4 DEF UsersIn, PositionsOf
<1>6. Membership'
  <2> SUFFICES ASSUME NEW w \in User \ cut
               PROVE  /\ w \in DOMAIN byUser' => byUser'[w] \in DOMAIN byCell'
                      /\ \A y \in DOMAIN byCell' :
                           w \in UsersIn(y)'
                             <=> w \in DOMAIN byUser' /\ byUser'[w] = y
    BY <1>1 DEF Membership
  <2>1. /\ w \in DOMAIN byUser => byUser[w] \in DOMAIN byCell
        /\ \A y \in DOMAIN byCell :
             w \in UsersIn(y) <=> w \in DOMAIN byUser /\ byUser[w] = y
    BY DEF IInv, Membership
  <2>2. CASE w = u
    <3>1. \A y \in DOMAIN byCell \ {x} : u \notin UsersIn(y)'
      <4> SUFFICES ASSUME NEW y \in DOMAIN byCell \ {x} PROVE u \notin UsersIn(y)'
        OBVIOUS
      <4>1. DOMAIN buckets[byCell[y]] = UsersIn(y)
        BY DEF UsersIn, PositionsOf
      <4>2. QED
        BY <1>2, <1>5, <2>1, <2>2, <4>1
    <3>2. QED
      BY <1>3, <1>4, <2>2, <3>1
  <2>3. CASE w # u
    <3>1. \A y \in DOMAIN byCell \ {x} : w \in UsersIn(y)' <=> w \in UsersIn(y)
      <4> SUFFICES ASSUME NEW y \in DOMAIN byCell \ {x}
                   PROVE  w \in UsersIn(y)' <=> w \in UsersIn(y)
        OBVIOUS
      <4>1. DOMAIN buckets[byCell[y]] = UsersIn(y)
        BY DEF UsersIn, PositionsOf
      <4>2. QED
        BY <1>2, <1>5, <2>3, <4>1
    <3>2. w \in UsersIn(x)' <=> w \in UsersIn(x)
      BY <1>4, <2>3
    <3>3. x \notin DOMAIN byCell => w \notin UsersIn(x)
      BY DEF UsersIn
    <3>4. QED
      BY <1>3, <1>4, <2>1, <2>3, <3>1, <3>2, <3>3
  <2>4. QED
    BY <2>2, <2>3
<1>7. QED
  BY <1>4, <1>6 DEF IInv

\* Setting a focus, cut off: only who is left half done may be out of step.
LEMMA SetFocusCutInv ==
  ASSUME IInv, NEW u \in User, SetFocusCut(u), NEW x, x = task[u].cell
  PROVE  IInv'
<1>0. PICK bs : bs = Leaving(u, x)
  OBVIOUS
<1>1. /\ byUser' = With(byUser, u, x) /\ cut' = cut \cup {u}
      /\ \/ buckets' = buckets /\ byCell' = byCell
         \/ buckets' = bs /\ byCell' = byCell
         \/ /\ x \notin DOMAIN byCell
            /\ buckets' = Append(bs, <<>>)
            /\ byCell' = With(byCell, x, Len(buckets'))
  BY <1>0 DEF SetFocusCut
<1>2. /\ IsSequence(bs) /\ Len(bs) = Len(buckets) /\ Len(bs) \in Nat
      /\ \A y \in DOMAIN byCell :
           DOMAIN bs[byCell[y]] \ {u} = DOMAIN buckets[byCell[y]] \ {u}
  BY <1>0, LeavingEffect
<1>3. \A w \in User \ {u} : /\ w \in DOMAIN byUser' <=> w \in DOMAIN byUser
                            /\ w \in DOMAIN byUser => byUser'[w] = byUser[w]
  BY <1>1 DEF With
<1>4. /\ IsSequence(buckets')
      /\ \A y \in DOMAIN byCell' : byCell'[y] \in 1..Len(buckets')
      /\ \A y, z \in DOMAIN byCell' : byCell'[y] = byCell'[z] => y = z
      /\ DOMAIN byCell \subseteq DOMAIN byCell'
      /\ \A y \in DOMAIN byCell : \A w \in User \ {u} :
           w \in UsersIn(y)' <=> w \in UsersIn(y)
      /\ \A y \in DOMAIN byCell' \ DOMAIN byCell : UsersIn(y)' = {}
  <2>1. CASE buckets' = buckets /\ byCell' = byCell
    BY <2>1 DEF IInv, UsersIn, PositionsOf
  <2>2. CASE buckets' = bs /\ byCell' = byCell
    BY <1>2, <2>2 DEF IInv, UsersIn, PositionsOf
  <2>3. CASE /\ x \notin DOMAIN byCell
             /\ buckets' = Append(bs, <<>>)
             /\ byCell' = With(byCell, x, Len(buckets'))
    <3>1. /\ IsSequence(buckets') /\ Len(buckets') = Len(bs) + 1
          /\ \A i \in 1..Len(bs) : buckets'[i] = bs[i]
          /\ buckets'[Len(bs) + 1] = <<>>
      BY <1>2, <2>3, AppendIsSequence
    <3>2. /\ DOMAIN byCell' = DOMAIN byCell \cup {x}
          /\ byCell'[x] = Len(bs) + 1
          /\ \A y \in DOMAIN byCell : byCell'[y] = byCell[y]
      BY <2>3, <3>1 DEF With
    <3>3. /\ \A y \in DOMAIN byCell : byCell[y] \in 1..Len(bs)
          /\ \A y, z \in DOMAIN byCell : byCell[y] = byCell[z] => y = z
      BY <1>2 DEF IInv
    <3>4. UsersIn(x)' = {}
      BY <3>1, <3>2 DEF UsersIn, PositionsOf
    <3>5. \A y \in DOMAIN byCell : /\ UsersIn(y)' = DOMAIN bs[byCell[y]]
                                     /\ UsersIn(y) = DOMAIN buckets[byCell[y]]
      BY <3>1, <3>2, <3>3 DEF UsersIn, PositionsOf
    <3>6. QED
      BY <1>2, <3>1, <3>2, <3>3, <3>4, <3>5
  <2>4. QED
    BY <1>1, <2>1, <2>2, <2>3
<1>5. Membership'
  <2> SUFFICES ASSUME NEW w \in User \ cut'
               PROVE  /\ w \in DOMAIN byUser' => byUser'[w] \in DOMAIN byCell'
                      /\ \A y \in DOMAIN byCell' :
                           w \in UsersIn(y)'
                             <=> w \in DOMAIN byUser' /\ byUser'[w] = y
    BY DEF Membership
  <2>1. w \in User \ {u} /\ w \notin cut
    BY <1>1
  <2>2. /\ w \in DOMAIN byUser => byUser[w] \in DOMAIN byCell
        /\ \A y \in DOMAIN byCell :
             w \in UsersIn(y) <=> w \in DOMAIN byUser /\ byUser[w] = y
    BY <2>1 DEF IInv, Membership
  <2>3. QED
    BY <1>3, <1>4, <2>1, <2>2
<1>6. QED
  BY <1>4, <1>5 DEF IInv

LEMMA ClearCellInv ==
  ASSUME IInv, NEW u \in User, ClearCell(u), NEW x, x = task[u].cell
  PROVE  IInv'
<1>1. CASE x \notin DOMAIN byCell
  BY <1>1, StayInv DEF ClearCell, ghostVars
<1>2. CASE x \in DOMAIN byCell
  <2>1. /\ byCell' = Without(byCell, x)
        /\ buckets' = Put(buckets, byCell[x], <<>>)
        /\ byUser' = Remaining(x)
        /\ cut' = cut
    BY <1>2 DEF ClearCell, ghostVars, Put
  <2>2. /\ DOMAIN byCell' = DOMAIN byCell \ {x}
        /\ \A y \in DOMAIN byCell \ {x} : byCell'[y] = byCell[y]
    BY <2>1 DEF Without
  <2>3. /\ IsSequence(buckets') /\ Len(buckets') = Len(buckets)
        /\ \A y \in DOMAIN byCell \ {x} : buckets'[byCell[y]] = buckets[byCell[y]]
    BY <1>2, <2>1, OneBucketChanged
  <2>4. \A y \in DOMAIN byCell \ {x} : UsersIn(y)' = UsersIn(y)
    BY <2>2, <2>3 DEF UsersIn, PositionsOf
  <2>5. \A w : /\ w \in DOMAIN byUser' <=>
                    w \in DOMAIN byUser /\ ~(w \in UsersIn(x) /\ byUser[w] = x)
               /\ w \in DOMAIN byUser' => byUser'[w] = byUser[w]
    BY <2>1 DEF Remaining
  <2>6. Membership'
    <3> SUFFICES ASSUME NEW w \in User \ cut
                 PROVE  /\ w \in DOMAIN byUser' => byUser'[w] \in DOMAIN byCell'
                        /\ \A y \in DOMAIN byCell' :
                             w \in UsersIn(y)'
                               <=> w \in DOMAIN byUser' /\ byUser'[w] = y
      BY <2>1 DEF Membership
    <3>1. /\ w \in DOMAIN byUser => byUser[w] \in DOMAIN byCell
          /\ \A y \in DOMAIN byCell :
               w \in UsersIn(y) <=> w \in DOMAIN byUser /\ byUser[w] = y
      BY DEF IInv, Membership
    <3>2. QED
      BY <1>2, <2>2, <2>4, <2>5, <3>1
  <2>7. QED
    BY <2>2, <2>3, <2>6 DEF IInv
<1>3. QED
  BY <1>1, <1>2

\* Everybody who was in the cell is left half done.
LEMMA ClearCellCutInv ==
  ASSUME IInv, NEW u \in User, ClearCellCut(u), NEW x, x = task[u].cell
  PROVE  IInv'
<1>1. /\ byCell' = Without(byCell, x) /\ x \in DOMAIN byCell
      /\ cut' = cut \cup UsersIn(x)
      /\ UNCHANGED <<byUser, buckets>>
  BY DEF ClearCellCut
<1>2. /\ DOMAIN byCell' = DOMAIN byCell \ {x}
      /\ \A y \in DOMAIN byCell \ {x} : byCell'[y] = byCell[y]
  BY <1>1 DEF Without
<1>3. \A y \in DOMAIN byCell \ {x} : UsersIn(y)' = UsersIn(y)
  BY <1>1, <1>2 DEF UsersIn, PositionsOf
<1>4. Membership'
  BY <1>1, <1>2, <1>3 DEF IInv, Membership
<1>5. QED
  BY <1>1, <1>2, <1>4 DEF IInv

LEMMA ClearUserInv ==
  ASSUME IInv, NEW u \in User, ClearUser(u)
  PROVE  IInv'
<1>1. /\ byUser' = Without(byUser, u) /\ UNCHANGED <<byCell, cut>>
      /\ buckets' = IF u \in DOMAIN byUser /\ byUser[u] \in DOMAIN byCell
                    THEN Put(buckets, byCell[byUser[u]],
                             Without(buckets[byCell[byUser[u]]], u))
                    ELSE buckets
  BY DEF ClearUser, Cleared, ghostVars, Put
<1>2. \A w : /\ w \in DOMAIN byUser' <=> w \in DOMAIN byUser /\ w # u
             /\ w \in DOMAIN byUser' => byUser'[w] = byUser[w]
  BY <1>1 DEF Without
<1>3. CASE u \in DOMAIN byUser /\ byUser[u] \in DOMAIN byCell
  <2>1. PICK z : z = byUser[u]
    OBVIOUS
  <2>2. /\ IsSequence(buckets') /\ Len(buckets') = Len(buckets)
        /\ buckets'[byCell[z]] = Without(buckets[byCell[z]], u)
        /\ \A y \in DOMAIN byCell \ {z} : buckets'[byCell[y]] = buckets[byCell[y]]
    BY <1>1, <1>3, <2>1, OneBucketChanged
  <2>3. /\ UsersIn(z)' = UsersIn(z) \ {u}
        /\ \A y \in DOMAIN byCell \ {z} : UsersIn(y)' = UsersIn(y)
    BY <1>1, <1>3, <2>1, <2>2 DEF UsersIn, PositionsOf, Without
  <2>4. Membership'
    BY <1>1, <1>2, <1>3, <2>1, <2>3 DEF IInv, Membership
  <2>5. QED
    BY <1>1, <2>2, <2>4 DEF IInv
<1>4. CASE ~(u \in DOMAIN byUser /\ byUser[u] \in DOMAIN byCell)
  <2>1. \A y : UsersIn(y)' = UsersIn(y)
    BY <1>1, <1>4 DEF UsersIn, PositionsOf
  <2>2. Membership'
    BY <1>1, <1>2, <1>4, <2>1 DEF IInv, Membership
  <2>3. QED
    BY <1>1, <1>4, <2>2 DEF IInv
<1>5. QED
  BY <1>3, <1>4

----------------------------------------------------------------------------

LEMMA InitInv == Init => IInv
BY DEF Init, IInv, Membership, UsersIn, IsSequence

LEMMA StepInv == IInv /\ [Next]_vars => IInv'
<1> SUFFICES ASSUME IInv, [Next]_vars PROVE IInv'
  OBVIOUS
<1>1. ASSUME NEW u \in User, Handling(u)
      PROVE  IInv'
  <2>1. CASE UNCHANGED <<focusVars, cut>>
    BY <2>1, StayInv
  <2>2. CASE Shift(u)
    BY <2>2, ShiftInv
  <2>3. CASE SetFocus(u)
    BY <2>3, SetFocusInv
  <2>4. CASE ClearCell(u)
    BY <2>4, ClearCellInv
  <2>5. UNCHANGED <<focusVars, cut>> \/ Shift(u) \/ SetFocus(u) \/ ClearCell(u)
    BY <1>1 DEF Handling, CommitEdit, ReportCursor, InsertCell, DeleteCell,
                TakeBucket, ghostVars
  <2>6. QED
    BY <2>1, <2>2, <2>3, <2>4, <2>5
<1>2. ASSUME NEW u \in User, Ending(u)
      PROVE  IInv'
  <2>1. CASE UNCHANGED <<focusVars, cut>>
    BY <2>1, StayInv
  <2>2. CASE ClearUser(u)
    BY <2>2, ClearUserInv
  <2>3. CASE SetFocusCut(u)
    BY <2>3, SetFocusCutInv
  <2>4. CASE ClearCellCut(u)
    BY <2>4, ClearCellCutInv
  <2>5. \/ UNCHANGED <<focusVars, cut>>
        \/ ClearUser(u) \/ SetFocusCut(u) \/ ClearCellCut(u)
    BY <1>2 DEF Ending, Disconnect, Aborted, ghostVars
  <2>6. QED
    BY <2>1, <2>2, <2>3, <2>4, <2>5
<1>3. CASE BeginSnapshot \/ ReadBucket
  BY <1>3, StayInv DEF BeginSnapshot, ReadBucket, ghostVars
<1>4. CASE UNCHANGED vars
  BY <1>4, StayInv DEF vars, ghostVars
<1>5. QED
  BY <1>1, <1>2, <1>3, <1>4 DEF Next

\* Membership for every set of users and of cells and any number of requests
\* (focus.rs:15-19).
THEOREM MembershipAlways == Spec => []Membership
<1>1. IInv => Membership
  BY DEF IInv
<1>2. QED
  BY InitInv, StepInv, <1>1, PTL DEF Spec

----------------------------------------------------------------------------
(* Who stays behind.                                                       *)

ClearsSoon(x) == \E w \in User : task[w].at = "clearing" /\ task[w].cell = x

\* Who is in a deleted cell was set there late, or somebody is about to clear
\* the cell; who has left was set late.
LateInv ==
  /\ DOMAIN byUser \subseteq User
  /\ DOMAIN task = User /\ DOMAIN session = User
  /\ \A u \in DOMAIN byUser \ cut :
       /\ session[u] = "left" => <<u, byUser[u]>> \in late
       /\ byUser[u] \in deleted => <<u, byUser[u]>> \in late \/ ClearsSoon(byUser[u])

\* The steps that set nobody, clear nothing and abort no clearing.
LEMMA CalmLateInv ==
  ASSUME LateInv, UNCHANGED <<byUser, cut, late>>,
         DOMAIN task' = User, DOMAIN session' = User,
         \A u \in User : session'[u] = "left" => session[u] = "left",
         \A x \in deleted' : x \in deleted \/ ClearsSoon(x)',
         \A w \in User : task[w].at = "clearing" => task'[w] = task[w]
  PROVE  LateInv'
<1>1. \A x : ClearsSoon(x) => ClearsSoon(x)'
  BY DEF ClearsSoon
<1>2. QED
  BY <1>1 DEF LateInv

\* A task that clears nothing goes on.
LEMMA OtherTasksLate ==
  ASSUME LateInv, NEW u \in User, NEW t, SetTask(u, t)
  PROVE  /\ DOMAIN task' = User /\ task'[u] = t
         /\ \A w \in User \ {u} : task'[w] = task[w]
         /\ \A x : ClearsSoon(x) /\ ~(task[u].at = "clearing" /\ task[u].cell = x) =>
                     ClearsSoon(x)'
<1>1. /\ DOMAIN task' = User /\ task'[u] = t
      /\ \A w \in User \ {u} : task'[w] = task[w]
  BY DEF LateInv, SetTask
<1>2. QED
  BY <1>1 DEF ClearsSoon

LEMMA SettingLateInv ==
  ASSUME LateInv, NEW u \in User, NEW x, x = task[u].cell,
         task[u].at = "setting", SetTask(u, Idle),
         byUser' = With(byUser, u, x), cut \subseteq cut',
         late' = IF x \in deleted \/ session[u] = "left"
                 THEN late \cup {<<u, x>>} ELSE late,
         UNCHANGED <<deleted, session>>
  PROVE  LateInv'
<1>1. /\ DOMAIN byUser' = DOMAIN byUser \cup {u}
      /\ byUser'[u] = x
      /\ \A w \in DOMAIN byUser \ {u} : byUser'[w] = byUser[w]
  BY DEF With
<1>2. /\ DOMAIN task' = User
      /\ \A y : ClearsSoon(y) => ClearsSoon(y)'
  BY OtherTasksLate
<1>3. QED
  BY <1>1, <1>2 DEF LateInv

\* When the cell of a clearing is done with, nobody is in it but who was cut.
LEMMA ClearedLateInv ==
  ASSUME LateInv, NEW u \in User, NEW x, x = task[u].cell,
         task[u].at = "clearing", SetTask(u, Idle), cut \subseteq cut', late \subseteq late',
         \A w \in DOMAIN byUser' : w \in DOMAIN byUser /\ byUser'[w] = byUser[w],
         \A w \in DOMAIN byUser' \ cut' : byUser[w] = x => <<w, x>> \in late',
         UNCHANGED <<deleted, session>>
  PROVE  LateInv'
<1>1. /\ DOMAIN task' = User
      /\ \A y : y # x /\ ClearsSoon(y) => ClearsSoon(y)'
  BY OtherTasksLate
<1>2. ASSUME NEW w \in DOMAIN byUser' \ cut'
      PROVE  /\ session'[w] = "left" => <<w, byUser'[w]>> \in late'
             /\ byUser'[w] \in deleted' =>
                  <<w, byUser'[w]>> \in late' \/ ClearsSoon(byUser[w])'
  <2>1. /\ session[w] = "left" => <<w, byUser[w]>> \in late
        /\ byUser[w] \in deleted =>
             <<w, byUser[w]>> \in late \/ ClearsSoon(byUser[w])
    BY DEF LateInv
  <2>2. PICK y : y = byUser[w] /\ y = byUser'[w]
    OBVIOUS
  <2>3. y \in deleted => <<w, y>> \in late' \/ ClearsSoon(y)'
    BY <1>1, <2>1, <2>2
  <2>4. QED
    BY <2>1, <2>2, <2>3 DEF ClearsSoon
<1>3. DOMAIN byUser' \subseteq User /\ DOMAIN session' = User
  BY DEF LateInv
<1>4. QED
  BY <1>1, <1>2, <1>3 DEF LateInv

LEMMA HandlingLateInv ==
  ASSUME IInv, LateInv, NEW u \in User, Handling(u)
  PROVE  LateInv'
<1>1. CASE SetFocus(u)
  BY <1>1, SettingLateInv DEF SetFocus
<1>2. CASE ClearCell(u)
  <2>1. PICK x : x = task[u].cell
    OBVIOUS
  <2>2. /\ task[u].at = "clearing" /\ SetTask(u, Idle)
        /\ UNCHANGED <<deleted, session, cut, late>>
        /\ x \notin DOMAIN byCell => byUser' = byUser
        /\ x \in DOMAIN byCell => byUser' = Remaining(x)
    BY <1>2, <2>1 DEF ClearCell, ghostVars, focusVars
  <2>3. /\ \A w \in DOMAIN byUser' : w \in DOMAIN byUser /\ byUser'[w] = byUser[w]
        /\ \A w \in DOMAIN byUser' \ cut : byUser[w] # x
    <3>1. CASE x \notin DOMAIN byCell
      BY <2>2, <3>1 DEF IInv, Membership, LateInv
    <3>2. CASE x \in DOMAIN byCell
      <4>1. \A w : /\ w \in DOMAIN byUser' <=>
                        w \in DOMAIN byUser /\ ~(w \in UsersIn(x) /\ byUser[w] = x)
                   /\ w \in DOMAIN byUser' => byUser'[w] = byUser[w]
        BY <2>2, <3>2 DEF Remaining
      <4>2. QED
        BY <3>2, <4>1 DEF IInv, Membership, LateInv
    <3>3. QED
      BY <3>1, <3>2
  <2>4. QED
    BY <2>1, <2>2, <2>3, ClearedLateInv
<1>3. CASE \E x \in DOMAIN cells \cup deleted : DeleteCell(u, x)
  <2>1. PICK x : /\ task[u] = Idle /\ deleted' = deleted \cup {x}
                 /\ SetTask(u, [at |-> "clearing", cell |-> x])
                 /\ UNCHANGED <<byUser, session, cut, late>>
    BY <1>3 DEF DeleteCell, Handles, focusVars, ghostVars
  <2>2. /\ DOMAIN task' = User
        /\ task'[u].at = "clearing" /\ task'[u].cell = x
        /\ \A w \in User \ {u} : task'[w] = task[w]
    BY <2>1, OtherTasksLate
  <2>3. ClearsSoon(x)'
    BY <2>2 DEF ClearsSoon
  <2>4. task[u].at # "clearing"
    BY <2>1 DEF Idle
  <2>5. QED
    BY <2>1, <2>2, <2>3, <2>4, CalmLateInv DEF LateInv
<1>4. ASSUME ~SetFocus(u), ~ClearCell(u),
             ~\E x \in DOMAIN cells \cup deleted : DeleteCell(u, x)
      PROVE  LateInv'
  <2>1. /\ task[u].at # "clearing" /\ \E t : SetTask(u, t)
        /\ UNCHANGED <<byUser, cut, late, deleted, session>>
    <3>1. ASSUME NEW x, NEW operation, CommitEdit(u, x, operation)
          PROVE  /\ task[u] = Idle /\ \E t : SetTask(u, t)
                 /\ UNCHANGED <<byUser, cut, late, deleted, session>>
      BY <3>1 DEF CommitEdit, Handles, ghostVars, focusVars
    <3>2. ASSUME NEW x, NEW base, NEW position, ReportCursor(u, x, base, position)
          PROVE  /\ task[u] = Idle /\ \E t : SetTask(u, t)
                 /\ UNCHANGED <<byUser, cut, late, deleted, session>>
      BY <3>2 DEF ReportCursor, Handles, ghostVars, focusVars
    <3>3. ASSUME NEW x, InsertCell(u, x)
          PROVE  /\ task[u] = Idle /\ \E t : SetTask(u, t)
                 /\ UNCHANGED <<byUser, cut, late, deleted, session>>
      BY <3>3 DEF InsertCell, Handles, ghostVars, focusVars
    <3>4. ASSUME TakeBucket(u)
          PROVE  /\ task[u].at = "shifting" /\ \E t : SetTask(u, t)
                 /\ UNCHANGED <<byUser, cut, late, deleted, session>>
      BY <3>4 DEF TakeBucket, ghostVars, focusVars
    <3>5. ASSUME Shift(u)
          PROVE  /\ task[u].at = "holding" /\ \E t : SetTask(u, t)
                 /\ UNCHANGED <<byUser, cut, late, deleted, session>>
      BY <3>5 DEF Shift
    <3>6. Idle.at # "clearing"
      BY DEF Idle
    <3>7. QED
      BY <1>4, <3>1, <3>2, <3>3, <3>4, <3>5, <3>6 DEF Handling
  <2>2. PICK t : SetTask(u, t)
    BY <2>1
  <2>3. /\ DOMAIN task' = User
        /\ \A w \in User \ {u} : task'[w] = task[w]
    BY <2>2, OtherTasksLate
  <2>4. QED
    BY <2>1, <2>3, CalmLateInv DEF LateInv
<1>5. QED
  BY <1>1, <1>2, <1>3, <1>4

LEMMA EndingLateInv ==
  ASSUME IInv, LateInv, NEW u \in User, Ending(u)
  PROVE  LateInv'
<1>1. CASE Disconnect(u)
  <2>1. /\ session' = [session EXCEPT ![u] = "leaving"]
        /\ UNCHANGED <<byUser, cut, late, deleted, task>>
    BY <1>1 DEF Disconnect, focusVars, ghostVars
  <2>2. /\ DOMAIN session' = User
        /\ \A w \in User : session'[w] = "left" => session[w] = "left"
    BY <2>1 DEF LateInv
  <2>3. QED
    BY <2>1, <2>2, CalmLateInv DEF LateInv
<1>2. CASE ClearUser(u)
  <2>1. /\ session' = [session EXCEPT ![u] = "left"]
        /\ byUser' = Without(byUser, u)
        /\ UNCHANGED <<cut, late, deleted, task>>
    BY <1>2 DEF ClearUser, Cleared, ghostVars
  <2>2. /\ DOMAIN byUser' = DOMAIN byUser \ {u}
        /\ \A w \in DOMAIN byUser' : byUser'[w] = byUser[w]
    BY <2>1 DEF Without
  <2>3. QED
    BY <2>1, <2>2 DEF LateInv, ClearsSoon
<1>3. CASE Aborted(u) /\ task[u].at # "clearing"
  <2>1. /\ SetTask(u, Idle) /\ UNCHANGED <<byUser, cut, late, deleted, session>>
    BY <1>3 DEF Aborted, focusVars
  <2>2. /\ DOMAIN task' = User
        /\ \A w \in User \ {u} : task'[w] = task[w]
    BY <2>1, OtherTasksLate
  <2>3. QED
    BY <1>3, <2>1, <2>2, CalmLateInv DEF LateInv
<1>4. CASE Aborted(u) /\ task[u].at = "clearing"
  <2>1. PICK x : x = task[u].cell
    OBVIOUS
  <2>2. /\ SetTask(u, Idle) /\ UNCHANGED <<byUser, cut, deleted, session>>
        /\ late' = late \cup {<<w, x>> : w \in UsersIn(x)}
    BY <1>4, <2>1 DEF Aborted, focusVars
  <2>3. \A w \in DOMAIN byUser \ cut : byUser[w] = x => w \in UsersIn(x)
    BY DEF IInv, Membership, LateInv
  <2>4. QED
    BY <1>4, <2>1, <2>2, <2>3, ClearedLateInv
<1>5. CASE SetFocusCut(u)
  BY <1>5, SettingLateInv DEF SetFocusCut
<1>6. CASE ClearCellCut(u)
  <2>1. PICK x : x = task[u].cell
    OBVIOUS
  <2>2. /\ task[u].at = "clearing" /\ SetTask(u, Idle)
        /\ UNCHANGED <<byUser, deleted, session, late>>
        /\ cut' = cut \cup UsersIn(x)
    BY <1>6, <2>1 DEF ClearCellCut
  <2>3. \A w \in DOMAIN byUser \ cut : byUser[w] = x => w \in UsersIn(x)
    BY DEF IInv, Membership, LateInv
  <2>4. QED
    BY <2>1, <2>2, <2>3, ClearedLateInv
<1>7. QED
  BY <1>1, <1>2, <1>3, <1>4, <1>5, <1>6 DEF Ending

LEMMA LateStepInv == IInv /\ LateInv /\ [Next]_vars => LateInv'
<1> SUFFICES ASSUME IInv, LateInv, [Next]_vars PROVE LateInv'
  OBVIOUS
<1>1. CASE BeginSnapshot \/ ReadBucket \/ UNCHANGED vars
  <2>1. UNCHANGED <<byUser, cut, late, deleted, session, task>>
    BY <1>1 DEF BeginSnapshot, ReadBucket, vars, focusVars, ghostVars
  <2>2. QED
    BY <2>1, CalmLateInv DEF LateInv
<1>2. QED
  BY <1>1, HandlingLateInv, EndingLateInv DEF Next

\* Nobody is left in a cell that was deleted, and nobody who has left is left in
\* any, but for late reports and what was aborted, for every set of users and
\* cells and any number of requests (focus.rs, clear_cell_focus and clear_focus).
THEOREM OnlyLateReportsStayAlways == Spec => []OnlyLateReportsStay
<1>1. Init => LateInv
  BY DEF Init, LateInv
<1>2. LateInv => OnlyLateReportsStay
  BY DEF LateInv, OnlyLateReportsStay, ClearsSoon, Idle
<1>3. QED
  BY InitInv, StepInv, LateStepInv, <1>1, <1>2, PTL DEF Spec

----------------------------------------------------------------------------
(* The snapshot.                                                           *)

\* While a snapshot is taken, of those who have not moved since it began: who
\* was found is in the cell it was found in; who is somewhere was found or its
\* bucket is still to be read; and who is in a bucket still to be read is in the
\* cell that had it at first, even if the cell has another now.
SnapshotInv ==
  \/ snapshot = [at |-> "none"]
  \/ /\ DOMAIN snapshot = {"at", "found", "moved", "rest"}
     /\ snapshot.at = "reading"
     /\ \A b \in snapshot.rest :
          /\ b[2] \in 1..Len(buckets)
          /\ \A y \in DOMAIN byCell : byCell[y] = b[2] => y = b[1]
     /\ \A u \in User \ (snapshot.moved \cup cut) :
          /\ u \in DOMAIN snapshot.found =>
               u \in DOMAIN byUser /\ snapshot.found[u][1] = byUser[u]
          /\ u \in DOMAIN byUser =>
               \/ u \in DOMAIN snapshot.found
               \/ <<byUser[u], byCell[byUser[u]]>> \in snapshot.rest
          /\ \A b \in snapshot.rest :
               u \in DOMAIN buckets[b[2]] => u \in DOMAIN byUser /\ byUser[u] = b[1]

\* The steps that read no bucket: all but those in M, and who is cut, stay.
LEMMA MovingInv ==
  ASSUME IInv, SnapshotInv, NEW M, Moves(M) \/ (UNCHANGED snapshot /\ M = {}),
         cut \subseteq cut', Len(buckets') \in Nat, Len(buckets) <= Len(buckets'),
         \A y \in DOMAIN byCell' :
           (y \in DOMAIN byCell /\ byCell'[y] = byCell[y]) \/ byCell'[y] > Len(buckets),
         \A u \in User \ (M \cup cut') :
           /\ u \in DOMAIN byUser' <=> u \in DOMAIN byUser
           /\ u \in DOMAIN byUser => /\ byUser'[u] = byUser[u]
                                     /\ byCell'[byUser[u]] = byCell[byUser[u]]
           /\ \A i \in 1..Len(buckets) : u \in DOMAIN buckets'[i] =>
                \/ u \in DOMAIN buckets[i]
                \/ /\ u \in DOMAIN byUser /\ byUser[u] \in DOMAIN byCell
                   /\ i = byCell[byUser[u]]
  PROVE  SnapshotInv'
<1>1. CASE snapshot = [at |-> "none"]
  BY <1>1 DEF Moves, SnapshotInv
<1>2. CASE snapshot # [at |-> "none"]
  <2>1. /\ DOMAIN snapshot = {"at", "found", "moved", "rest"}
        /\ snapshot.at = "reading"
    BY <1>2 DEF SnapshotInv
  <2>2. /\ DOMAIN snapshot' = {"at", "found", "moved", "rest"}
        /\ snapshot'.at = "reading"
        /\ snapshot'.found = snapshot.found /\ snapshot'.rest = snapshot.rest
        /\ snapshot'.moved = snapshot.moved \cup M
    BY <2>1 DEF Moves
  <2>3. Len(buckets) \in Nat
    BY DEF IInv, IsSequence
  <2>4. ASSUME NEW b \in snapshot.rest
        PROVE  /\ b[2] \in 1..Len(buckets')
               /\ \A y \in DOMAIN byCell' : byCell'[y] = b[2] => y = b[1]
    BY <1>2, <2>3 DEF SnapshotInv
  <2>5. ASSUME NEW u \in User \ (snapshot'.moved \cup cut')
        PROVE  /\ u \in DOMAIN snapshot.found =>
                    u \in DOMAIN byUser' /\ snapshot.found[u][1] = byUser'[u]
               /\ u \in DOMAIN byUser' =>
                    \/ u \in DOMAIN snapshot.found
                    \/ <<byUser'[u], byCell'[byUser'[u]]>> \in snapshot.rest
               /\ \A b \in snapshot.rest : u \in DOMAIN buckets'[b[2]] =>
                    u \in DOMAIN byUser' /\ byUser'[u] = b[1]
    <3>1. u \in User \ (M \cup cut') /\ u \in User \ (snapshot.moved \cup cut)
      BY <2>2
    <3>2. /\ u \in DOMAIN snapshot.found =>
               u \in DOMAIN byUser /\ snapshot.found[u][1] = byUser[u]
          /\ u \in DOMAIN byUser =>
               \/ u \in DOMAIN snapshot.found
               \/ <<byUser[u], byCell[byUser[u]]>> \in snapshot.rest
          /\ \A b \in snapshot.rest :
               /\ b[2] \in 1..Len(buckets)
               /\ \A y \in DOMAIN byCell : byCell[y] = b[2] => y = b[1]
               /\ u \in DOMAIN buckets[b[2]] => u \in DOMAIN byUser /\ byUser[u] = b[1]
      BY <1>2, <3>1 DEF SnapshotInv
    <3>3. QED
      BY <3>1, <3>2
  <2>6. QED
    BY <2>2, <2>4, <2>5 DEF SnapshotInv
<1>3. QED
  BY <1>1, <1>2

LEMMA StaySnapshotInv ==
  ASSUME IInv, SnapshotInv, UNCHANGED <<focusVars, cut, snapshot>>
  PROVE  SnapshotInv'
BY DEF SnapshotInv, focusVars

\* Leaving a bucket puts nobody in any.
LEMMA LeavingOnly ==
  ASSUME IInv, NEW u, NEW x, NEW bs, bs = Leaving(u, x)
  PROVE  /\ IsSequence(bs) /\ Len(bs) = Len(buckets) /\ Len(bs) \in Nat
         /\ \A i \in 1..Len(buckets) : DOMAIN bs[i] \subseteq DOMAIN buckets[i]
<1>1. CASE u \in DOMAIN byUser /\ byUser[u] # x /\ byUser[u] \in DOMAIN byCell
  <2>1. PICK k : k = byCell[byUser[u]]
    OBVIOUS
  <2>2. bs = Put(buckets, k, Without(buckets[k], u))
    BY <1>1, <2>1 DEF Leaving, Put
  <2>3. DOMAIN Without(buckets[k], u) \subseteq DOMAIN buckets[k]
    BY DEF Without
  <2>4. QED
    BY <2>2, <2>3, PutEffect DEF IInv, IsSequence
<1>2. CASE ~(u \in DOMAIN byUser /\ byUser[u] # x /\ byUser[u] \in DOMAIN byCell)
  BY <1>2 DEF IInv, IsSequence, Leaving
<1>3. QED
  BY <1>1, <1>2

LEMMA SetFocusSnapshotInv ==
  ASSUME IInv, SnapshotInv, NEW u \in User, SetFocus(u),
         NEW x, x = task[u].cell, NEW p, p = task[u].position
  PROVE  SnapshotInv'
<1>0. PICK bs : bs = Leaving(u, x)
  OBVIOUS
<1>1. /\ byUser' = With(byUser, u, x) /\ UNCHANGED cut /\ Departs(u, x)
      /\ \/ /\ x \in DOMAIN byCell
            /\ buckets' = Put(bs, byCell[x], With(bs[byCell[x]], u, p))
            /\ byCell' = byCell
         \/ /\ x \notin DOMAIN byCell
            /\ buckets' = Append(bs, With(<<>>, u, p))
            /\ byCell' = With(byCell, x, Len(buckets'))
  BY <1>0 DEF SetFocus, Put
<1>2. PICK M : /\ Moves(M)
               /\ M = IF u \in DOMAIN byUser /\ byUser[u] = x THEN {} ELSE {u}
  BY <1>1 DEF Departs
<1>3. /\ IsSequence(bs) /\ Len(bs) = Len(buckets) /\ Len(bs) \in Nat
      /\ \A i \in 1..Len(buckets) : DOMAIN bs[i] \subseteq DOMAIN buckets[i]
  BY <1>0, LeavingOnly
<1>4. /\ DOMAIN byUser' = DOMAIN byUser \cup {u}
      /\ byUser'[u] = x
      /\ \A w \in DOMAIN byUser \ {u} : byUser'[w] = byUser[w]
  BY <1>1 DEF With
<1>5. u \in User \ (M \cup cut) =>
        u \in DOMAIN byUser /\ byUser[u] = x /\ x \in DOMAIN byCell
  BY <1>2 DEF IInv, Membership
<1>6. CASE /\ x \in DOMAIN byCell
           /\ buckets' = Put(bs, byCell[x], With(bs[byCell[x]], u, p))
           /\ byCell' = byCell
  <2>1. /\ Len(buckets') = Len(bs)
        /\ byCell[x] \in 1..Len(bs)
        /\ buckets'[byCell[x]] = With(bs[byCell[x]], u, p)
        /\ \A i \in 1..Len(bs) : i # byCell[x] => buckets'[i] = bs[i]
    BY <1>3, <1>6, PutEffect DEF IInv
  <2>2. DOMAIN With(bs[byCell[x]], u, p) = DOMAIN bs[byCell[x]] \cup {u}
    BY DEF With
  <2>3. ASSUME NEW i \in 1..Len(buckets), NEW w \in DOMAIN buckets'[i]
        PROVE  w \in DOMAIN buckets[i] \/ (w = u /\ i = byCell[x])
    <3>1. CASE i = byCell[x]
      <4>1. DOMAIN buckets'[i] = DOMAIN bs[i] \cup {u}
        BY <2>1, <2>2, <3>1
      <4>2. DOMAIN bs[i] \subseteq DOMAIN buckets[i]
        BY <1>3
      <4>3. QED
        BY <3>1, <4>1, <4>2
    <3>2. CASE i # byCell[x]
      BY <1>3, <2>1, <3>2
    <3>3. QED
      BY <3>1, <3>2
  <2>4. /\ cut' = cut /\ Len(buckets') = Len(buckets) /\ Len(buckets) \in Nat
        /\ \A y \in DOMAIN byCell' : y \in DOMAIN byCell /\ byCell'[y] = byCell[y]
    BY <1>1, <1>3, <1>6, <2>1
  <2>5. ASSUME NEW w \in User \ (M \cup cut)
        PROVE  /\ w \in DOMAIN byUser' <=> w \in DOMAIN byUser
               /\ w \in DOMAIN byUser => byUser'[w] = byUser[w]
    BY <1>4, <1>5, <2>5
  <2>6. ASSUME NEW w \in User \ (M \cup cut), NEW i \in 1..Len(buckets),
               w \in DOMAIN buckets'[i]
        PROVE  \/ w \in DOMAIN buckets[i]
               \/ /\ w \in DOMAIN byUser /\ byUser[w] \in DOMAIN byCell
                  /\ i = byCell[byUser[w]]
    BY <1>5, <2>3, <2>6
  <2>7. QED
    BY <1>2, <1>6, <2>4, <2>5, <2>6, MovingInv
<1>7. CASE /\ x \notin DOMAIN byCell
           /\ buckets' = Append(bs, With(<<>>, u, p))
           /\ byCell' = With(byCell, x, Len(buckets'))
  <2>1. /\ Len(buckets') = Len(bs) + 1
        /\ \A i \in 1..Len(bs) : buckets'[i] = bs[i]
    BY <1>3, <1>7, AppendIsSequence
  <2>2. /\ DOMAIN byCell' = DOMAIN byCell \cup {x}
        /\ byCell'[x] = Len(bs) + 1
        /\ \A y \in DOMAIN byCell : byCell'[y] = byCell[y]
    BY <1>7, <2>1 DEF With
  <2>3. \A w \in User \ cut : w \in DOMAIN byUser => byUser[w] \in DOMAIN byCell
    BY DEF IInv, Membership
  <2>4. QED
    BY <1>1, <1>2, <1>3, <1>4, <1>5, <1>7, <2>1, <2>2, <2>3, MovingInv
<1>8. QED
  BY <1>1, <1>6, <1>7

LEMMA SetFocusCutSnapshotInv ==
  ASSUME IInv, SnapshotInv, NEW u \in User, SetFocusCut(u), NEW x, x = task[u].cell
  PROVE  SnapshotInv'
<1>0. PICK bs : bs = Leaving(u, x)
  OBVIOUS
<1>1. /\ byUser' = With(byUser, u, x) /\ cut' = cut \cup {u} /\ Departs(u, x)
      /\ \/ buckets' = buckets /\ byCell' = byCell
         \/ buckets' = bs /\ byCell' = byCell
         \/ /\ x \notin DOMAIN byCell
            /\ buckets' = Append(bs, <<>>)
            /\ byCell' = With(byCell, x, Len(buckets'))
  BY <1>0 DEF SetFocusCut
<1>2. PICK M : Moves(M)
  BY <1>1 DEF Departs
<1>3. /\ IsSequence(bs) /\ Len(bs) = Len(buckets) /\ Len(bs) \in Nat
      /\ \A i \in 1..Len(buckets) : DOMAIN bs[i] \subseteq DOMAIN buckets[i]
  BY <1>0, LeavingOnly
<1>4. \A w \in User \ {u} : /\ w \in DOMAIN byUser' <=> w \in DOMAIN byUser
                            /\ w \in DOMAIN byUser => byUser'[w] = byUser[w]
  BY <1>1 DEF With
<1>5. CASE buckets' \in {buckets, bs} /\ byCell' = byCell
  BY <1>1, <1>2, <1>3, <1>4, <1>5, MovingInv
<1>6. CASE /\ x \notin DOMAIN byCell
           /\ buckets' = Append(bs, <<>>)
           /\ byCell' = With(byCell, x, Len(buckets'))
  <2>1. /\ Len(buckets') = Len(bs) + 1
        /\ \A i \in 1..Len(bs) : buckets'[i] = bs[i]
    BY <1>3, <1>6, AppendIsSequence
  <2>2. /\ DOMAIN byCell' = DOMAIN byCell \cup {x}
        /\ byCell'[x] = Len(bs) + 1
        /\ \A y \in DOMAIN byCell : byCell'[y] = byCell[y]
    BY <1>6, <2>1 DEF With
  <2>3. \A w \in User \ cut : w \in DOMAIN byUser => byUser[w] \in DOMAIN byCell
    BY DEF IInv, Membership
  <2>4. QED
    BY <1>1, <1>2, <1>3, <1>4, <1>6, <2>1, <2>2, <2>3, MovingInv
<1>7. QED
  BY <1>1, <1>5, <1>6

\* A cell is cleared, to the end or not: everybody who was in it has moved.
LEMMA ClearCellSnapshotInv ==
  ASSUME IInv, SnapshotInv, NEW u \in User, ClearCell(u) \/ ClearCellCut(u),
         NEW x, x = task[u].cell
  PROVE  SnapshotInv'
<1>1. CASE x \notin DOMAIN byCell
  BY <1>1, StaySnapshotInv DEF ClearCell, ClearCellCut, ghostVars
<1>2. CASE x \in DOMAIN byCell
  <2>1. /\ byCell' = Without(byCell, x) /\ Moves(UsersIn(x)) /\ cut \subseteq cut'
        /\ byUser' = Remaining(x) \/ byUser' = byUser
        /\ buckets' = Put(buckets, byCell[x], <<>>) \/ buckets' = buckets
    BY <1>2 DEF ClearCell, ClearCellCut, ghostVars, Put
  <2>2. /\ DOMAIN byCell' = DOMAIN byCell \ {x}
        /\ \A y \in DOMAIN byCell \ {x} : byCell'[y] = byCell[y]
    BY <2>1 DEF Without
  <2>3. /\ Len(buckets') = Len(buckets) /\ Len(buckets) \in Nat
        /\ \A i \in 1..Len(buckets) : DOMAIN buckets'[i] \subseteq DOMAIN buckets[i]
    <3>1. DOMAIN <<>> = {}
      OBVIOUS
    <3>2. QED
      BY <2>1, <3>1, PutEffect DEF IInv, IsSequence
  <2>4. \A w \in User \ UsersIn(x) : /\ w \in DOMAIN byUser' <=> w \in DOMAIN byUser
                                     /\ w \in DOMAIN byUser => byUser'[w] = byUser[w]
    BY <2>1 DEF Remaining
  <2>5. \A w \in User \ (UsersIn(x) \cup cut) :
          w \in DOMAIN byUser => byUser[w] # x /\ byUser[w] \in DOMAIN byCell
    BY <1>2 DEF IInv, Membership
  <2>6. QED
    BY <2>1, <2>2, <2>3, <2>4, <2>5, MovingInv
<1>3. QED
  BY <1>1, <1>2

LEMMA ClearUserSnapshotInv ==
  ASSUME IInv, SnapshotInv, NEW u \in User, ClearUser(u)
  PROVE  SnapshotInv'
<1>1. /\ byUser' = Without(byUser, u) /\ UNCHANGED <<byCell, cut>> /\ Moves({u})
      /\ \/ buckets' = buckets
         \/ \E k : buckets' = Put(buckets, k, Without(buckets[k], u))
  BY DEF ClearUser, Cleared, ghostVars, Put
<1>2. \A w \in User \ {u} : /\ w \in DOMAIN byUser' <=> w \in DOMAIN byUser
                            /\ w \in DOMAIN byUser => byUser'[w] = byUser[w]
  BY <1>1 DEF Without
<1>3. /\ Len(buckets') = Len(buckets) /\ Len(buckets) \in Nat
      /\ \A i \in 1..Len(buckets) : DOMAIN buckets'[i] \subseteq DOMAIN buckets[i]
  <2>1. \A k : DOMAIN Without(buckets[k], u) \subseteq DOMAIN buckets[k]
    BY DEF Without
  <2>2. QED
    BY <1>1, <2>1, PutEffect DEF IInv, IsSequence
<1>4. QED
  BY <1>1, <1>2, <1>3, MovingInv DEF IInv

LEMMA ShiftSnapshotInv ==
  ASSUME IInv, SnapshotInv, NEW u \in User, Shift(u)
  PROVE  SnapshotInv'
<1>1. PICK k, operation : /\ buckets' = Put(buckets, k, Shifted(buckets[k], operation, u))
                          /\ UNCHANGED <<byUser, byCell, cut, snapshot>>
  BY DEF Shift, Put
<1>2. DOMAIN Shifted(buckets[k], operation, u) = DOMAIN buckets[k]
  BY DEF Shifted
<1>3. /\ Len(buckets') = Len(buckets) /\ Len(buckets) \in Nat
      /\ \A i \in 1..Len(buckets) : DOMAIN buckets'[i] \subseteq DOMAIN buckets[i]
  BY <1>1, <1>2, PutEffect DEF IInv, IsSequence
<1>4. UNCHANGED snapshot /\ byUser' = byUser /\ byCell' = byCell /\ cut' = cut
  BY <1>1
<1>5. QED
  <2>1. PICK M : M = {}
    OBVIOUS
  <2>2. \A w \in User \ (M \cup cut') :
          /\ w \in DOMAIN byUser' <=> w \in DOMAIN byUser
          /\ w \in DOMAIN byUser => /\ byUser'[w] = byUser[w]
                                    /\ byCell'[byUser[w]] = byCell[byUser[w]]
          /\ \A i \in 1..Len(buckets) :
               w \in DOMAIN buckets'[i] => w \in DOMAIN buckets[i]
    BY <1>3, <1>4
  <2>3. /\ cut \subseteq cut' /\ Len(buckets') \in Nat /\ Len(buckets) <= Len(buckets')
        /\ \A y \in DOMAIN byCell' : y \in DOMAIN byCell /\ byCell'[y] = byCell[y]
    BY <1>3, <1>4
  <2>4. QED
    BY <1>4, <2>1, <2>2, <2>3, MovingInv

LEMMA BeginSnapshotInv ==
  ASSUME IInv, BeginSnapshot
  PROVE  SnapshotInv'
<1>1. /\ snapshot' = [at |-> "reading", found |-> <<>>, moved |-> {},
                      rest |-> {<<x, byCell[x]>> : x \in DOMAIN byCell}]
      /\ UNCHANGED <<byUser, byCell, buckets, cut>>
  BY DEF BeginSnapshot, focusVars, ghostVars
<1>2. /\ DOMAIN snapshot' = {"at", "found", "moved", "rest"}
      /\ snapshot'.at = "reading" /\ DOMAIN snapshot'.found = {}
      /\ snapshot'.rest = {<<x, byCell[x]>> : x \in DOMAIN byCell}
  BY <1>1
<1>3. \A b \in snapshot'.rest :
        /\ b[1] \in DOMAIN byCell /\ b[2] = byCell[b[1]]
        /\ DOMAIN buckets[b[2]] = UsersIn(b[1])
  BY <1>2 DEF UsersIn, PositionsOf
<1>4. \A u \in User \ cut :
        /\ u \in DOMAIN byUser => byUser[u] \in DOMAIN byCell
        /\ \A x \in DOMAIN byCell :
             u \in UsersIn(x) <=> u \in DOMAIN byUser /\ byUser[u] = x
  BY DEF IInv, Membership
<1>5. QED
  BY <1>1, <1>2, <1>3, <1>4 DEF SnapshotInv, IInv

LEMMA ReadBucketInv ==
  ASSUME IInv, SnapshotInv, ReadBucket
  PROVE  SnapshotInv'
<1>1. PICK b \in snapshot.rest :
        snapshot' = [snapshot EXCEPT !.rest = @ \ {b},
                                     !.found = FoundAfter(@, b[1], buckets[b[2]])]
  BY DEF ReadBucket
<1>2. snapshot.at = "reading" /\ UNCHANGED <<byUser, byCell, buckets, cut>>
  BY DEF ReadBucket, focusVars, ghostVars
<1>3. DOMAIN snapshot = {"at", "found", "moved", "rest"}
  BY <1>2 DEF SnapshotInv
<1>4. PICK found : found = FoundAfter(snapshot.found, b[1], buckets[b[2]])
  OBVIOUS
<1>5. /\ DOMAIN snapshot' = {"at", "found", "moved", "rest"}
      /\ snapshot'.at = "reading" /\ snapshot'.moved = snapshot.moved
      /\ snapshot'.rest = snapshot.rest \ {b} /\ snapshot'.found = found
  BY <1>1, <1>2, <1>3, <1>4
<1>6. /\ DOMAIN found = DOMAIN snapshot.found \cup DOMAIN buckets[b[2]]
      /\ \A u \in DOMAIN buckets[b[2]] : found[u][1] = b[1]
      /\ \A u \in DOMAIN snapshot.found \ DOMAIN buckets[b[2]] :
           found[u] = snapshot.found[u]
  BY <1>4 DEF FoundAfter, Overridden
<1>7. ASSUME NEW u \in User \ (snapshot.moved \cup cut)
      PROVE  /\ u \in DOMAIN found => u \in DOMAIN byUser /\ found[u][1] = byUser[u]
             /\ u \in DOMAIN byUser =>
                  \/ u \in DOMAIN found
                  \/ <<byUser[u], byCell[byUser[u]]>> \in snapshot.rest \ {b}
             /\ \A other \in snapshot.rest : u \in DOMAIN buckets[other[2]] =>
                  u \in DOMAIN byUser /\ byUser[u] = other[1]
  <2>1. /\ u \in DOMAIN snapshot.found =>
             u \in DOMAIN byUser /\ snapshot.found[u][1] = byUser[u]
        /\ u \in DOMAIN byUser =>
             \/ u \in DOMAIN snapshot.found
             \/ <<byUser[u], byCell[byUser[u]]>> \in snapshot.rest
        /\ \A other \in snapshot.rest : u \in DOMAIN buckets[other[2]] =>
             u \in DOMAIN byUser /\ byUser[u] = other[1]
    BY <1>2 DEF SnapshotInv
  <2>2. ASSUME u \in DOMAIN byUser, b = <<byUser[u], byCell[byUser[u]]>>
        PROVE  u \in DOMAIN buckets[b[2]]
    BY <2>2 DEF IInv, Membership, UsersIn, PositionsOf
  <2>3. QED
    BY <1>6, <2>1, <2>2
<1>8. \A other \in snapshot.rest :
        /\ other[2] \in 1..Len(buckets)
        /\ \A y \in DOMAIN byCell : byCell[y] = other[2] => y = other[1]
  BY <1>2 DEF SnapshotInv
<1>9. QED
  BY <1>2, <1>5, <1>7, <1>8 DEF SnapshotInv

LEMMA SnapshotStepInv == IInv /\ SnapshotInv /\ [Next]_vars => SnapshotInv'
<1> SUFFICES ASSUME IInv, SnapshotInv, [Next]_vars PROVE SnapshotInv'
  OBVIOUS
<1>1. ASSUME NEW u \in User, Handling(u)
      PROVE  \/ UNCHANGED <<focusVars, cut, snapshot>>
             \/ Shift(u) \/ SetFocus(u) \/ ClearCell(u)
  BY <1>1 DEF Handling, CommitEdit, ReportCursor, InsertCell, DeleteCell,
              TakeBucket, ghostVars
<1>2. ASSUME NEW u \in User, Ending(u)
      PROVE  \/ UNCHANGED <<focusVars, cut, snapshot>>
             \/ ClearUser(u) \/ SetFocusCut(u) \/ ClearCellCut(u)
  BY <1>2 DEF Ending, Disconnect, Aborted, ghostVars
<1>3. UNCHANGED vars => UNCHANGED <<focusVars, cut, snapshot>>
  BY DEF vars, ghostVars
<1>4. QED
  BY <1>1, <1>2, <1>3, StaySnapshotInv, ShiftSnapshotInv, SetFocusSnapshotInv,
     ClearCellSnapshotInv, ClearUserSnapshotInv, SetFocusCutSnapshotInv,
     BeginSnapshotInv, ReadBucketInv
  DEF Next

\* A snapshot has everybody who stays, in the cell the index says, whatever the
\* others do between the reading of one bucket and that of the next
\* (focus.rs, users_snapshot).
THEOREM SnapshotHasThoseWhoStayAlways == Spec => []SnapshotHasThoseWhoStay
<1>1. Init => SnapshotInv
  BY DEF Init, SnapshotInv
<1>2. SnapshotInv => SnapshotHasThoseWhoStay
  BY DEF SnapshotInv, SnapshotHasThoseWhoStay
<1>3. QED
  BY InitInv, StepInv, SnapshotStepInv, <1>1, <1>2, PTL DEF Spec

\* Cells are deleted once, have a bucket only while they are there or after they
\* were deleted, and are kept as the holder keeps them.
CellsInv ==
  /\ DOMAIN cells \subseteq Cell \ deleted /\ deleted \subseteq Cell
  /\ DOMAIN byCell \subseteq DOMAIN cells \cup deleted
  /\ \A x \in DOMAIN cells : WellKept(cells[x])

PositionsInv ==
  \A b \in 1..Len(buckets) : \A w \in DOMAIN buckets[b] : buckets[b][w] \in Nat

\* The task of a user has committed an edit whose shift is still to come.
EditUnderWay(u) == task[u].at \in {"shifting", "holding"}

\* The edit is that of its version, while the cell remembers it ...
EditTask(u) ==
  /\ task[u].cell \in DOMAIN cells \cup deleted
  /\ task[u].operation \in Operation
  /\ task[u].cell \in DOMAIN cells =>
       LET c == cells[task[u].cell]
           v == task[u].version
       IN  /\ v \in 1..c.version
           /\ v > c.base => /\ EditAt(c, v).operation = task[u].operation
                            /\ EditAt(c, v).origin = u

\* ... and of nobody else.
OwnVersion(u) ==
  \A w \in User \ {u} :
    EditUnderWay(w) /\ task[w].cell = task[u].cell => task[w].version # task[u].version

\* A bucket that is held is that of the cell, or of none.
HoldingTask(u) ==
  /\ task[u].bucket \in 1..Len(buckets)
  /\ \A y \in DOMAIN byCell : byCell[y] = task[u].bucket => y = task[u].cell
  /\ task[u].cell \in DOMAIN cells =>
       task[u].cell \in DOMAIN byCell /\ byCell[task[u].cell] = task[u].bucket

SettingTask(u) ==
  /\ task[u].cell \in DOMAIN cells \cup deleted
  /\ task[u].position \in Nat /\ task[u].version \in Nat
  /\ task[u].cell \in DOMAIN cells => task[u].version <= cells[task[u].cell].version

TaskInv(u) ==
  /\ EditUnderWay(u) => EditTask(u) /\ OwnVersion(u)
  /\ task[u].at = "holding" => HoldingTask(u)
  /\ task[u].at = "setting" => SettingTask(u)
  /\ task[u].at = "clearing" => task[u].cell \in deleted

TasksInv == \A u \in User : TaskInv(u)

\* Who is here, or has something under way, is in no bucket but that of its cell:
\* setting its focus again takes it out of every other.
Active(u) == session[u] = "here" \/ task[u] # Idle

OwnInv ==
  \A u \in User : Active(u) =>
    \A x \in DOMAIN byCell : u \in UsersIn(x) => u \in DOMAIN byUser /\ byUser[u] = x

\* The position of u in x has met the edits up to version s, and all those after
\* it are under way.
Placed(x, u, s) ==
  LET c == cells[x]
      r == report[u]
  IN  /\ s \in r.version..c.version
      /\ Unshifted(x) = s + 1..c.version
      /\ r.version >= c.base =>
           PositionsOf(x)[u] = PositionOver(Stretch(c, r.version, s), r.position, u)

Place(x, u) ==
  /\ u \in DOMAIN report /\ report[u].version \in Nat /\ report[u].position \in Nat
  /\ \E s : Placed(x, u, s)

PlacesInv ==
  \A x \in DOMAIN cells \cap DOMAIN byCell : \A u \in UsersIn(x) \ raced : Place(x, u)

CursorsInv == CellsInv /\ PositionsInv /\ TasksInv /\ OwnInv /\ PlacesInv

----------------------------------------------------------------------------

\* A task that is, and becomes, no edit of y.
LEMMA UnshiftedElsewhere ==
  ASSUME LateInv, NEW u \in User, NEW t, SetTask(u, t), NEW y,
         ~(EditUnderWay(u) /\ task[u].cell = y),
         ~(t.at \in {"shifting", "holding"} /\ t.cell = y)
  PROVE  Unshifted(y)' = Unshifted(y)
<1>1. /\ DOMAIN task = User /\ task'[u] = t
      /\ \A w \in User \ {u} : task'[w] = task[w]
  BY OtherTasksLate DEF LateInv
<1>2. \A w \in User : /\ task'[w].at \in {"shifting", "holding"} /\ task'[w].cell = y
                           <=> task[w].at \in {"shifting", "holding"} /\ task[w].cell = y
                      /\ task[w].at \in {"shifting", "holding"} /\ task[w].cell = y
                           => task'[w] = task[w]
  BY <1>1 DEF EditUnderWay
<1>3. PICK S : S = {w \in User : /\ task[w].at \in {"shifting", "holding"}
                                 /\ task[w].cell = y}
  OBVIOUS
<1>4. S = {w \in User : /\ task'[w].at \in {"shifting", "holding"}
                        /\ task'[w].cell = y}
  BY <1>2, <1>3
<1>5. Unshifted(y) = {task[w].version : w \in S} /\ Unshifted(y)' = {task'[w].version : w \in S}
  BY <1>3, <1>4 DEF Unshifted
<1>6. \A w \in S : task'[w] = task[w]
  BY <1>2, <1>3
<1>7. QED
  BY <1>5, <1>6

\* A cell that may have been edited.
Grown(c, d) ==
  /\ c.version <= d.version /\ c.base <= d.base
  /\ \A v \in d.base + 1..c.version : EditAt(d, v) = EditAt(c, v)

LEMMA GrownItself ==
  ASSUME NEW c, WellKept(c)
  PROVE  Grown(c, c)
BY DEF WellKept, IsSequence, Grown

\* What the others have under way is not disturbed.
LEMMA TasksGoOn ==
  ASSUME CellsInv, TasksInv, NEW u \in User, \A w \in User \ {u} : task'[w] = task[w],
         DOMAIN cells \cup deleted \subseteq DOMAIN cells' \cup deleted',
         deleted \subseteq deleted',
         \A x \in DOMAIN cells' : x \in DOMAIN cells => Grown(cells[x], cells'[x]),
         \A x \in DOMAIN cells' : WellKept(cells'[x]),
         \A x \in DOMAIN cells' : x \in DOMAIN cells \/ x \notin deleted,
         Len(buckets) \in Nat, Len(buckets') \in Nat, Len(buckets) <= Len(buckets'),
         \A y \in DOMAIN byCell' : \/ y \in DOMAIN byCell /\ byCell'[y] = byCell[y]
                                   \/ byCell'[y] \in Nat /\ byCell'[y] > Len(buckets),
         \A y \in DOMAIN byCell \cap DOMAIN cells' :
           y \in DOMAIN byCell' /\ byCell'[y] = byCell[y],
         TaskInv(u)'
  PROVE  TasksInv'
<1> SUFFICES ASSUME NEW w \in User \ {u} PROVE TaskInv(w)'
  BY DEF TasksInv
<1>1. task'[w] = task[w] /\ TaskInv(w)
  BY DEF TasksInv
<1>2. PICK t : t = task[w]
  OBVIOUS
<1>3. EditUnderWay(w)' => EditTask(w)'
  <2> SUFFICES ASSUME EditUnderWay(w)' PROVE EditTask(w)'
    OBVIOUS
  <2>1. EditTask(w)
    BY <1>1 DEF EditUnderWay, TaskInv
  <2>2. PICK x : x = t.cell
    OBVIOUS
  <2>3. x \in DOMAIN cells' \cup deleted' /\ t.operation \in Operation
    BY <1>2, <2>1, <2>2 DEF EditTask
  <2>4. ASSUME x \in DOMAIN cells'
        PROVE  /\ t.version \in 1..cells'[x].version
               /\ t.version > cells'[x].base =>
                    /\ EditAt(cells'[x], t.version).operation = t.operation
                    /\ EditAt(cells'[x], t.version).origin = w
    <3>1. x \in DOMAIN cells
      BY <1>2, <2>1, <2>2, <2>4 DEF EditTask
    <3>2. PICK c, d : c = cells[x] /\ d = cells'[x]
      OBVIOUS
    <3>3. WellKept(c) /\ WellKept(d) /\ Grown(c, d)
      BY <2>4, <3>1, <3>2 DEF CellsInv
    <3>4. PICK v : v = t.version
      OBVIOUS
    <3>5. /\ v \in 1..c.version
          /\ v > c.base => EditAt(c, v).operation = t.operation /\ EditAt(c, v).origin = w
      BY <1>2, <2>1, <2>2, <3>1, <3>2, <3>4 DEF EditTask
    <3>6. c.version \in Nat /\ d.version \in Nat /\ c.base \in Nat /\ d.base \in Nat
      BY <3>3 DEF WellKept, IsSequence
    <3>7. v \in 1..d.version
      BY <3>3, <3>5, <3>6 DEF Grown
    <3>8. ASSUME v > d.base PROVE v > c.base /\ EditAt(d, v) = EditAt(c, v)
      <4>1. v \in d.base + 1..c.version /\ v > c.base
        BY <3>3, <3>5, <3>6, <3>8 DEF Grown
      <4>2. QED
        BY <3>3, <4>1 DEF Grown
    <3>9. QED
      BY <3>2, <3>4, <3>5, <3>7, <3>8
  <2>5. QED
    BY <1>1, <1>2, <2>2, <2>3, <2>4 DEF EditTask
<1>4. EditUnderWay(w)' => OwnVersion(w)'
  <2> SUFFICES ASSUME EditUnderWay(w)' PROVE OwnVersion(w)'
    OBVIOUS
  <2>1. EditUnderWay(w) /\ OwnVersion(w)
    BY <1>1 DEF EditUnderWay, TaskInv
  <2>2. ASSUME NEW o \in User \ {w}, EditUnderWay(o)', task'[o].cell = task'[w].cell
        PROVE  task'[o].version # task'[w].version
    <3>1. CASE o = u
      <4>1. OwnVersion(u)'
        BY <2>2, <3>1 DEF TaskInv
      <4>2. QED
        BY <2>2, <3>1, <4>1 DEF OwnVersion
    <3>2. CASE o # u
      <4>1. task'[o] = task[o]
        BY <2>2, <3>2
      <4>2. QED
        BY <1>1, <2>1, <2>2, <4>1 DEF OwnVersion, EditUnderWay
    <3>3. QED
      BY <3>1, <3>2
  <2>3. QED
    BY <2>2 DEF OwnVersion
<1>5. task'[w].at = "holding" => HoldingTask(w)'
  <2> SUFFICES ASSUME t.at = "holding" PROVE HoldingTask(w)'
    BY <1>1, <1>2
  <2>1. HoldingTask(w) /\ EditTask(w)
    BY <1>1, <1>2 DEF TaskInv, EditUnderWay
  <2>2. PICK k, x : k = t.bucket /\ x = t.cell
    OBVIOUS
  <2>3. /\ k \in 1..Len(buckets) /\ \A y \in DOMAIN byCell : byCell[y] = k => y = x
        /\ x \in DOMAIN cells => x \in DOMAIN byCell /\ byCell[x] = k
        /\ x \in DOMAIN cells \cup deleted
    BY <1>2, <2>1, <2>2 DEF HoldingTask, EditTask
  <2>4. k \in 1..Len(buckets')
    BY <2>3
  <2>5. \A y \in DOMAIN byCell' : byCell'[y] = k => y = x
    BY <2>3
  <2>6. x \in DOMAIN cells' => x \in DOMAIN byCell' /\ byCell'[x] = k
    BY <2>3
  <2>7. QED
    BY <1>1, <1>2, <2>2, <2>4, <2>5, <2>6 DEF HoldingTask
<1>6. task'[w].at = "setting" => SettingTask(w)'
  <2> SUFFICES ASSUME t.at = "setting" PROVE SettingTask(w)'
    BY <1>1, <1>2
  <2>1. SettingTask(w)
    BY <1>1, <1>2 DEF TaskInv
  <2>2. PICK x, v : x = t.cell /\ v = t.version
    OBVIOUS
  <2>3. /\ x \in DOMAIN cells \cup deleted /\ t.position \in Nat /\ v \in Nat
        /\ x \in DOMAIN cells => v <= cells[x].version
    BY <1>2, <2>1, <2>2 DEF SettingTask
  <2>4. ASSUME x \in DOMAIN cells' PROVE v <= cells'[x].version
    <3>1. x \in DOMAIN cells
      BY <2>3, <2>4
    <3>2. cells[x].version \in Nat /\ cells'[x].version \in Nat
      <4>1. WellKept(cells[x]) /\ WellKept(cells'[x])
        BY <2>4, <3>1 DEF CellsInv
      <4>2. QED
        BY <4>1 DEF WellKept, IsSequence
    <3>3. cells[x].version <= cells'[x].version
      BY <2>4, <3>1 DEF Grown
    <3>4. QED
      BY <2>3, <3>1, <3>2, <3>3
  <2>5. QED
    BY <1>1, <1>2, <2>2, <2>3, <2>4 DEF SettingTask
<1>7. task'[w].at = "clearing" => task'[w].cell \in deleted'
  BY <1>1 DEF TaskInv
<1>8. QED
  BY <1>3, <1>4, <1>5, <1>6, <1>7 DEF TaskInv

\* Whoever was in a bucket is in its bucket still, or in that of its new cell.
LEMMA OwnGoesOn ==
  ASSUME OwnInv,
         \A w \in User : Active(w)' =>
           /\ Active(w)
           /\ \A y \in DOMAIN byCell' : w \in UsersIn(y)' =>
                \/ /\ y \in DOMAIN byCell /\ w \in UsersIn(y)
                   /\ (w \in DOMAIN byUser /\ byUser[w] = y) =>
                        (w \in DOMAIN byUser' /\ byUser'[w] = y)
                \/ w \in DOMAIN byUser' /\ byUser'[w] = y
  PROVE  OwnInv'
BY DEF OwnInv

\* What a position depends on.
SamePlace(x, w) ==
  /\ x \in DOMAIN cells \cap DOMAIN byCell /\ w \in UsersIn(x) \ raced
  /\ cells'[x] = cells[x] /\ Unshifted(x)' = Unshifted(x)
  /\ w \in DOMAIN report' /\ report'[w] = report[w]
  /\ PositionsOf(x)'[w] = PositionsOf(x)[w]

LEMMA PlacesGoOn ==
  ASSUME PlacesInv,
         \A x \in DOMAIN cells' \cap DOMAIN byCell' : \A w \in UsersIn(x)' \ raced' :
           SamePlace(x, w) \/ Place(x, w)'
  PROVE  PlacesInv'
<1>1. ASSUME NEW x, NEW w, SamePlace(x, w) PROVE Place(x, w)'
  <2>1. Place(x, w)
    BY <1>1 DEF PlacesInv, SamePlace
  <2>2. PICK s : Placed(x, w, s)
    BY <2>1 DEF Place
  <2>3. Placed(x, w, s)'
    BY <1>1, <2>2 DEF Placed, SamePlace
  <2>4. QED
    BY <1>1, <2>1, <2>3 DEF Place, SamePlace
<1>2. QED
  BY <1>1 DEF PlacesInv

\* One character typed or deleted is an edit of the text.
LEMMA SmallEditsFit ==
  ASSUME NEW t \in Text, NEW operation \in Edits(t)
  PROVE  Fits(operation, t)
<1>1. CASE \E p \in 0..Len(t), ch \in Char : operation = InsertTextAt(Len(t), p, <<ch>>)
  BY <1>1, InsertTextAtFits
<1>2. CASE \E p \in 0..Len(t) - 1 : operation = DeleteRange(Len(t), p, p + 1)
  BY <1>2, DeleteRangeFits
<1>3. \/ \E p \in 0..Len(t), ch \in Char : operation = InsertTextAt(Len(t), p, <<ch>>)
      \/ \E p \in 0..Len(t) - 1 : operation = DeleteRange(Len(t), p, p + 1)
  BY SMT DEF Edits
<1>4. QED
  BY <1>1, <1>2, <1>3

\* The facts every step needs.
LEMMA CursorsFacts ==
  ASSUME IInv, LateInv, CursorsInv
  PROVE  /\ IsSequence(buckets) /\ Len(buckets) \in Nat
         /\ DOMAIN task = User /\ DOMAIN session = User
         /\ \A y \in DOMAIN byCell : byCell[y] \in 1..Len(buckets)
         /\ \A x, y \in DOMAIN byCell : byCell[x] = byCell[y] => x = y
         /\ CellsInv /\ PositionsInv /\ TasksInv /\ OwnInv /\ PlacesInv
         /\ \A x \in DOMAIN cells : WellKept(cells[x]) /\ Grown(cells[x], cells[x])
BY GrownItself DEF IInv, LateInv, IsSequence, CursorsInv, CellsInv

LEMMA SameUsers ==
  ASSUME UNCHANGED <<byCell, buckets>>, NEW x
  PROVE  UsersIn(x)' = UsersIn(x) /\ PositionsOf(x)' = PositionsOf(x)
BY DEF UsersIn, PositionsOf

LEMMA CommitEditCursors ==
  ASSUME IInv, LateInv, CursorsInv, NEW u \in User, NEW x \in DOMAIN cells,
         NEW operation \in Edits(cells[x].content), CommitEdit(u, x, operation)
  PROVE  CursorsInv'
<1>1. PICK c : c = cells[x]
  OBVIOUS
<1>2. PICK d : d = Edited(c, c.version, operation, u)
  OBVIOUS
<1>3. PICK t : t = [at |-> "shifting", cell |-> x, version |-> d.version,
                    operation |-> operation]
  OBVIOUS
<1>4. /\ task[u] = Idle /\ SetTask(u, t) /\ cells' = [cells EXCEPT ![x] = d]
      /\ deleted' = deleted /\ byUser' = byUser /\ byCell' = byCell
      /\ buckets' = buckets /\ session' = session /\ report' = report /\ raced' = raced
      /\ session[u] = "here"
  BY <1>1, <1>2, <1>3 DEF CommitEdit, Handles, focusVars, ghostVars
<1>5. /\ t.at = "shifting" /\ t.cell = x /\ t.version = d.version /\ t.operation = operation
  BY <1>3
<1>6. /\ task'[u] = t /\ \A w \in User \ {u} : task'[w] = task[w]
  BY <1>4, OtherTasksLate
<1>7. /\ IsSequence(buckets) /\ Len(buckets) \in Nat
      /\ CellsInv /\ PositionsInv /\ TasksInv /\ OwnInv /\ PlacesInv
      /\ \A y \in DOMAIN cells : WellKept(cells[y]) /\ Grown(cells[y], cells[y])
  BY CursorsFacts
<1>8. WellKept(c) /\ Fits(operation, c.content)
  BY <1>1, <1>7, SmallEditsFit DEF WellKept
<1>9. /\ WellKept(d)
      /\ d.version = c.version + 1 /\ d.base \in c.base..c.base + 1
      /\ \A v \in d.base + 1..c.version : EditAt(d, v) = EditAt(c, v)
      /\ d.version > d.base => /\ EditAt(d, d.version).operation = operation
                               /\ EditAt(d, d.version).origin = u
  <2>1. LET e == Edited(c, c.version, operation, u)
        IN  /\ WellKept(e)
            /\ e.version = c.version + 1 /\ e.base \in c.base..c.base + 1
            /\ \A v \in e.base + 1..c.version : EditAt(e, v) = EditAt(c, v)
            /\ e.version > e.base => /\ EditAt(e, e.version).operation = operation
                                     /\ EditAt(e, e.version).origin = u
    BY <1>8, EditKeepsCell
  <2>2. QED
    BY <1>2, <2>1
<1>10. c.version \in Nat /\ c.base \in Nat /\ d.version \in Nat /\ d.base \in Nat
  BY <1>8, <1>9 DEF WellKept, IsSequence
<1>11. Grown(c, d)
  BY <1>9, <1>10 DEF Grown
<1>12. /\ DOMAIN cells' = DOMAIN cells /\ cells'[x] = d
       /\ \A y \in DOMAIN cells \ {x} : cells'[y] = cells[y]
  BY <1>4
<1>13. CellsInv'
  BY <1>4, <1>7, <1>9, <1>12 DEF CellsInv
<1>14. PositionsInv'
  BY <1>4, <1>7 DEF PositionsInv
<1>15. TaskInv(u)'
  <2>1. EditTask(u)'
    <3>1. d.version \in 1..d.version
      BY <1>9, <1>10
    <3>2. operation \in Operation
      BY <1>8 DEF Fits
    <3>3. QED
      BY <1>4, <1>5, <1>6, <1>9, <1>12, <3>1, <3>2 DEF EditTask
  <2>2. OwnVersion(u)'
    <3>1. ASSUME NEW w \in User \ {u}, EditUnderWay(w)', task'[w].cell = x
          PROVE  task'[w].version # d.version
      <4>1. task'[w] = task[w] /\ EditUnderWay(w) /\ task[w].cell = x
        BY <1>6, <3>1 DEF EditUnderWay
      <4>2. EditTask(w)
        BY <1>7, <4>1 DEF TasksInv, TaskInv
      <4>3. task[w].version \in 1..c.version
        BY <1>1, <4>1, <4>2 DEF EditTask
      <4>4. QED
        BY <1>9, <1>10, <4>1, <4>3
    <3>2. QED
      BY <1>5, <1>6, <3>1 DEF OwnVersion
  <2>3. QED
    BY <1>5, <1>6, <2>1, <2>2 DEF TaskInv
<1>16. TasksInv'
  <2>1. \A y \in DOMAIN cells' : WellKept(cells'[y])
    BY <1>13 DEF CellsInv
  <2>2. \A y \in DOMAIN cells' : Grown(cells[y], cells'[y])
    BY <1>1, <1>7, <1>11, <1>12
  <2>3. QED
    BY <1>4, <1>6, <1>7, <1>12, <1>15, <2>1, <2>2, TasksGoOn
<1>17. OwnInv'
  <2>1. \A w \in User : Active(w)' => Active(w)
    BY <1>4, <1>6 DEF Active
  <2>2. \A y : UsersIn(y)' = UsersIn(y)
    BY <1>4, SameUsers
  <2>3. QED
    BY <1>4, <1>7, <2>1, <2>2, OwnGoesOn
<1>18. PlacesInv'
  <2>1. ASSUME NEW y \in DOMAIN cells' \cap DOMAIN byCell', NEW w \in UsersIn(y)' \ raced'
        PROVE  SamePlace(y, w) \/ Place(y, w)'
    <3>1. /\ y \in DOMAIN cells \cap DOMAIN byCell /\ w \in UsersIn(y) \ raced
          /\ PositionsOf(y)' = PositionsOf(y)
      BY <1>4, <1>12, <2>1, SameUsers
    <3>2. Place(y, w)
      BY <1>7, <3>1 DEF PlacesInv
    <3>3. CASE y # x
      <4>1. Unshifted(y)' = Unshifted(y)
        <5>1. ~(EditUnderWay(u) /\ task[u].cell = y)
          BY <1>4 DEF EditUnderWay, Idle
        <5>2. ~(t.at \in {"shifting", "holding"} /\ t.cell = y)
          BY <1>5, <3>3
        <5>3. QED
          BY <1>4, <5>1, <5>2, UnshiftedElsewhere
      <4>2. QED
        BY <1>4, <1>12, <3>1, <3>2, <3>3, <4>1 DEF SamePlace, Place
    <3>4. CASE y = x
      <4>1. PICK s : Placed(x, w, s)
        BY <3>2, <3>4 DEF Place
      <4>2. PICK r : r = report[w]
        OBVIOUS
      <4>3. /\ s \in r.version..c.version /\ r.version \in Nat /\ r.position \in Nat
            /\ Unshifted(x) = s + 1..c.version
            /\ r.version >= c.base =>
                 PositionsOf(x)[w] = PositionOver(Stretch(c, r.version, s), r.position, w)
        BY <1>1, <3>2, <4>1, <4>2 DEF Placed, Place
      <4>4. Unshifted(x)' = Unshifted(x) \cup {d.version}
        <5>1. PICK S, T :
                /\ S = {o \in User : /\ task[o].at \in {"shifting", "holding"}
                                     /\ task[o].cell = x}
                /\ T = {o \in User : /\ task'[o].at \in {"shifting", "holding"}
                                     /\ task'[o].cell = x}
          OBVIOUS
        <5>2. u \notin S
          BY <1>4, <5>1 DEF Idle
        <5>3. T = S \cup {u} /\ \A o \in S : task'[o] = task[o]
          BY <1>5, <1>6, <5>1, <5>2
        <5>4. Unshifted(x) = {task[o].version : o \in S}
              /\ Unshifted(x)' = {task'[o].version : o \in T}
          BY <5>1 DEF Unshifted
        <5>5. QED
          BY <1>5, <1>6, <5>3, <5>4
      <4>5. s + 1..d.version = (s + 1..c.version) \cup {d.version}
        BY <1>9, <1>10, <4>3
      <4>6. s \in r.version..d.version
        BY <1>9, <1>10, <4>3
      <4>7. ASSUME r.version >= d.base
            PROVE  PositionsOf(x)[w] = PositionOver(Stretch(d, r.version, s), r.position, w)
        <5>1. PICK a : a = r.version
          OBVIOUS
        <5>2. a >= c.base /\ a \in Nat /\ s \in Nat
          BY <1>9, <1>10, <4>3, <4>7, <5>1
        <5>3. \A v \in a + 1..s : v \in d.base + 1..c.version
          BY <1>10, <4>3, <4>7, <5>1, <5>2
        <5>4. \A v \in a + 1..s : EditAt(d, v) = EditAt(c, v)
          BY <1>9, <5>3
        <5>5. Stretch(d, a, s) = Stretch(c, a, s)
          BY <5>2, <5>4, SameStretch
        <5>6. QED
          BY <4>3, <5>1, <5>2, <5>5
      <4>8. Placed(x, w, s)'
        BY <1>4, <1>12, <3>1, <3>4, <4>2, <4>3, <4>4, <4>5, <4>6, <4>7 DEF Placed
      <4>9. QED
        BY <1>4, <3>2, <3>4, <4>8 DEF Place
    <3>5. QED
      BY <3>3, <3>4
  <2>2. QED
    BY <1>7, <2>1, PlacesGoOn
<1>19. QED
  BY <1>13, <1>14, <1>16, <1>17, <1>18 DEF CursorsInv

----------------------------------------------------------------------------
(* The steps that change neither the cells nor the focus. *)

LEMMA QuietCursors ==
  ASSUME IInv, LateInv, CursorsInv, NEW u \in User,
         UNCHANGED <<cells, deleted, byUser, byCell, buckets, report>>,
         raced \subseteq raced',
         \A w \in User \ {u} : task'[w] = task[w],
         \A w \in User : Active(w)' => Active(w),
         TaskInv(u)',
         \A x \in DOMAIN cells \cap DOMAIN byCell :
           Unshifted(x)' = Unshifted(x) \/ UsersIn(x) \subseteq raced'
  PROVE  CursorsInv'
<1>7. /\ IsSequence(buckets) /\ Len(buckets) \in Nat
      /\ CellsInv /\ PositionsInv /\ TasksInv /\ OwnInv /\ PlacesInv
      /\ \A y \in DOMAIN cells : WellKept(cells[y]) /\ Grown(cells[y], cells[y])
  BY CursorsFacts
<1>1. CellsInv' /\ PositionsInv'
  BY <1>7 DEF CellsInv, PositionsInv
<1>2. TasksInv'
  BY <1>7, TasksGoOn
<1>3. OwnInv'
  <2>1. \A y : UsersIn(y)' = UsersIn(y)
    BY SameUsers
  <2>2. QED
    BY <1>7, <2>1, OwnGoesOn
<1>4. PlacesInv'
  <2>1. ASSUME NEW y \in DOMAIN cells' \cap DOMAIN byCell', NEW w \in UsersIn(y)' \ raced'
        PROVE  SamePlace(y, w)
    <3>1. /\ y \in DOMAIN cells \cap DOMAIN byCell /\ w \in UsersIn(y) \ raced
          /\ PositionsOf(y)' = PositionsOf(y)
      BY <2>1, SameUsers
    <3>2. Place(y, w) /\ Unshifted(y)' = Unshifted(y)
      BY <1>7, <2>1, <3>1 DEF PlacesInv
    <3>3. QED
      BY <3>1, <3>2 DEF SamePlace, Place
  <2>2. QED
    BY <1>7, <2>1, PlacesGoOn
<1>5. QED
  BY <1>1, <1>2, <1>3, <1>4 DEF CursorsInv

LEMMA IdleTask ==
  ASSUME NEW u, task'[u] = Idle
  PROVE  TaskInv(u)'
BY DEF TaskInv, EditUnderWay, Idle

LEMMA ReportCursorCursors ==
  ASSUME IInv, LateInv, CursorsInv, NEW u \in User, NEW x \in DOMAIN cells,
         NEW base \in 0..cells[x].version, NEW position \in 0..MaxText,
         ReportCursor(u, x, base, position)
  PROVE  CursorsInv'
<1>1. PICK c : c = cells[x]
  OBVIOUS
<1>2. PICK p : p = RebasePosition(c, base, position, u)
  OBVIOUS
<1>3. PICK t : t = Setting(x, p, c.version)
  OBVIOUS
<1>4. /\ task[u] = Idle /\ SetTask(u, t) /\ session[u] = "here"
      /\ UNCHANGED <<cells, deleted, byUser, byCell, buckets, report, raced, session>>
  BY <1>1, <1>2, <1>3 DEF ReportCursor, Handles, focusVars, ghostVars
<1>5. /\ t.at = "setting" /\ t.cell = x /\ t.version = c.version /\ t.position = p
  BY <1>3 DEF Setting
<1>6. /\ task'[u] = t /\ \A w \in User \ {u} : task'[w] = task[w]
  BY <1>4, OtherTasksLate
<1>7. WellKept(c)
  BY <1>1, CursorsFacts
<1>8. c.version \in Nat /\ position \in Nat
  BY <1>7, TextAssumption DEF WellKept, IsSequence
<1>9. p \in Nat
  BY <1>1, <1>2, <1>7, <1>8, RebasedPositionType
<1>10. TaskInv(u)'
  BY <1>1, <1>4, <1>5, <1>6, <1>8, <1>9 DEF TaskInv, EditUnderWay, SettingTask
<1>11. \A w \in User : Active(w)' => Active(w)
  BY <1>4, <1>6 DEF Active
<1>12. \A y : Unshifted(y)' = Unshifted(y)
  <2>1. ~EditUnderWay(u)
    BY <1>4 DEF EditUnderWay, Idle
  <2>2. t.at \notin {"shifting", "holding"}
    BY <1>5
  <2>3. QED
    BY <1>4, <2>1, <2>2, UnshiftedElsewhere
<1>13. QED
  BY <1>4, <1>6, <1>10, <1>11, <1>12, QuietCursors

LEMMA TakeBucketCursors ==
  ASSUME IInv, LateInv, CursorsInv, NEW u \in User, TakeBucket(u)
  PROVE  CursorsInv'
<1>1. PICK t, x : t = task[u] /\ x = task[u].cell
  OBVIOUS
<1>2. PICK n : n = IF x \notin DOMAIN byCell THEN Idle
                   ELSE [at |-> "holding", cell |-> x, bucket |-> byCell[x],
                         version |-> t.version, operation |-> t.operation]
  OBVIOUS
<1>3. /\ t.at = "shifting" /\ SetTask(u, n)
      /\ UNCHANGED <<cells, deleted, byUser, byCell, buckets, report, raced, session>>
  BY <1>1, <1>2 DEF TakeBucket, focusVars, ghostVars
<1>4. /\ task'[u] = n /\ \A w \in User \ {u} : task'[w] = task[w]
  BY <1>3, OtherTasksLate
<1>5. \A w \in User : Active(w)' => Active(w)
  BY <1>1, <1>3, <1>4 DEF Active, Idle
<1>6. \A y : y # x => Unshifted(y)' = Unshifted(y)
  <2>1. ASSUME NEW y, y # x PROVE Unshifted(y)' = Unshifted(y)
    <3>1. ~(EditUnderWay(u) /\ task[u].cell = y)
      BY <1>1, <2>1
    <3>2. ~(n.at \in {"shifting", "holding"} /\ n.cell = y)
      BY <1>2, <2>1 DEF Idle
    <3>3. QED
      BY <1>3, <3>1, <3>2, UnshiftedElsewhere
  <2>2. QED
    BY <2>1
<1>7. CASE x \notin DOMAIN byCell
  <2>1. TaskInv(u)'
    BY <1>2, <1>4, <1>7, IdleTask
  <2>2. QED
    BY <1>3, <1>4, <1>5, <1>6, <1>7, <2>1, QuietCursors
<1>8. CASE x \in DOMAIN byCell
  <2>1. /\ n.at = "holding" /\ n.cell = x /\ n.bucket = byCell[x]
        /\ n.version = t.version /\ n.operation = t.operation
    BY <1>2, <1>8
  <2>2. EditTask(u) /\ OwnVersion(u)
    BY <1>1, <1>3, CursorsFacts DEF TasksInv, TaskInv, EditUnderWay
  <2>3. EditTask(u)'
    BY <1>1, <1>3, <1>4, <2>1, <2>2 DEF EditTask
  <2>4. OwnVersion(u)'
    BY <1>1, <1>4, <2>1, <2>2 DEF OwnVersion, EditUnderWay
  <2>5. HoldingTask(u)'
    <3>1. byCell[x] \in 1..Len(buckets) /\ \A y \in DOMAIN byCell : byCell[y] = byCell[x] => y = x
      BY <1>8, CursorsFacts
    <3>2. QED
      BY <1>3, <1>4, <1>8, <2>1, <3>1 DEF HoldingTask
  <2>6. TaskInv(u)'
    BY <1>4, <2>1, <2>3, <2>4, <2>5 DEF TaskInv
  <2>7. Unshifted(x)' = Unshifted(x)
    <3>1. PICK S : S = {o \in User : /\ task[o].at \in {"shifting", "holding"}
                                     /\ task[o].cell = x}
      OBVIOUS
    <3>2. S = {o \in User : /\ task'[o].at \in {"shifting", "holding"}
                            /\ task'[o].cell = x}
      BY <1>1, <1>3, <1>4, <2>1, <3>1
    <3>3. \A o \in S : task'[o].version = task[o].version
      BY <1>1, <1>4, <2>1, <3>1
    <3>4. /\ Unshifted(x) = {task[o].version : o \in S}
          /\ Unshifted(x)' = {task'[o].version : o \in S}
      BY <3>1, <3>2 DEF Unshifted
    <3>5. QED
      BY <3>3, <3>4
  <2>8. QED
    BY <1>3, <1>4, <1>5, <1>6, <2>6, <2>7, QuietCursors
<1>9. QED
  BY <1>7, <1>8

LEMMA AbortedCursors ==
  ASSUME IInv, LateInv, CursorsInv, NEW u \in User, Aborted(u)
  PROVE  CursorsInv'
<1>1. PICK x : x = task[u].cell
  OBVIOUS
<1>2. /\ session[u] # "here" /\ task[u] # Idle /\ SetTask(u, Idle)
      /\ UNCHANGED <<cells, deleted, byUser, byCell, buckets, report, session>>
      /\ raced \subseteq raced'
      /\ EditUnderWay(u) => UsersIn(x) \subseteq raced'
  BY <1>1 DEF Aborted, focusVars, EditUnderWay
<1>3. /\ task'[u] = Idle /\ \A w \in User \ {u} : task'[w] = task[w]
  BY <1>2, OtherTasksLate
<1>4. \A w \in User : Active(w)' => Active(w)
  BY <1>2, <1>3 DEF Active
<1>5. TaskInv(u)'
  BY <1>3, IdleTask
<1>6. ASSUME NEW y PROVE Unshifted(y)' = Unshifted(y) \/ UsersIn(y) \subseteq raced'
  <2>1. CASE EditUnderWay(u) /\ y = x
    BY <1>2, <2>1
  <2>2. CASE ~(EditUnderWay(u) /\ y = x)
    <3>1. ~(EditUnderWay(u) /\ task[u].cell = y)
      BY <1>1, <2>2
    <3>2. ~(Idle.at \in {"shifting", "holding"} /\ Idle.cell = y)
      BY DEF Idle
    <3>3. Unshifted(y)' = Unshifted(y)
      BY <1>2, <3>1, <3>2, UnshiftedElsewhere
    <3>4. QED
      BY <3>3
  <2>3. QED
    BY <2>1, <2>2
<1>7. QED
  BY <1>2, <1>3, <1>4, <1>5, <1>6, QuietCursors

\* The steps of a connection that ends and of the snapshot.
LEMMA CalmCursors ==
  ASSUME IInv, LateInv, CursorsInv, NEW u \in User,
         UNCHANGED <<cells, deleted, byUser, byCell, buckets, report, raced, task>>,
         \A w \in User : session'[w] = "here" => session[w] = "here"
  PROVE  CursorsInv'
<1>1. \A y : Unshifted(y)' = Unshifted(y)
  BY DEF Unshifted
<1>2. \A w \in User : Active(w)' => Active(w)
  BY DEF Active
<1>3. TaskInv(u)
  BY CursorsFacts DEF TasksInv
<1>4. TaskInv(u)'
  BY <1>3 DEF TaskInv, EditUnderWay, EditTask, OwnVersion, HoldingTask, SettingTask
<1>5. QED
  BY <1>1, <1>2, <1>4, QuietCursors

----------------------------------------------------------------------------
(* The steps that change the cells of the notebook. *)

LEMMA InsertCellCursors ==
  ASSUME IInv, LateInv, CursorsInv, NEW u \in User,
         NEW x \in Cell \ (DOMAIN cells \cup deleted), InsertCell(u, x)
  PROVE  CursorsInv'
<1>1. PICK c, t : c = NewCell(InitialText) /\ t = Setting(x, 0, 0)
  OBVIOUS
<1>2. /\ task[u] = Idle /\ SetTask(u, t) /\ cells' = With(cells, x, c)
      /\ session[u] = "here"
      /\ UNCHANGED <<deleted, byUser, byCell, buckets, report, raced, session>>
  BY <1>1 DEF InsertCell, Handles, focusVars, ghostVars
<1>3. /\ t.at = "setting" /\ t.cell = x /\ t.version = 0 /\ t.position = 0
  BY <1>1 DEF Setting
<1>4. /\ task'[u] = t /\ \A w \in User \ {u} : task'[w] = task[w]
  BY <1>2, OtherTasksLate
<1>5. /\ DOMAIN cells' = DOMAIN cells \cup {x} /\ cells'[x] = c
      /\ \A y \in DOMAIN cells : cells'[y] = cells[y]
  BY <1>2 DEF With
<1>6. WellKept(c) /\ c.version = 0
  BY <1>1, NewCellKept, TextAssumption
<1>7. /\ IsSequence(buckets) /\ Len(buckets) \in Nat
      /\ CellsInv /\ PositionsInv /\ TasksInv /\ OwnInv /\ PlacesInv
      /\ \A y \in DOMAIN cells : WellKept(cells[y]) /\ Grown(cells[y], cells[y])
  BY CursorsFacts
<1>8. x \notin DOMAIN byCell
  BY <1>7 DEF CellsInv
<1>9. CellsInv'
  BY <1>2, <1>5, <1>6, <1>7 DEF CellsInv
<1>10. PositionsInv'
  BY <1>2, <1>7 DEF PositionsInv
<1>11. TasksInv'
  <2>1. TaskInv(u)'
    BY <1>2, <1>3, <1>4, <1>5, <1>6 DEF TaskInv, EditUnderWay, SettingTask
  <2>2. \A y \in DOMAIN cells' : WellKept(cells'[y])
    BY <1>9 DEF CellsInv
  <2>3. QED
    BY <1>2, <1>4, <1>5, <1>7, <2>1, <2>2, TasksGoOn
<1>12. OwnInv'
  <2>1. \A w \in User : Active(w)' => Active(w)
    BY <1>2, <1>4 DEF Active
  <2>2. \A y : UsersIn(y)' = UsersIn(y)
    BY <1>2, SameUsers
  <2>3. QED
    BY <1>2, <1>7, <2>1, <2>2, OwnGoesOn
<1>13. PlacesInv'
  <2>1. ASSUME NEW y \in DOMAIN cells' \cap DOMAIN byCell', NEW w \in UsersIn(y)' \ raced'
        PROVE  SamePlace(y, w)
    <3>1. /\ y \in DOMAIN cells \cap DOMAIN byCell /\ w \in UsersIn(y) \ raced
          /\ PositionsOf(y)' = PositionsOf(y)
      BY <1>2, <1>5, <1>8, <2>1, SameUsers
    <3>2. ~(EditUnderWay(u) /\ task[u].cell = y)
      BY <1>2 DEF EditUnderWay, Idle
    <3>3. ~(t.at \in {"shifting", "holding"} /\ t.cell = y)
      BY <1>3
    <3>4. Unshifted(y)' = Unshifted(y)
      BY <1>2, <3>2, <3>3, UnshiftedElsewhere
    <3>5. Place(y, w)
      BY <1>7, <3>1 DEF PlacesInv
    <3>6. QED
      BY <1>2, <1>5, <3>1, <3>4, <3>5 DEF SamePlace, Place
  <2>2. QED
    BY <1>7, <2>1, PlacesGoOn
<1>14. QED
  BY <1>9, <1>10, <1>11, <1>12, <1>13 DEF CursorsInv

LEMMA DeleteCellCursors ==
  ASSUME IInv, LateInv, CursorsInv, NEW u \in User,
         NEW x \in DOMAIN cells \cup deleted, DeleteCell(u, x)
  PROVE  CursorsInv'
<1>1. PICK t : t = [at |-> "clearing", cell |-> x]
  OBVIOUS
<1>2. /\ task[u] = Idle /\ SetTask(u, t) /\ cells' = Without(cells, x)
      /\ deleted' = deleted \cup {x} /\ session[u] = "here"
      /\ UNCHANGED <<byUser, byCell, buckets, report, raced, session>>
  BY <1>1 DEF DeleteCell, Removed, Handles, focusVars, ghostVars
<1>3. t.at = "clearing" /\ t.cell = x
  BY <1>1
<1>4. /\ task'[u] = t /\ \A w \in User \ {u} : task'[w] = task[w]
  BY <1>2, OtherTasksLate
<1>5. /\ DOMAIN cells' = DOMAIN cells \ {x}
      /\ \A y \in DOMAIN cells' : cells'[y] = cells[y]
  BY <1>2 DEF Without
<1>7. /\ IsSequence(buckets) /\ Len(buckets) \in Nat
      /\ CellsInv /\ PositionsInv /\ TasksInv /\ OwnInv /\ PlacesInv
      /\ \A y \in DOMAIN cells : WellKept(cells[y]) /\ Grown(cells[y], cells[y])
  BY CursorsFacts
<1>9. CellsInv'
  BY <1>2, <1>5, <1>7 DEF CellsInv
<1>10. PositionsInv'
  BY <1>2, <1>7 DEF PositionsInv
<1>11. TasksInv'
  <2>1. TaskInv(u)'
    BY <1>2, <1>3, <1>4 DEF TaskInv, EditUnderWay
  <2>2. \A y \in DOMAIN cells' : WellKept(cells'[y]) /\ y \in DOMAIN cells
    BY <1>5, <1>9 DEF CellsInv
  <2>3. QED
    BY <1>2, <1>4, <1>5, <1>7, <2>1, <2>2, TasksGoOn
<1>12. OwnInv'
  <2>1. \A w \in User : Active(w)' => Active(w)
    BY <1>2, <1>4 DEF Active
  <2>2. \A y : UsersIn(y)' = UsersIn(y)
    BY <1>2, SameUsers
  <2>3. QED
    BY <1>2, <1>7, <2>1, <2>2, OwnGoesOn
<1>13. PlacesInv'
  <2>1. ASSUME NEW y \in DOMAIN cells' \cap DOMAIN byCell', NEW w \in UsersIn(y)' \ raced'
        PROVE  SamePlace(y, w)
    <3>1. /\ y \in DOMAIN cells \cap DOMAIN byCell /\ w \in UsersIn(y) \ raced
          /\ PositionsOf(y)' = PositionsOf(y)
      BY <1>2, <1>5, <2>1, SameUsers
    <3>2. ~(EditUnderWay(u) /\ task[u].cell = y)
      BY <1>2 DEF EditUnderWay, Idle
    <3>3. ~(t.at \in {"shifting", "holding"} /\ t.cell = y)
      BY <1>3
    <3>4. Unshifted(y)' = Unshifted(y)
      BY <1>2, <3>2, <3>3, UnshiftedElsewhere
    <3>5. Place(y, w)
      BY <1>7, <3>1 DEF PlacesInv
    <3>6. QED
      BY <1>2, <1>5, <2>1, <3>1, <3>4, <3>5 DEF SamePlace, Place
  <2>2. QED
    BY <1>7, <2>1, PlacesGoOn
<1>14. QED
  BY <1>9, <1>10, <1>11, <1>12, <1>13 DEF CursorsInv

----------------------------------------------------------------------------
(* The steps of the focus. *)

LEMMA ShiftCursors ==
  ASSUME IInv, LateInv, CursorsInv, NEW u \in User, Shift(u)
  PROVE  CursorsInv'
<1>1. PICK t : t = task[u]
  OBVIOUS
<1>2. PICK k, x : k = t.bucket /\ x = t.cell
  OBVIOUS
<1>3. PICK e : e = Shifted(buckets[k], t.operation, u)
  OBVIOUS
<1>4. /\ t.at = "holding" /\ SetTask(u, Idle) /\ buckets' = Put(buckets, k, e)
      /\ raced' = IF \E v \in Unshifted(x) : v < t.version
                  THEN raced \cup DOMAIN buckets[k] ELSE raced
      /\ UNCHANGED <<cells, deleted, byUser, byCell, report, session>>
  BY <1>1, <1>2, <1>3 DEF Shift, Put
<1>5. /\ task'[u] = Idle /\ \A w \in User \ {u} : task'[w] = task[w] /\ DOMAIN task = User
  BY <1>4, OtherTasksLate DEF LateInv
<1>6. /\ IsSequence(buckets) /\ Len(buckets) \in Nat
      /\ CellsInv /\ PositionsInv /\ TasksInv /\ OwnInv /\ PlacesInv
      /\ \A y \in DOMAIN cells : WellKept(cells[y]) /\ Grown(cells[y], cells[y])
      /\ \A y \in DOMAIN byCell : byCell[y] \in 1..Len(buckets)
  BY CursorsFacts
<1>7. EditTask(u) /\ OwnVersion(u) /\ HoldingTask(u)
  BY <1>1, <1>4, <1>6 DEF TasksInv, TaskInv, EditUnderWay
<1>8. /\ k \in 1..Len(buckets)
      /\ \A y \in DOMAIN byCell : byCell[y] = k => y = x
      /\ x \in DOMAIN cells => x \in DOMAIN byCell /\ byCell[x] = k
  BY <1>1, <1>2, <1>7 DEF HoldingTask
<1>9. /\ IsSequence(buckets') /\ Len(buckets') = Len(buckets)
      /\ buckets'[k] = e
      /\ \A i \in 1..Len(buckets) : i # k => buckets'[i] = buckets[i]
  BY <1>4, <1>6, <1>8, PutEffect
<1>10. PICK o : o = t.operation
  OBVIOUS
<1>11. o \in Operation
  BY <1>1, <1>7, <1>10 DEF EditTask
<1>12. DOMAIN e = DOMAIN buckets[k]
       /\ \A w \in DOMAIN e : e[w] = TransformPosition(buckets[k][w], o, w = u)
  BY <1>3, <1>10 DEF Shifted
<1>13. CellsInv'
  BY <1>4, <1>6 DEF CellsInv
<1>14. PositionsInv'
  <2>1. ASSUME NEW w \in DOMAIN e PROVE e[w] \in Nat
    <3>1. PICK own : own = (w = u)
      OBVIOUS
    <3>2. own \in BOOLEAN
      BY <3>1
    <3>3. Orderly(o, own)
      BY <1>11, <3>2, PositionsOrderly
    <3>4. buckets[k][w] \in Nat
      BY <1>6, <1>8, <1>12, <2>1 DEF PositionsInv
    <3>5. TransformPosition(buckets[k][w], o, own) \in Nat
      BY <3>3, <3>4 DEF Orderly
    <3>6. QED
      BY <1>12, <2>1, <3>1, <3>5
  <2>2. QED
    BY <1>6, <1>9, <2>1 DEF PositionsInv
<1>15. TasksInv'
  <2>1. TaskInv(u)'
    BY <1>5, IdleTask
  <2>2. \A y \in DOMAIN cells' : WellKept(cells'[y]) /\ Grown(cells[y], cells'[y])
    BY <1>4, <1>6
  <2>3. QED
    BY <1>4, <1>5, <1>6, <1>9, <2>1, <2>2, TasksGoOn
<1>16. \A y \in DOMAIN byCell : /\ UsersIn(y)' = UsersIn(y)
                                /\ y # x => PositionsOf(y)' = PositionsOf(y)
  <2>1. \A i \in 1..Len(buckets) : DOMAIN buckets'[i] = DOMAIN buckets[i]
    BY <1>9, <1>12
  <2>2. QED
    BY <1>4, <1>6, <1>8, <1>9, <2>1 DEF UsersIn, PositionsOf
<1>17. OwnInv'
  <2>1. \A w \in User : Active(w)' => Active(w)
    BY <1>4, <1>5 DEF Active
  <2>2. QED
    BY <1>4, <1>6, <1>16, <2>1, OwnGoesOn
<1>18. \A y : y # x => Unshifted(y)' = Unshifted(y)
  <2>1. ASSUME NEW y, y # x PROVE Unshifted(y)' = Unshifted(y)
    <3>1. ~(EditUnderWay(u) /\ task[u].cell = y)
      BY <1>1, <1>2, <2>1
    <3>2. ~(Idle.at \in {"shifting", "holding"} /\ Idle.cell = y)
      BY DEF Idle
    <3>3. QED
      BY <1>4, <3>1, <3>2, UnshiftedElsewhere
  <2>2. QED
    BY <2>1
<1>19. Unshifted(x)' = Unshifted(x) \ {t.version} /\ t.version \in Unshifted(x)
  <2>1. PICK S, T :
          /\ S = {w \in User : /\ task[w].at \in {"shifting", "holding"}
                               /\ task[w].cell = x}
          /\ T = {w \in User : /\ task'[w].at \in {"shifting", "holding"}
                               /\ task'[w].cell = x}
    OBVIOUS
  <2>2. u \in S /\ u \notin T
    BY <1>1, <1>2, <1>4, <1>5, <2>1 DEF Idle
  <2>3. T = S \ {u} /\ \A w \in T : task'[w] = task[w]
    BY <1>5, <2>1, <2>2
  <2>4. \A w \in T : task[w].version # t.version
    <3>1. ASSUME NEW w \in T PROVE task[w].version # t.version
      <4>1. w \in User \ {u} /\ EditUnderWay(w) /\ task[w].cell = task[u].cell
        BY <1>1, <1>2, <2>1, <2>3, <3>1 DEF EditUnderWay
      <4>2. QED
        BY <1>1, <1>7, <4>1 DEF OwnVersion
    <3>2. QED
      BY <3>1
  <2>5. Unshifted(x) = {task[w].version : w \in S}
        /\ Unshifted(x)' = {task'[w].version : w \in T}
    BY <2>1 DEF Unshifted
  <2>6. Unshifted(x)' = {task[w].version : w \in T}
    BY <2>3, <2>5
  <2>7. QED
    BY <1>1, <2>2, <2>3, <2>4, <2>5, <2>6
<1>20. PlacesInv'
  <2>1. ASSUME NEW y \in DOMAIN cells' \cap DOMAIN byCell', NEW w \in UsersIn(y)' \ raced'
        PROVE  SamePlace(y, w) \/ Place(y, w)'
    <3>1. y \in DOMAIN cells \cap DOMAIN byCell /\ w \in UsersIn(y) \ raced
      BY <1>4, <1>16, <2>1
    <3>2. Place(y, w)
      BY <1>6, <3>1 DEF PlacesInv
    <3>3. CASE y # x
      BY <1>4, <1>16, <1>18, <3>1, <3>2, <3>3 DEF SamePlace, Place
    <3>4. CASE y = x
      <4>1. byCell[x] = k /\ w \in DOMAIN buckets[k] /\ x \in DOMAIN cells /\ byCell' = byCell
        BY <1>4, <1>8, <3>1, <3>4 DEF UsersIn, PositionsOf
      <4>2. ~(\E v \in Unshifted(x) : v < t.version)
        BY <1>4, <2>1, <4>1
      <4>3. PICK s : Placed(x, w, s)
        BY <3>2, <3>4 DEF Place
      <4>4. PICK r, c, v : r = report[w] /\ c = cells[x] /\ v = t.version
        OBVIOUS
      <4>5. /\ s \in r.version..c.version /\ r.version \in Nat /\ r.position \in Nat
            /\ Unshifted(x) = s + 1..c.version
            /\ r.version >= c.base =>
                 PositionsOf(x)[w] = PositionOver(Stretch(c, r.version, s), r.position, w)
        BY <3>2, <3>4, <4>3, <4>4 DEF Placed, Place
      <4>6. WellKept(c) /\ c.version \in Nat /\ c.base \in Nat
        <5>1. WellKept(c)
          BY <1>6, <4>1, <4>4
        <5>2. QED
          BY <5>1 DEF WellKept, IsSequence
      <4>7. v = s + 1 /\ v \in s + 1..c.version
        <5>1. v \in s + 1..c.version
          BY <1>19, <4>4, <4>5
        <5>2. s + 1 \in s + 1..c.version
          BY <4>5, <4>6, <5>1
        <5>3. ~(s + 1 < v)
          BY <4>2, <4>4, <4>5, <5>2
        <5>4. QED
          BY <4>5, <4>6, <5>1, <5>3
      <4>8. Unshifted(x)' = s + 1 + 1..c.version
        <5>1. Unshifted(x)' = (s + 1..c.version) \ {s + 1}
          BY <1>19, <4>4, <4>5, <4>7
        <5>2. (s + 1..c.version) \ {s + 1} = s + 1 + 1..c.version
          BY <4>5, <4>6
        <5>3. QED
          BY <5>1, <5>2
      <4>9. s + 1 \in r.version..c.version
        BY <4>5, <4>6, <4>7
      <4>10. PositionsOf(x)'[w] = TransformPosition(PositionsOf(x)[w], o, w = u)
        BY <1>9, <1>12, <4>1 DEF PositionsOf
      <4>11. ASSUME r.version >= c.base
             PROVE  PositionsOf(x)'[w]
                      = PositionOver(Stretch(c, r.version, s + 1), r.position, w)
        <5>1. PICK a : a = r.version
          OBVIOUS
        <5>2. a \in c.base..c.version /\ s \in a..c.version - 1
          BY <4>5, <4>6, <4>7, <4>11, <5>1
        <5>3. PositionOver(Stretch(c, a, s + 1), r.position, w)
                = PositionStep(PositionOver(Stretch(c, a, s), r.position, w),
                               EditAt(c, s + 1), w)
          BY <4>5, <4>6, <5>2, OverOneMore
        <5>4. PICK q : q = PositionOver(Stretch(c, a, s), r.position, w)
          OBVIOUS
        <5>5. q = PositionsOf(x)[w]
          BY <4>5, <4>11, <5>1, <5>4
        <5>6. EditAt(c, v).operation = o /\ EditAt(c, v).origin = u
          <6>1. v > c.base
            BY <4>5, <4>6, <4>7, <4>11
          <6>2. QED
            BY <1>1, <1>2, <1>7, <1>10, <4>1, <4>4, <6>1 DEF EditTask
        <5>7. PICK d : d = EditAt(c, s + 1)
          OBVIOUS
        <5>8. d.operation = o /\ (d.origin = w) = (w = u)
          BY <4>7, <5>6, <5>7
        <5>9. PositionStep(q, d, w) = TransformPosition(q, o, w = u)
          BY <5>8 DEF PositionStep
        <5>10. QED
          BY <4>10, <5>1, <5>3, <5>4, <5>5, <5>7, <5>9
      <4>12. Placed(x, w, s + 1)'
        BY <1>4, <4>4, <4>8, <4>9, <4>11 DEF Placed
      <4>13. QED
        BY <1>4, <3>2, <3>4, <4>12 DEF Place
    <3>5. QED
      BY <3>3, <3>4
  <2>2. QED
    BY <1>6, <2>1, PlacesGoOn
<1>21. QED
  BY <1>13, <1>14, <1>15, <1>17, <1>20 DEF CursorsInv

\* Some of the positions of a bucket.
Some(e, d) == DOMAIN e \subseteq DOMAIN d /\ \A w \in DOMAIN e : e[w] = d[w]

LEMMA LeavingPositions ==
  ASSUME IInv, NEW u, NEW x, NEW bs, bs = Leaving(u, x)
  PROVE  \A i \in 1..Len(buckets) : Some(bs[i], buckets[i])
<1>1. CASE u \in DOMAIN byUser /\ byUser[u] # x /\ byUser[u] \in DOMAIN byCell
  <2>1. PICK k : k = byCell[byUser[u]]
    OBVIOUS
  <2>2. bs = Put(buckets, k, Without(buckets[k], u))
    BY <1>1, <2>1 DEF Leaving, Put
  <2>3. Some(Without(buckets[k], u), buckets[k])
    BY DEF Without, Some
  <2>4. \A i : Some(buckets[i], buckets[i])
    BY DEF Some
  <2>5. k \in 1..Len(buckets) /\ IsSequence(buckets)
    BY <1>1, <2>1 DEF IInv
  <2>6. /\ bs[k] = Without(buckets[k], u)
        /\ \A i \in 1..Len(buckets) : i # k => bs[i] = buckets[i]
    BY <2>2, <2>5, PutEffect
  <2>7. QED
    BY <2>3, <2>4, <2>6
<1>2. CASE ~(u \in DOMAIN byUser /\ byUser[u] # x /\ byUser[u] \in DOMAIN byCell)
  <2>1. bs = buckets
    BY <1>2 DEF Leaving
  <2>2. QED
    BY <2>1 DEF Some
<1>3. QED
  BY <1>1, <1>2

\* The steps that take positions out of buckets, or cells away from buckets.
LEMMA FewerCursors ==
  ASSUME IInv, LateInv, CursorsInv, NEW u \in User,
         UNCHANGED <<cells, deleted, report, raced>>,
         Len(buckets') \in Nat, Len(buckets) <= Len(buckets'),
         \A i \in 1..Len(buckets) : Some(buckets'[i], buckets[i]),
         \A i \in 1..Len(buckets') : i \in 1..Len(buckets) \/ DOMAIN buckets'[i] = {},
         DOMAIN byCell' \subseteq DOMAIN cells \cup deleted,
         \A y \in DOMAIN byCell' :
           \/ y \in DOMAIN byCell /\ byCell'[y] = byCell[y]
           \/ byCell'[y] \in 1..Len(buckets') /\ byCell'[y] > Len(buckets),
         \A y \in DOMAIN byCell \cap DOMAIN cells :
           y \in DOMAIN byCell' /\ byCell'[y] = byCell[y],
         \A w \in User \ {u} : task'[w] = task[w], TaskInv(u)',
         \A w \in User : Active(w)' =>
           /\ Active(w)
           /\ \A y \in DOMAIN byCell' \cap DOMAIN byCell :
                w \in UsersIn(y)' /\ w \in DOMAIN byUser =>
                  (byUser[w] = y => w \in DOMAIN byUser' /\ byUser'[w] = y),
         \A y : Unshifted(y)' = Unshifted(y)
  PROVE  CursorsInv'
<1>1. /\ IsSequence(buckets) /\ Len(buckets) \in Nat
      /\ CellsInv /\ PositionsInv /\ TasksInv /\ OwnInv /\ PlacesInv
      /\ \A y \in DOMAIN cells : WellKept(cells[y]) /\ Grown(cells[y], cells[y])
      /\ \A y \in DOMAIN byCell : byCell[y] \in 1..Len(buckets)
  BY CursorsFacts
<1>2. CellsInv'
  BY <1>1 DEF CellsInv
<1>3. PositionsInv'
  BY <1>1 DEF PositionsInv, Some
<1>4. TasksInv'
  BY <1>1, TasksGoOn
<1>5. ASSUME NEW y \in DOMAIN byCell', NEW w \in UsersIn(y)'
      PROVE  /\ y \in DOMAIN byCell /\ w \in UsersIn(y)
             /\ PositionsOf(y)'[w] = PositionsOf(y)[w]
  <2>1. PICK i : i = byCell'[y]
    OBVIOUS
  <2>2. w \in DOMAIN buckets'[i] /\ PositionsOf(y)'[w] = buckets'[i][w]
    BY <1>5, <2>1 DEF UsersIn, PositionsOf
  <2>3. i \in 1..Len(buckets')
    BY <1>1, <2>1
  <2>4. i \in 1..Len(buckets)
    BY <2>2, <2>3
  <2>5. y \in DOMAIN byCell /\ byCell[y] = i
    BY <1>1, <2>1, <2>4
  <2>6. w \in DOMAIN buckets[i] /\ buckets'[i][w] = buckets[i][w]
    BY <2>2, <2>4 DEF Some
  <2>7. QED
    BY <2>2, <2>5, <2>6 DEF UsersIn, PositionsOf
<1>6. OwnInv'
  <2>1. ASSUME NEW w \in User, Active(w)', NEW y \in DOMAIN byCell', w \in UsersIn(y)'
        PROVE  /\ y \in DOMAIN byCell /\ w \in UsersIn(y)
               /\ w \in DOMAIN byUser =>
                        (byUser[w] = y => w \in DOMAIN byUser' /\ byUser'[w] = y)
    BY <1>5, <2>1
  <2>2. QED
    BY <1>1, <2>1, OwnGoesOn
<1>7. PlacesInv'
  <2>1. ASSUME NEW y \in DOMAIN cells' \cap DOMAIN byCell', NEW w \in UsersIn(y)' \ raced'
        PROVE  SamePlace(y, w)
    <3>1. /\ y \in DOMAIN cells \cap DOMAIN byCell /\ w \in UsersIn(y) \ raced
          /\ PositionsOf(y)'[w] = PositionsOf(y)[w]
      BY <1>5, <2>1
    <3>2. Place(y, w)
      BY <1>1, <3>1 DEF PlacesInv
    <3>3. QED
      BY <3>1, <3>2 DEF SamePlace, Place
  <2>2. QED
    BY <1>1, <2>1, PlacesGoOn
<1>8. QED
  BY <1>2, <1>3, <1>4, <1>6, <1>7 DEF CursorsInv

LEMMA SomeItself == \A d : Some(d, d)
BY DEF Some

LEMMA NoEditsChange ==
  ASSUME LateInv, NEW u \in User, SetTask(u, Idle), ~EditUnderWay(u)
  PROVE  /\ \A y : Unshifted(y)' = Unshifted(y)
         /\ task'[u] = Idle /\ \A w \in User \ {u} : task'[w] = task[w]
         /\ TaskInv(u)'
<1>1. /\ task'[u] = Idle /\ \A w \in User \ {u} : task'[w] = task[w]
  BY OtherTasksLate
<1>2. Idle.at \notin {"shifting", "holding"}
  BY DEF Idle
<1>3. \A y : Unshifted(y)' = Unshifted(y)
  BY <1>2, UnshiftedElsewhere
<1>4. QED
  BY <1>1, <1>3, IdleTask

LEMMA ClearCellCursors ==
  ASSUME IInv, LateInv, CursorsInv, NEW u \in User, ClearCell(u)
  PROVE  CursorsInv'
<1>1. PICK x : x = task[u].cell
  OBVIOUS
<1>2. /\ task[u].at = "clearing" /\ SetTask(u, Idle)
      /\ UNCHANGED <<cells, deleted, report, raced, session>>
      /\ \/ x \notin DOMAIN byCell /\ byUser' = byUser /\ byCell' = byCell /\ buckets' = buckets
         \/ /\ x \in DOMAIN byCell /\ byCell' = Without(byCell, x)
            /\ buckets' = Put(buckets, byCell[x], <<>>) /\ byUser' = Remaining(x)
  BY <1>1 DEF ClearCell, focusVars, ghostVars, Put
<1>3. /\ \A y : Unshifted(y)' = Unshifted(y)
      /\ task'[u] = Idle /\ \A w \in User \ {u} : task'[w] = task[w]
      /\ TaskInv(u)'
  BY <1>2, NoEditsChange DEF EditUnderWay
<1>4. /\ IsSequence(buckets) /\ Len(buckets) \in Nat /\ CellsInv
      /\ \A y \in DOMAIN byCell : byCell[y] \in 1..Len(buckets)
      /\ \A y, z \in DOMAIN byCell : byCell[y] = byCell[z] => y = z
  BY CursorsFacts
<1>5. x \in deleted
  BY <1>1, <1>2, CursorsFacts DEF TasksInv, TaskInv
<1>6. x \notin DOMAIN cells /\ DOMAIN byCell \subseteq DOMAIN cells \cup deleted
  BY <1>4, <1>5 DEF CellsInv
<1>7. \A w \in User : Active(w)' => Active(w)
  BY <1>2, <1>3 DEF Active
<1>8. CASE x \notin DOMAIN byCell /\ byUser' = byUser /\ byCell' = byCell /\ buckets' = buckets
  BY <1>2, <1>3, <1>4, <1>6, <1>7, <1>8, SomeItself, FewerCursors
<1>9. CASE /\ x \in DOMAIN byCell /\ byCell' = Without(byCell, x)
           /\ buckets' = Put(buckets, byCell[x], <<>>) /\ byUser' = Remaining(x)
  <2>1. /\ DOMAIN byCell' = DOMAIN byCell \ {x}
        /\ \A y \in DOMAIN byCell \ {x} : byCell'[y] = byCell[y]
    BY <1>9 DEF Without
  <2>2. PICK k : k = byCell[x]
    OBVIOUS
  <2>3. /\ Len(buckets') = Len(buckets) /\ buckets'[k] = <<>>
        /\ \A i \in 1..Len(buckets) : i # k => buckets'[i] = buckets[i]
    BY <1>4, <1>9, <2>2, PutEffect
  <2>4. Some(<<>>, buckets[k])
    BY DEF Some
  <2>5. \A i \in 1..Len(buckets) : Some(buckets'[i], buckets[i])
    BY <2>3, <2>4, SomeItself
  <2>6. ASSUME NEW w \in User, NEW y \in DOMAIN byCell', w \in DOMAIN byUser, byUser[w] = y
        PROVE  w \in DOMAIN byUser' /\ byUser'[w] = y
    BY <1>9, <2>1, <2>6 DEF Remaining
  <2>7. QED
    BY <1>2, <1>3, <1>4, <1>6, <1>7, <2>1, <2>3, <2>5, <2>6, FewerCursors
<1>10. QED
  BY <1>2, <1>8, <1>9

LEMMA ClearCellCutCursors ==
  ASSUME IInv, LateInv, CursorsInv, NEW u \in User, ClearCellCut(u)
  PROVE  CursorsInv'
<1>1. PICK x : x = task[u].cell
  OBVIOUS
<1>2. /\ task[u].at = "clearing" /\ SetTask(u, Idle)
      /\ UNCHANGED <<cells, deleted, report, raced, session, byUser, buckets>>
      /\ byCell' = Without(byCell, x)
  BY <1>1 DEF ClearCellCut
<1>3. /\ \A y : Unshifted(y)' = Unshifted(y)
      /\ task'[u] = Idle /\ \A w \in User \ {u} : task'[w] = task[w]
      /\ TaskInv(u)'
  BY <1>2, NoEditsChange DEF EditUnderWay
<1>4. /\ IsSequence(buckets) /\ Len(buckets) \in Nat /\ CellsInv
  BY CursorsFacts
<1>5. x \in deleted
  BY <1>1, <1>2, CursorsFacts DEF TasksInv, TaskInv
<1>6. x \notin DOMAIN cells /\ DOMAIN byCell \subseteq DOMAIN cells \cup deleted
  BY <1>4, <1>5 DEF CellsInv
<1>7. \A w \in User : Active(w)' => Active(w)
  BY <1>2, <1>3 DEF Active
<1>8. /\ DOMAIN byCell' = DOMAIN byCell \ {x}
      /\ \A y \in DOMAIN byCell \ {x} : byCell'[y] = byCell[y]
  BY <1>2 DEF Without
<1>9. \A i \in 1..Len(buckets) : Some(buckets'[i], buckets[i])
  BY <1>2, SomeItself
<1>10. QED
  BY <1>2, <1>3, <1>4, <1>6, <1>7, <1>8, <1>9, FewerCursors

LEMMA ClearUserCursors ==
  ASSUME IInv, LateInv, CursorsInv, NEW u \in User, ClearUser(u)
  PROVE  CursorsInv'
<1>1. /\ session[u] = "leaving" /\ session' = [session EXCEPT ![u] = "left"]
      /\ byUser' = Without(byUser, u)
      /\ UNCHANGED <<cells, deleted, byCell, task, report, raced>>
      /\ buckets' = IF u \in DOMAIN byUser /\ byUser[u] \in DOMAIN byCell
                    THEN Put(buckets, byCell[byUser[u]],
                             Without(buckets[byCell[byUser[u]]], u))
                    ELSE buckets
  BY DEF ClearUser, Cleared, ghostVars, Put
<1>2. /\ \A w \in User \ {u} : task'[w] = task[w]
      /\ \A y : Unshifted(y)' = Unshifted(y)
  BY <1>1 DEF Unshifted
<1>3. /\ IsSequence(buckets) /\ Len(buckets) \in Nat /\ CellsInv /\ TasksInv /\ OwnInv
      /\ \A y \in DOMAIN byCell : byCell[y] \in 1..Len(buckets)
      /\ \A y, z \in DOMAIN byCell : byCell[y] = byCell[z] => y = z
      /\ DOMAIN session = User
  BY CursorsFacts
<1>4. Len(buckets') = Len(buckets) /\ \A i \in 1..Len(buckets) : Some(buckets'[i], buckets[i])
  <2>1. CASE u \in DOMAIN byUser /\ byUser[u] \in DOMAIN byCell
    <3>1. PICK k : k = byCell[byUser[u]]
      OBVIOUS
    <3>2. buckets' = Put(buckets, k, Without(buckets[k], u)) /\ k \in 1..Len(buckets)
      BY <1>1, <1>3, <2>1, <3>1
    <3>3. Some(Without(buckets[k], u), buckets[k])
      BY DEF Some, Without
    <3>4. /\ Len(buckets') = Len(buckets) /\ buckets'[k] = Without(buckets[k], u)
          /\ \A i \in 1..Len(buckets) : i # k => buckets'[i] = buckets[i]
      BY <1>3, <3>2, PutEffect
    <3>5. QED
      BY <3>3, <3>4, SomeItself
  <2>2. CASE ~(u \in DOMAIN byUser /\ byUser[u] \in DOMAIN byCell)
    BY <1>1, <2>2, SomeItself
  <2>3. QED
    BY <2>1, <2>2
<1>5. ASSUME NEW w \in User, Active(w)'
      PROVE  /\ Active(w)
             /\ \A y \in DOMAIN byCell' \cap DOMAIN byCell :
                  w \in UsersIn(y)' /\ w \in DOMAIN byUser =>
                    (byUser[w] = y => w \in DOMAIN byUser' /\ byUser'[w] = y)
  <2>1. Active(w)
    BY <1>1, <1>3, <1>5 DEF Active
  <2>2. CASE w # u
    BY <1>1, <2>1, <2>2 DEF Without
  <2>3. CASE w = u
    <3>1. ASSUME NEW y \in DOMAIN byCell, w \in UsersIn(y)', w \in DOMAIN byUser, byUser[w] = y
          PROVE  FALSE
      <4>1. buckets' = Put(buckets, byCell[y], Without(buckets[byCell[y]], u))
        BY <1>1, <2>3, <3>1
      <4>2. buckets'[byCell[y]] = Without(buckets[byCell[y]], u)
        BY <1>3, <3>1, <4>1, PutEffect
      <4>3. UsersIn(y)' = DOMAIN buckets'[byCell[y]]
        BY <1>1, <3>1 DEF UsersIn, PositionsOf
      <4>4. u \notin UsersIn(y)'
        BY <4>2, <4>3 DEF Without
      <4>5. QED
        BY <2>3, <3>1, <4>4
    <3>2. QED
      BY <1>1, <2>1, <3>1
  <2>4. QED
    BY <2>2, <2>3
<1>6. TaskInv(u)'
  <2>1. TaskInv(u)
    BY <1>3 DEF TasksInv
  <2>2. QED
    BY <1>1, <1>4, <2>1 DEF TaskInv, EditUnderWay, EditTask, OwnVersion, HoldingTask, SettingTask
<1>7. DOMAIN byCell \subseteq DOMAIN cells \cup deleted
  BY <1>3 DEF CellsInv
<1>8. QED
  BY <1>1, <1>2, <1>3, <1>4, <1>5, <1>6, <1>7, FewerCursors

LEMMA SetFocusCutCursors ==
  ASSUME IInv, LateInv, CursorsInv, NEW u \in User, SetFocusCut(u)
  PROVE  CursorsInv'
<1>0. PICK x, bs : x = task[u].cell /\ bs = Leaving(u, x)
  OBVIOUS
<1>1. /\ session[u] # "here" /\ task[u].at = "setting" /\ SetTask(u, Idle)
      /\ byUser' = With(byUser, u, x)
      /\ UNCHANGED <<cells, deleted, session, report, raced>>
      /\ \/ buckets' = buckets /\ byCell' = byCell
         \/ buckets' = bs /\ byCell' = byCell
         \/ /\ x \notin DOMAIN byCell
            /\ buckets' = Append(bs, <<>>)
            /\ byCell' = With(byCell, x, Len(buckets'))
  BY <1>0 DEF SetFocusCut
<1>2. /\ \A y : Unshifted(y)' = Unshifted(y)
      /\ task'[u] = Idle /\ \A w \in User \ {u} : task'[w] = task[w]
      /\ TaskInv(u)'
  BY <1>1, NoEditsChange DEF EditUnderWay
<1>3. /\ IsSequence(bs) /\ Len(bs) = Len(buckets) /\ Len(bs) \in Nat
      /\ \A i \in 1..Len(buckets) : Some(bs[i], buckets[i])
  BY <1>0, LeavingEffect, LeavingPositions
<1>4. /\ IsSequence(buckets) /\ Len(buckets) \in Nat /\ CellsInv
      /\ \A y \in DOMAIN byCell : byCell[y] \in 1..Len(buckets)
  BY CursorsFacts
<1>5. x \in DOMAIN cells \cup deleted /\ DOMAIN byCell \subseteq DOMAIN cells \cup deleted
  BY <1>0, <1>1, CursorsFacts DEF TasksInv, TaskInv, SettingTask, CellsInv
<1>6. ASSUME NEW w \in User, Active(w)'
      PROVE  /\ Active(w)
             /\ \A y : w \in DOMAIN byUser =>
                  (byUser[w] = y => w \in DOMAIN byUser' /\ byUser'[w] = y)
  <2>1. w # u
    BY <1>1, <1>2, <1>6 DEF Active
  <2>2. QED
    BY <1>1, <1>2, <1>6, <2>1 DEF Active, With
<1>7. CASE buckets' = buckets /\ byCell' = byCell
  BY <1>1, <1>2, <1>4, <1>5, <1>6, <1>7, SomeItself, FewerCursors
<1>8. CASE buckets' = bs /\ byCell' = byCell
  BY <1>1, <1>2, <1>3, <1>4, <1>5, <1>6, <1>8, FewerCursors
<1>9. CASE /\ x \notin DOMAIN byCell
           /\ buckets' = Append(bs, <<>>)
           /\ byCell' = With(byCell, x, Len(buckets'))
  <2>1. /\ Len(buckets') = Len(buckets) + 1
        /\ \A i \in 1..Len(buckets) : buckets'[i] = bs[i]
        /\ buckets'[Len(buckets) + 1] = <<>>
    BY <1>3, <1>9, AppendIsSequence
  <2>2. /\ DOMAIN byCell' = DOMAIN byCell \cup {x}
        /\ byCell'[x] = Len(buckets) + 1
        /\ \A y \in DOMAIN byCell : byCell'[y] = byCell[y]
    BY <1>9, <2>1 DEF With
  <2>3. DOMAIN <<>> = {}
    OBVIOUS
  <2>4. \A i \in 1..Len(buckets') : i \in 1..Len(buckets) \/ DOMAIN buckets'[i] = {}
    BY <1>4, <2>1, <2>3
  <2>5. \A i \in 1..Len(buckets) : Some(buckets'[i], buckets[i])
    BY <1>3, <2>1
  <2>6. DOMAIN byCell' \subseteq DOMAIN cells \cup deleted
    BY <1>5, <2>2
  <2>7. \A y \in DOMAIN byCell' :
           \/ y \in DOMAIN byCell /\ byCell'[y] = byCell[y]
           \/ byCell'[y] \in 1..Len(buckets') /\ byCell'[y] > Len(buckets)
    BY <1>4, <2>1, <2>2
  <2>8. Len(buckets') \in Nat /\ Len(buckets) <= Len(buckets')
    BY <1>4, <2>1
  <2>9. QED
    BY <1>1, <1>2, <1>6, <2>2, <2>4, <2>5, <2>6, <2>7, <2>8, FewerCursors
<1>10. QED
  BY <1>1, <1>7, <1>8, <1>9

LEMMA SetFocusCursors ==
  ASSUME IInv, LateInv, CursorsInv, NEW u \in User, SetFocus(u)
  PROVE  CursorsInv'
<1>0. PICK t : t = task[u]
  OBVIOUS
<1>1. PICK x, p, v, bs : x = t.cell /\ p = t.position /\ v = t.version /\ bs = Leaving(u, x)
  OBVIOUS
<1>2. /\ t.at = "setting" /\ SetTask(u, Idle) /\ byUser' = With(byUser, u, x)
      /\ UNCHANGED <<cells, deleted, session>>
      /\ report' = With(report, u, [version |-> v, position |-> p])
      /\ raced' = IF Races(x, v) THEN raced \cup {u} ELSE raced \ {u}
      /\ \/ /\ x \in DOMAIN byCell
            /\ buckets' = Put(bs, byCell[x], With(bs[byCell[x]], u, p))
            /\ byCell' = byCell
         \/ /\ x \notin DOMAIN byCell
            /\ buckets' = Append(bs, With(<<>>, u, p))
            /\ byCell' = With(byCell, x, Len(buckets'))
  BY <1>0, <1>1 DEF SetFocus, Put
<1>3. /\ \A y : Unshifted(y)' = Unshifted(y)
      /\ task'[u] = Idle /\ \A w \in User \ {u} : task'[w] = task[w]
      /\ TaskInv(u)'
  BY <1>0, <1>2, NoEditsChange DEF EditUnderWay
<1>4. /\ IsSequence(buckets) /\ Len(buckets) \in Nat
      /\ CellsInv /\ PositionsInv /\ TasksInv /\ OwnInv /\ PlacesInv
      /\ \A y \in DOMAIN byCell : byCell[y] \in 1..Len(buckets)
      /\ \A y, z \in DOMAIN byCell : byCell[y] = byCell[z] => y = z
      /\ \A y \in DOMAIN cells : WellKept(cells[y]) /\ Grown(cells[y], cells[y])
  BY CursorsFacts
<1>5. /\ IsSequence(bs) /\ Len(bs) = Len(buckets) /\ Len(bs) \in Nat
      /\ \A i \in 1..Len(buckets) : Some(bs[i], buckets[i])
      /\ \A y \in DOMAIN byCell :
              u \in DOMAIN bs[byCell[y]] <=>
                   /\ u \in DOMAIN buckets[byCell[y]]
                   /\ ~(u \in DOMAIN byUser /\ byUser[u] # x /\ byUser[u] = y)
  BY <1>1, LeavingEffect, LeavingPositions
<1>6. SettingTask(u)
  BY <1>0, <1>2, <1>4 DEF TasksInv, TaskInv
<1>7. /\ x \in DOMAIN cells \cup deleted /\ p \in Nat /\ v \in Nat
      /\ x \in DOMAIN cells => v <= cells[x].version
  BY <1>0, <1>1, <1>6 DEF SettingTask
<1>8. DOMAIN byCell \subseteq DOMAIN cells \cup deleted
  BY <1>4 DEF CellsInv
<1>9. PICK n : n = byCell'[x]
  OBVIOUS
<1>10. /\ DOMAIN byCell' = DOMAIN byCell \cup {x}
       /\ \A y \in DOMAIN byCell : byCell'[y] = byCell[y]
       /\ n \in 1..Len(buckets') /\ Len(buckets') \in Nat /\ Len(buckets) <= Len(buckets')
       /\ x \notin DOMAIN byCell => n > Len(buckets)
       /\ \A i \in 1..Len(buckets') : i # n => i \in 1..Len(buckets) /\ buckets'[i] = bs[i]
       /\ u \in DOMAIN buckets'[n] /\ buckets'[n][u] = p
       /\ \A w \in DOMAIN buckets'[n] \ {u} :
            x \in DOMAIN byCell /\ w \in DOMAIN bs[n] /\ buckets'[n][w] = bs[n][w]
  <2>1. CASE /\ x \in DOMAIN byCell
             /\ buckets' = Put(bs, byCell[x], With(bs[byCell[x]], u, p))
             /\ byCell' = byCell
    <3>1. n = byCell[x] /\ n \in 1..Len(bs)
      BY <1>4, <1>5, <1>9, <2>1
    <3>2. /\ Len(buckets') = Len(bs) /\ buckets'[n] = With(bs[n], u, p)
          /\ \A i \in 1..Len(bs) : i # n => buckets'[i] = bs[i]
      BY <1>5, <2>1, <3>1, PutEffect
    <3>3. /\ DOMAIN buckets'[n] = DOMAIN bs[n] \cup {u} /\ buckets'[n][u] = p
          /\ \A w \in DOMAIN bs[n] \ {u} : buckets'[n][w] = bs[n][w]
      BY <3>2 DEF With
    <3>4. DOMAIN byCell' = DOMAIN byCell \cup {x} /\ \A y \in DOMAIN byCell : byCell'[y] = byCell[y]
      BY <2>1
    <3>5. n \in 1..Len(buckets') /\ Len(buckets') \in Nat /\ Len(buckets) <= Len(buckets')
      BY <1>5, <3>1, <3>2
    <3>6. \A i \in 1..Len(buckets') : i # n => i \in 1..Len(buckets) /\ buckets'[i] = bs[i]
      BY <1>5, <3>2
    <3>7. QED
      BY <2>1, <3>3, <3>4, <3>5, <3>6
  <2>2. CASE /\ x \notin DOMAIN byCell
             /\ buckets' = Append(bs, With(<<>>, u, p))
             /\ byCell' = With(byCell, x, Len(buckets'))
    <3>1. /\ Len(buckets') = Len(bs) + 1
          /\ \A i \in 1..Len(bs) : buckets'[i] = bs[i]
          /\ buckets'[Len(bs) + 1] = With(<<>>, u, p)
      BY <1>5, <2>2, AppendIsSequence
    <3>2. /\ DOMAIN byCell' = DOMAIN byCell \cup {x}
          /\ byCell'[x] = Len(bs) + 1
          /\ \A y \in DOMAIN byCell : byCell'[y] = byCell[y]
      BY <2>2, <3>1 DEF With
    <3>3. n = Len(bs) + 1
      BY <1>9, <3>2
    <3>4. DOMAIN With(<<>>, u, p) = {u} /\ With(<<>>, u, p)[u] = p
      BY DEF With
    <3>5. DOMAIN buckets'[n] = {u} /\ buckets'[n][u] = p
      BY <3>1, <3>3, <3>4
    <3>6. n \in 1..Len(buckets') /\ Len(buckets') \in Nat /\ Len(buckets) <= Len(buckets')
          /\ n > Len(buckets)
      BY <1>5, <3>1, <3>3
    <3>7. \A i \in 1..Len(buckets') : i # n => i \in 1..Len(buckets) /\ buckets'[i] = bs[i]
      BY <1>5, <3>1, <3>3
    <3>8. QED
      BY <3>2, <3>5, <3>6, <3>7
  <2>3. QED
    BY <1>2, <2>1, <2>2
<1>11. \A y \in DOMAIN byCell \ {x} : byCell[y] # n
  <2>1. ASSUME NEW y \in DOMAIN byCell \ {x} PROVE byCell[y] # n
    <3>1. CASE x \in DOMAIN byCell
      BY <1>4, <1>9, <1>10, <2>1, <3>1
    <3>2. CASE x \notin DOMAIN byCell
      BY <1>4, <1>10, <2>1, <3>2
    <3>3. QED
      BY <3>1, <3>2
  <2>2. QED
    BY <2>1
\* Who is where, but for u in x, was there with the same position.
<1>12. ASSUME NEW y \in DOMAIN byCell', NEW w \in UsersIn(y)'
       PROVE  \/ /\ y \in DOMAIN byCell /\ w \in UsersIn(y) /\ w # u
                 /\ PositionsOf(y)'[w] = PositionsOf(y)[w]
              \/ /\ y \in DOMAIN byCell \ {x} /\ w = u /\ u \in UsersIn(y)
                 /\ ~(u \in DOMAIN byUser /\ byUser[u] # x /\ byUser[u] = y)
              \/ y = x /\ w = u /\ PositionsOf(x)'[u] = p
  <2>1. PICK i : i = byCell'[y]
    OBVIOUS
  <2>2. w \in DOMAIN buckets'[i] /\ PositionsOf(y)'[w] = buckets'[i][w]
    BY <1>12, <2>1 DEF UsersIn, PositionsOf
  <2>3. CASE y = x
    <3>1. i = n
      BY <1>9, <2>1, <2>3
    <3>2. CASE w = u
      BY <1>10, <2>2, <2>3, <3>1, <3>2
    <3>3. CASE w # u
      <4>1. x \in DOMAIN byCell /\ w \in DOMAIN bs[n] /\ buckets'[n][w] = bs[n][w]
        BY <1>10, <2>2, <3>1, <3>3
      <4>2. n = byCell[x] /\ n \in 1..Len(buckets)
        BY <1>4, <1>9, <1>10, <4>1
      <4>3. w \in DOMAIN buckets[n] /\ bs[n][w] = buckets[n][w]
        BY <1>5, <4>1, <4>2 DEF Some
      <4>4. QED
        BY <2>2, <2>3, <3>1, <3>3, <4>1, <4>2, <4>3 DEF UsersIn, PositionsOf
    <3>4. QED
      BY <3>2, <3>3
  <2>4. CASE y # x
    <3>1. y \in DOMAIN byCell /\ i = byCell[y] /\ i # n /\ i \in 1..Len(buckets)
      BY <1>4, <1>10, <1>11, <2>1, <2>4
    <3>2. i \in 1..Len(buckets')
      BY <1>4, <1>10, <3>1
    <3>3. buckets'[i] = bs[i]
      BY <1>10, <3>1, <3>2
    <3>4. w \in DOMAIN buckets[i] /\ buckets'[i][w] = buckets[i][w] /\ w \in DOMAIN bs[byCell[y]]
      BY <1>5, <2>2, <3>1, <3>3 DEF Some
    <3>5. w \in UsersIn(y) /\ PositionsOf(y)'[w] = PositionsOf(y)[w]
      BY <2>2, <3>1, <3>4 DEF UsersIn, PositionsOf
    <3>6. CASE w = u
      BY <1>5, <2>4, <3>1, <3>4, <3>5, <3>6
    <3>7. CASE w # u
      BY <3>1, <3>5, <3>7
    <3>8. QED
      BY <3>6, <3>7
  <2>5. QED
    BY <2>3, <2>4
\* u has left every other bucket.
<1>13. \A y \in DOMAIN byCell \ {x} :
         u \in UsersIn(y) => u \in DOMAIN byUser /\ byUser[u] # x /\ byUser[u] = y
  <2>1. Active(u)
    BY <1>0, <1>2 DEF Active, Idle
  <2>2. QED
    BY <1>4, <2>1 DEF OwnInv
<1>14. ASSUME NEW y \in DOMAIN byCell', NEW w \in UsersIn(y)'
       PROVE  \/ /\ y \in DOMAIN byCell /\ w \in UsersIn(y) /\ w # u
                 /\ PositionsOf(y)'[w] = PositionsOf(y)[w]
              \/ y = x /\ w = u /\ PositionsOf(x)'[u] = p
  BY <1>12, <1>13, <1>14
<1>15. CellsInv'
  BY <1>2, <1>4, <1>7, <1>8, <1>10 DEF CellsInv
<1>16. PositionsInv'
  <2>1. ASSUME NEW i \in 1..Len(buckets'), NEW w \in DOMAIN buckets'[i]
        PROVE  buckets'[i][w] \in Nat
    <3>1. CASE i # n
      <4>1. i \in 1..Len(buckets) /\ buckets'[i] = bs[i]
        BY <1>10, <3>1
      <4>2. w \in DOMAIN buckets[i] /\ buckets'[i][w] = buckets[i][w]
        BY <1>5, <2>1, <4>1 DEF Some
      <4>3. QED
        BY <1>4, <4>1, <4>2 DEF PositionsInv
    <3>2. CASE i = n /\ w = u
      BY <1>7, <1>10, <3>2
    <3>3. CASE i = n /\ w # u
      <4>1. x \in DOMAIN byCell /\ w \in DOMAIN bs[n] /\ buckets'[n][w] = bs[n][w]
        BY <1>10, <2>1, <3>3
      <4>2. n \in 1..Len(buckets)
        BY <1>4, <1>9, <1>10, <4>1
      <4>3. w \in DOMAIN buckets[n] /\ bs[n][w] = buckets[n][w]
        BY <1>5, <4>1, <4>2 DEF Some
      <4>4. QED
        BY <1>4, <3>3, <4>1, <4>2, <4>3 DEF PositionsInv
    <3>4. QED
      BY <3>1, <3>2, <3>3
  <2>2. QED
    BY <2>1 DEF PositionsInv
<1>17. TasksInv'
  <2>1. \A y \in DOMAIN cells' : WellKept(cells'[y]) /\ Grown(cells[y], cells'[y])
                                 /\ y \in DOMAIN cells
    BY <1>2, <1>4
  <2>2. \A y \in DOMAIN byCell' : \/ y \in DOMAIN byCell /\ byCell'[y] = byCell[y]
                                  \/ byCell'[y] \in Nat /\ byCell'[y] > Len(buckets)
    <3>1. ASSUME NEW y \in DOMAIN byCell', y \notin DOMAIN byCell
          PROVE  byCell'[y] \in Nat /\ byCell'[y] > Len(buckets)
      <4>1. y = x
        BY <1>10, <3>1
      <4>2. n \in Nat /\ n > Len(buckets)
        BY <1>10, <3>1, <4>1
      <4>3. QED
        BY <1>9, <4>1, <4>2
    <3>2. QED
      BY <1>10, <3>1
  <2>3. QED
    BY <1>2, <1>3, <1>4, <1>10, <2>1, <2>2, TasksGoOn
<1>18. OwnInv'
  <2>1. DOMAIN byUser' = DOMAIN byUser \cup {u} /\ byUser'[u] = x
        /\ \A w \in DOMAIN byUser \ {u} : byUser'[w] = byUser[w]
    BY <1>2 DEF With
  <2>2. \A w \in User : Active(w)' => Active(w)
    BY <1>0, <1>2, <1>3 DEF Active, Idle
  <2>3. ASSUME NEW w \in User, Active(w)', NEW y \in DOMAIN byCell', w \in UsersIn(y)'
        PROVE  \/ /\ y \in DOMAIN byCell /\ w \in UsersIn(y)
                  /\ w \in DOMAIN byUser =>
                        (byUser[w] = y => w \in DOMAIN byUser' /\ byUser'[w] = y)
               \/ w \in DOMAIN byUser' /\ byUser'[w] = y
    <3>1. CASE w # u
      BY <1>14, <2>1, <2>3, <3>1
    <3>2. CASE w = u
      BY <1>14, <2>1, <2>3, <3>2
    <3>3. QED
      BY <3>1, <3>2
  <2>4. QED
    BY <1>4, <2>2, <2>3, OwnGoesOn
<1>19. /\ DOMAIN report' = DOMAIN report \cup {u}
       /\ report'[u].version = v /\ report'[u].position = p
       /\ \A w \in DOMAIN report \ {u} : report'[w] = report[w]
  BY <1>2 DEF With
<1>20. PlacesInv'
  <2>1. ASSUME NEW y \in DOMAIN cells' \cap DOMAIN byCell', NEW w \in UsersIn(y)' \ raced'
        PROVE  SamePlace(y, w) \/ Place(y, w)'
    <3>1. y \in DOMAIN cells
      BY <1>2, <2>1
    <3>2. CASE w # u
      <4>1. /\ y \in DOMAIN byCell /\ w \in UsersIn(y) \ raced
            /\ PositionsOf(y)'[w] = PositionsOf(y)[w]
        BY <1>2, <1>14, <2>1, <3>2
      <4>2. Place(y, w)
        BY <1>4, <3>1, <4>1 DEF PlacesInv
      <4>3. w \in DOMAIN report' /\ report'[w] = report[w]
        BY <1>19, <3>2, <4>2 DEF Place
      <4>4. QED
        BY <1>2, <1>3, <3>1, <4>1, <4>3 DEF SamePlace
    <3>3. CASE w = u
      <4>1. y = x /\ PositionsOf(x)'[u] = p
        BY <1>14, <2>1, <3>3
      <4>2. ~Races(x, v)
        BY <1>2, <2>1, <3>3
      <4>3. PICK c : c = cells[x]
        OBVIOUS
      <4>4. WellKept(c) /\ c.version \in Nat /\ c.base \in Nat /\ v <= c.version
        <5>1. WellKept(c)
          BY <1>4, <3>1, <4>1, <4>3
        <5>2. QED
          BY <1>7, <3>1, <4>1, <4>3, <5>1 DEF WellKept, IsSequence
      <4>5. /\ \A k \in Unshifted(x) : ~(k <= v)
            /\ \A k \in v + 1..c.version : k \in Unshifted(x)
        BY <3>1, <4>1, <4>2, <4>3 DEF Races
      <4>6. \A k \in Unshifted(x) : k \in 1..c.version
        <5>1. ASSUME NEW k \in Unshifted(x) PROVE k \in 1..c.version
          <6>1. PICK w2 \in User : /\ task[w2].at \in {"shifting", "holding"}
                                   /\ task[w2].cell = x /\ task[w2].version = k
            BY <5>1 DEF Unshifted
          <6>2. EditTask(w2)
            BY <1>4, <6>1 DEF TasksInv, TaskInv, EditUnderWay
          <6>3. QED
            BY <3>1, <4>1, <4>3, <6>1, <6>2 DEF EditTask
        <5>2. QED
          BY <5>1
      <4>7. Unshifted(x) = v + 1..c.version
        <5>1. \A k \in Unshifted(x) : k \in v + 1..c.version
          BY <1>7, <4>4, <4>5, <4>6
        <5>2. QED
          BY <4>5, <5>1
      <4>8. v \in v..c.version
        BY <1>7, <4>4
      <4>9. ASSUME v >= c.base
            PROVE  p = PositionOver(Stretch(c, v, v), p, u)
        <5>1. v \in c.base..c.version
          BY <1>7, <4>4, <4>9
        <5>2. QED
          BY <1>7, <4>4, <5>1, OverNothing
      <4>10. Placed(x, u, v)'
        BY <1>2, <1>3, <1>19, <4>1, <4>3, <4>7, <4>8, <4>9 DEF Placed
      <4>11. QED
        BY <1>7, <1>19, <3>3, <4>1, <4>10 DEF Place
    <3>4. QED
      BY <3>2, <3>3
  <2>2. QED
    BY <1>4, <2>1, PlacesGoOn
<1>21. QED
  BY <1>15, <1>16, <1>17, <1>18, <1>20 DEF CursorsInv

----------------------------------------------------------------------------

LEMMA CursorsInit == Init => CursorsInv
<1> SUFFICES ASSUME Init PROVE CursorsInv
  OBVIOUS
<1>1. /\ cells = [x \in Present |-> NewCell(InitialText)] /\ deleted = {}
      /\ byCell = <<>> /\ buckets = <<>> /\ task = [u \in User |-> Idle]
  BY DEF Init
<1>2. DOMAIN byCell = {} /\ Len(buckets) = 0
  BY <1>1
<1>3. WellKept(NewCell(InitialText))
  BY TextAssumption, NewCellKept
<1>4. CellsInv
  BY <1>1, <1>2, <1>3, PresentAssumption DEF CellsInv
<1>5. TasksInv
  BY <1>1 DEF TasksInv, TaskInv, EditUnderWay, Idle
<1>6. PositionsInv /\ OwnInv /\ PlacesInv
  BY <1>2 DEF PositionsInv, OwnInv, PlacesInv
<1>7. QED
  BY <1>4, <1>5, <1>6 DEF CursorsInv

LEMMA CursorsStep == IInv /\ LateInv /\ CursorsInv /\ [Next]_vars => CursorsInv'
<1> SUFFICES ASSUME IInv, LateInv, CursorsInv, [Next]_vars PROVE CursorsInv'
  OBVIOUS
<1>1. ASSUME NEW u \in User, Handling(u)
      PROVE  CursorsInv'
  BY <1>1, CommitEditCursors, ReportCursorCursors, InsertCellCursors, DeleteCellCursors,
     TakeBucketCursors, ShiftCursors, SetFocusCursors, ClearCellCursors DEF Handling
<1>2. ASSUME NEW u \in User, Disconnect(u)
      PROVE  CursorsInv'
  <2>1. /\ session' = [session EXCEPT ![u] = "leaving"]
        /\ UNCHANGED <<cells, deleted, byUser, byCell, buckets, report, raced, task>>
    BY <1>2 DEF Disconnect, focusVars, ghostVars
  <2>2. \A w \in User : session'[w] = "here" => session[w] = "here"
    BY <2>1 DEF LateInv
  <2>3. QED
    BY <2>1, <2>2, CalmCursors
<1>3. ASSUME NEW u \in User, Ending(u)
      PROVE  CursorsInv'
  BY <1>2, <1>3, ClearUserCursors, AbortedCursors, SetFocusCutCursors, ClearCellCutCursors
  DEF Ending
<1>4. ASSUME UNCHANGED <<cells, deleted, byUser, byCell, buckets, report, raced, task, session>>
      PROVE  CursorsInv'
  BY <1>4 DEF CursorsInv, CellsInv, PositionsInv, TasksInv, TaskInv, EditUnderWay, EditTask,
              OwnVersion, HoldingTask, SettingTask, OwnInv, Active, PlacesInv, Place, Placed,
              UsersIn, PositionsOf, Unshifted
<1>5. CASE BeginSnapshot \/ ReadBucket \/ UNCHANGED vars
  <2>1. UNCHANGED <<cells, deleted, byUser, byCell, buckets, report, raced, task, session>>
    BY <1>5 DEF BeginSnapshot, ReadBucket, vars, focusVars, ghostVars
  <2>2. QED
    BY <1>4, <2>1
<1>6. QED
  BY <1>1, <1>3, <1>5 DEF Next

\* The types of index and buckets: nobody is put outside the buckets, and the
\* position of a cursor never falls below zero (focus.rs:15-49, text.rs:112-143).
THEOREM FocusTypeOKAlways == Spec => []FocusTypeOK
<1>1. ASSUME IInv, LateInv, CursorsInv PROVE FocusTypeOK
  <2>1. /\ IsSequence(buckets) /\ CellsInv /\ PositionsInv
        /\ \A y \in DOMAIN byCell : byCell[y] \in 1..Len(buckets)
        /\ \A y, z \in DOMAIN byCell : byCell[y] = byCell[z] => y = z
    BY CursorsFacts, <1>1
  <2>2. DOMAIN buckets = 1..Len(buckets)
    BY <2>1 DEF IsSequence
  <2>3. \A y \in DOMAIN byCell : /\ byCell[y] \in DOMAIN buckets
                                 /\ \A w \in UsersIn(y) : PositionsOf(y)[w] \in Nat
    BY <2>1, <2>2 DEF PositionsInv, UsersIn, PositionsOf
  <2>4. DOMAIN byUser \subseteq User
    BY <1>1 DEF LateInv
  <2>5. QED
    BY <2>1, <2>3, <2>4 DEF FocusTypeOK, CellsInv
<1>2. Init => LateInv
  BY DEF Init, LateInv
<1>3. QED
  BY InitInv, StepInv, LateStepInv, CursorsInit, CursorsStep, <1>1, <1>2, PTL DEF Spec

\* Once the edits of a cell have all been shifted, a position is what the holder
\* makes of the report: moving it on edit by edit, under the lock of the buckets,
\* comes to the same as replaying the history at once, whoever reports, leaves or
\* deletes cells in between (focus.rs, shift_cell_positions; resolver.rs:276-289).
THEOREM CursorsExactAlways == Spec => []CursorsExact
<1>1. ASSUME IInv, LateInv, CursorsInv PROVE CursorsExact
  <2>1. SUFFICES ASSUME NEW x \in DOMAIN cells \cap DOMAIN byCell, Unshifted(x) = {},
                        NEW u \in UsersIn(x) \ raced, report[u].version >= cells[x].base
                 PROVE  PositionsOf(x)[u]
                          = RebasePosition(cells[x], report[u].version, report[u].position, u)
    BY DEF CursorsExact
  <2>2. WellKept(cells[x]) /\ Place(x, u)
    BY <1>1, CursorsFacts DEF PlacesInv
  <2>3. PICK s : Placed(x, u, s)
    BY <2>2 DEF Place
  <2>4. PICK c, a, p : c = cells[x] /\ a = report[u].version /\ p = report[u].position
    OBVIOUS
  <2>5. /\ s \in a..c.version /\ a \in Nat /\ {} = s + 1..c.version /\ a >= c.base
        /\ PositionsOf(x)[u] = PositionOver(Stretch(c, a, s), p, u)
    BY <2>1, <2>2, <2>3, <2>4 DEF Placed, Place
  <2>6. WellKept(c) /\ c.version \in Nat /\ c.base \in Nat
    <3>1. WellKept(c)
      BY <2>2, <2>4
    <3>2. QED
      BY <3>1 DEF WellKept, IsSequence
  <2>7. s = c.version
    <3>1. s \in Int /\ s <= c.version
      BY <2>5, <2>6
    <3>2. ASSUME s < c.version PROVE FALSE
      <4>1. s + 1 \in s + 1..c.version
        BY <2>6, <3>1, <3>2
      <4>2. QED
        BY <2>5, <4>1
    <3>3. QED
      BY <2>6, <3>1, <3>2
  <2>8. a \in c.base..c.version
    BY <2>5, <2>6
  <2>9. RebasePosition(c, a, p, u) = PositionOver(Stretch(c, a, c.version), p, u)
    BY <2>6, <2>8, RebaseOverStretch
  <2>10. QED
    BY <2>4, <2>5, <2>7, <2>9
<1>2. Init => LateInv
  BY DEF Init, LateInv
<1>3. QED
  BY InitInv, StepInv, LateStepInv, CursorsInit, CursorsStep, <1>1, <1>2, PTL DEF Spec
====

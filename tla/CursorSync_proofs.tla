---------------------------- MODULE CursorSync_proofs ----------------------------
(***************************************************************************)
(* Texts and cursors between clients and server, for any clients, texts,   *)
(* edits, positions and histories.                                         *)
(*                                                                         *)
(* CursorSync: no cursor overtakes the edit it was moved by, and of the    *)
(* cursors of a client that another gets the last comes last.  What the    *)
(* text operators compute is not needed for that.                          *)
(*                                                                         *)
(* TextSync: the versions and operations are well-formed, a client that    *)
(* knows every edit that was made to the text it shows has that text,      *)
(* with its own edits on top; what it has sent fits, and once nothing is   *)
(* on its way all such clients show the text of the server.  This rests on *)
(* what TextOT_proofs shows of Transform, Compose, the difference of texts *)
(* and the history of a cell.                                              *)
(***************************************************************************)
EXTENDS CursorSync, TextOT_proofs

----------------------------------------------------------------------------
(* The inductive invariant: on its way from a client to another, nothing   *)
(* overtakes anything.                                                     *)

\* No edit with id e behind the first n entries.
Clear(q, n, e) ==
  \A j \in n + 1..Len(q) : q[j].type = "text_edit" => q[j].id # e

ClearOf(c, q, n, e) ==
  \A j \in n + 1..Len(q) : q[j].type = "text_edit" /\ q[j].author = c => q[j].id # e

ClientsInv ==
  /\ client = [c \in Client |-> client[c]]
  /\ \A c \in Client :
       /\ DOMAIN client[c] = {"content", "version", "buffer", "unconfirmed", "sent"}
       /\ client[c].sent \in Nat

CursorsInv ==
  /\ cursor = [c \in Client |-> cursor[c]]
  /\ \A c \in Client :
       /\ DOMAIN cursor[c] = {"noted", "waiting", "sent", "count"}
       /\ cursor[c].noted # None => cursor[c].noted[1].edit \in Nat
       /\ cursor[c].waiting # None => cursor[c].waiting[1].edit \in Nat

ChannelsInv ==
  /\ task = [c \in Client |-> task[c]]
  /\ toServer = [c \in Client |-> toServer[c]]
  /\ toClient = [c \in Client |-> toClient[c]]
  /\ \A c \in Client : IsSequence(toServer[c]) /\ IsSequence(toClient[c])

\* A cursor was moved by an edit that has been sent, and that is not behind it.
Reports(c, e) == e \in 0..client[c].sent /\ Clear(toServer[c], 0, e)

RequestsInv(c) ==
  \A i \in 1..Len(toServer[c]) :
    toServer[c][i].type = "change_focus" =>
      /\ toServer[c][i].author = c
      /\ toServer[c][i].edit \in 0..client[c].sent
      /\ Clear(toServer[c], i, toServer[c][i].edit)

SendingInv(c) ==
  task[c].at = "broadcast" =>
    /\ DOMAIN task[c] = {"at", "message", "rest"} /\ task[c].rest \subseteq Client
    /\ task[c].message.author = c
    /\ task[c].message.type = "change_focus" => Reports(c, task[c].message.edit)

\* An edit with id e is not being sent to d.
NotSent(c, d, e) ==
  /\ task[c].at = "broadcast" /\ d \in task[c].rest
  /\ task[c].message.type = "text_edit"
  => task[c].message.id # e

MessagesInv(c, d) ==
  \A n \in 1..Len(toClient[d]) :
    toClient[d][n].type = "change_focus" /\ toClient[d][n].author = c =>
      /\ Reports(c, toClient[d][n].edit)
      /\ NotSent(c, d, toClient[d][n].edit)
      /\ ClearOf(c, toClient[d], n, toClient[d][n].edit)

AuthorsInv ==
  \A d \in Client : \A n \in 1..Len(toClient[d]) :
    toClient[d][n].type = "change_focus" => toClient[d][n].author \in Client

FlowInv ==
  /\ \A c \in Client : RequestsInv(c) /\ SendingInv(c)
  /\ \A c, d \in Client : MessagesInv(c, d)
  /\ AuthorsInv

IInv == ClientsInv /\ CursorsInv /\ ChannelsInv /\ FlowInv

----------------------------------------------------------------------------
(* What stays behind what.                                                 *)

LEMMA ClearTail ==
  ASSUME NEW q, IsSequence(q), q # <<>>, NEW n \in Nat, NEW e
  PROVE  /\ Clear(q, n + 1, e) => Clear(Tail(q), n, e)
         /\ \A c : ClearOf(c, q, n + 1, e) => ClearOf(c, Tail(q), n, e)
<1>1. PICK r : r = Tail(q)
  OBVIOUS
<1>2. Len(q) \in Nat /\ Len(q) > 0
  BY DEF IsSequence
<1>3. Len(r) = Len(q) - 1 /\ \A i \in 1..Len(q) - 1 : r[i] = q[i + 1]
  BY <1>1, <1>2, TailIsSequence
<1>4. \A j \in n + 1..Len(r) : j + 1 \in n + 1 + 1..Len(q) /\ r[j] = q[j + 1]
  BY <1>2, <1>3
<1>5. QED
  BY <1>1, <1>4 DEF Clear, ClearOf

LEMMA ClearLater ==
  ASSUME NEW q, IsSequence(q), NEW n \in Nat, NEW e
  PROVE  /\ Clear(q, n, e) => Clear(q, n + 1, e)
         /\ \A c : ClearOf(c, q, n, e) => ClearOf(c, q, n + 1, e)
<1>1. \A j \in n + 1 + 1..Len(q) : j \in n + 1..Len(q)
  BY DEF IsSequence
<1>2. QED
  BY <1>1 DEF Clear, ClearOf

LEMMA ClearAppend ==
  ASSUME NEW q, IsSequence(q), NEW n \in Nat, NEW e, NEW m
  PROVE  /\ Clear(q, n, e) /\ (m.type = "text_edit" => m.id # e) =>
              Clear(Append(q, m), n, e)
         /\ \A c :
              /\ ClearOf(c, q, n, e)
              /\ m.type = "text_edit" /\ m.author = c => m.id # e
              => ClearOf(c, Append(q, m), n, e)
<1>1. PICK r : r = Append(q, m)
  OBVIOUS
<1>2. Len(q) \in Nat
  BY DEF IsSequence
<1>3. /\ Len(r) = Len(q) + 1 /\ r[Len(q) + 1] = m
      /\ \A i \in 1..Len(q) : r[i] = q[i]
  BY <1>1, AppendIsSequence
<1>4. \A j \in n + 1..Len(r) : \/ j \in n + 1..Len(q) /\ r[j] = q[j]
                               \/ r[j] = m
  BY <1>2, <1>3
<1>5. QED
  BY <1>1, <1>4 DEF Clear, ClearOf

\* Behind the last entry there is nothing.
LEMMA ClearAtEnd ==
  ASSUME NEW q, IsSequence(q), NEW e
  PROVE  Clear(q, Len(q), e) /\ \A c : ClearOf(c, q, Len(q), e)
<1>1. Len(q) + 1..Len(q) = {}
  BY DEF IsSequence
<1>2. QED
  BY <1>1 DEF Clear, ClearOf

\* The entries of q, but perhaps for the first.
LEMMA EntriesOf ==
  ASSUME NEW q, IsSequence(q), NEW r, r = q \/ (q # <<>> /\ r = Tail(q))
  PROVE  /\ IsSequence(r)
         /\ \A n \in 1..Len(r) : \E k \in 1..Len(q) :
              /\ r[n] = q[k]
              /\ \A e : Clear(q, k, e) => Clear(r, n, e)
              /\ \A c, e : ClearOf(c, q, k, e) => ClearOf(c, r, n, e)
<1>1. CASE r = q
  BY <1>1
<1>2. CASE q # <<>> /\ r = Tail(q)
  <2>0. q # <<>>
    BY <1>2
  <2>1. Len(q) \in Nat /\ Len(q) > 0
    BY <2>0 DEF IsSequence
  <2>2. IsSequence(r) /\ Len(r) = Len(q) - 1 /\ \A i \in 1..Len(q) - 1 : r[i] = q[i + 1]
    BY <1>2, <2>1, TailIsSequence
  <2>3. ASSUME NEW n \in 1..Len(r)
        PROVE  /\ n \in Nat /\ n + 1 \in 1..Len(q) /\ r[n] = q[n + 1]
               /\ \A e : Clear(q, n + 1, e) => Clear(r, n, e)
               /\ \A c, e : ClearOf(c, q, n + 1, e) => ClearOf(c, r, n, e)
    <3>1. n \in Nat /\ n + 1 \in 1..Len(q) /\ r[n] = q[n + 1]
      BY <2>1, <2>2
    <3>2. \A e : /\ Clear(q, n + 1, e) => Clear(r, n, e)
                 /\ \A c : ClearOf(c, q, n + 1, e) => ClearOf(c, r, n, e)
      BY <1>2, <3>1, ClearTail
    <3>3. QED
      BY <3>1, <3>2
  <2>4. QED
    BY <2>2, <2>3
<1>3. QED
  BY <1>1, <1>2

\* r has the entries of q, and m behind them.
EndsWith(q, m, r) ==
  \A n \in 1..Len(r) :
    \/ n \in 1..Len(q) /\ n \in Nat /\ r[n] = q[n]
    \/ /\ r[n] = m /\ \A e : Clear(r, n, e)
       /\ \A c, e : ClearOf(c, r, n, e)

LEMMA EntriesAnd ==
  ASSUME NEW q, IsSequence(q), NEW m, NEW r, r = Append(q, m)
  PROVE  IsSequence(r) /\ EndsWith(q, m, r)
<1>1. Len(q) \in Nat
  BY DEF IsSequence
<1>2. /\ IsSequence(r) /\ Len(r) = Len(q) + 1 /\ r[Len(q) + 1] = m
      /\ \A i \in 1..Len(q) : r[i] = q[i]
  BY AppendIsSequence
<1>3. \A e : /\ Clear(r, Len(r), e)
             /\ \A c : ClearOf(c, r, Len(r), e)
  BY <1>2, ClearAtEnd
<1>4. ASSUME NEW n \in 1..Len(r), n \notin 1..Len(q)
      PROVE  n = Len(r)
  BY <1>1, <1>2, <1>4
<1>5. ASSUME NEW n \in 1..Len(q)
      PROVE  n \in Nat /\ r[n] = q[n]
  BY <1>2
<1>6. QED
  BY <1>1, <1>2, <1>3, <1>4, <1>5 DEF EndsWith

----------------------------------------------------------------------------
(* The kinds of steps.                                                     *)

\* What client a hands over to its channel: nothing, its next edit, or a cursor
\* that was moved by none of the edits to come.
HandsOver(a) ==
  \/ toServer'[a] = toServer[a] /\ client'[a].sent = client[a].sent
  \/ \E m :
       /\ toServer'[a] = Append(toServer[a], m)
       /\ \/ /\ m.type = "text_edit" /\ m.id = client[a].sent + 1
             /\ client'[a].sent = client[a].sent + 1
          \/ /\ m.type = "change_focus" /\ m.author = a
             /\ m.edit \in 0..client[a].sent /\ client'[a].sent = client[a].sent

\* What a reports stays in front of what it hands over.
LEMMA HandingOver ==
  ASSUME IInv, NEW a \in Client, HandsOver(a), NEW e
  PROVE  /\ e \in 0..client[a].sent => e \in 0..client'[a].sent
         /\ \A n \in Nat : e \in 0..client[a].sent /\ Clear(toServer[a], n, e) =>
              Clear(toServer'[a], n, e)
<1>1. client[a].sent \in Nat /\ IsSequence(toServer[a])
  BY DEF IInv, ClientsInv, ChannelsInv
<1>2. CASE toServer'[a] = toServer[a] /\ client'[a].sent = client[a].sent
  BY <1>2
<1>3. ASSUME NEW m, toServer'[a] = Append(toServer[a], m),
             \/ /\ m.type = "text_edit" /\ m.id = client[a].sent + 1
                /\ client'[a].sent = client[a].sent + 1
             \/ /\ m.type = "change_focus" /\ m.author = a
                /\ m.edit \in 0..client[a].sent /\ client'[a].sent = client[a].sent
      PROVE  /\ e \in 0..client[a].sent => e \in 0..client'[a].sent
             /\ \A n \in Nat : e \in 0..client[a].sent /\ Clear(toServer[a], n, e) =>
                  Clear(toServer'[a], n, e)
  <2>1. e \in 0..client[a].sent => e \in 0..client'[a].sent
    BY <1>1, <1>3
  <2>2. e \in 0..client[a].sent => (m.type = "text_edit" => m.id # e)
    BY <1>1, <1>3
  <2>3. ASSUME NEW n \in Nat, e \in 0..client[a].sent, Clear(toServer[a], n, e)
        PROVE  Clear(toServer'[a], n, e)
    BY <1>1, <1>3, <2>2, <2>3, ClearAppend
  <2>4. QED
    BY <2>1, <2>3
<1>4. QED
  BY <1>2, <1>3 DEF HandsOver

\* Client a goes on: it may hand something over and take something in.
LEMMA ClientStep ==
  ASSUME IInv, NEW a \in Client, UNCHANGED task, ClientsInv', CursorsInv',
         toServer' = [c \in Client |-> toServer'[c]],
         toClient' = [c \in Client |-> toClient'[c]],
         HandsOver(a),
         \A c \in Client \ {a} :
           toServer'[c] = toServer[c] /\ client'[c].sent = client[c].sent,
         \A d \in Client :
           \/ toClient'[d] = toClient[d]
           \/ toClient[d] # <<>> /\ toClient'[d] = Tail(toClient[d])
  PROVE  IInv'
<1>1. \A c \in Client : client[c].sent \in Nat /\ IsSequence(toServer[c])
                        /\ IsSequence(toClient[c])
  BY DEF IInv, ClientsInv, ChannelsInv
<1>2. ASSUME NEW c \in Client, NEW e, e \in 0..client[c].sent
      PROVE  /\ e \in 0..client'[c].sent
             /\ \A n \in Nat : Clear(toServer[c], n, e) => Clear(toServer'[c], n, e)
  <2>1. CASE c = a
    BY <1>2, <2>1, HandingOver
  <2>2. CASE c # a
    <3>1. toServer'[c] = toServer[c] /\ client'[c].sent = client[c].sent
      BY <2>2
    <3>2. QED
      BY <1>2, <3>1
  <2>3. QED
    BY <2>1, <2>2
<1>3. ASSUME NEW c \in Client, NEW e, Reports(c, e)
      PROVE  Reports(c, e)'
  <2>1. e \in 0..client[c].sent /\ Clear(toServer[c], 0, e) /\ 0 \in Nat
    BY <1>3 DEF Reports
  <2>2. e \in 0..client'[c].sent /\ Clear(toServer'[c], 0, e)
    BY <1>2, <2>1
  <2>3. QED
    BY <2>2 DEF Reports, Clear
<1>4. ASSUME NEW c \in Client
      PROVE  RequestsInv(c)'
  <2>1. RequestsInv(c)
    BY DEF IInv, FlowInv
  <2>2. ASSUME NEW i \in 1..Len(toServer[c]), toServer'[c][i] = toServer[c][i],
               toServer'[c][i].type = "change_focus"
        PROVE  /\ toServer'[c][i].author = c
               /\ toServer'[c][i].edit \in 0..client'[c].sent
               /\ Clear(toServer'[c], i, toServer'[c][i].edit)
    <3>1. PICK e : e = toServer[c][i].edit
      OBVIOUS
    <3>2. e \in 0..client[c].sent /\ Clear(toServer[c], i, e) /\ toServer[c][i].author = c
      BY <2>1, <2>2, <3>1 DEF RequestsInv
    <3>3. i \in Nat
      BY <1>1
    <3>4. QED
      BY <1>2, <2>2, <3>1, <3>2, <3>3
  <2>3. CASE toServer'[c] = toServer[c]
    BY <2>2, <2>3 DEF RequestsInv, Clear
  <2>4. ASSUME NEW m, toServer'[c] = Append(toServer[c], m), c = a,
               m.type = "change_focus" =>
                 /\ m.author = a /\ m.edit \in 0..client'[a].sent
        PROVE  RequestsInv(c)'
    <3>1. PICK q, r : q = toServer[c] /\ r = toServer'[c]
      OBVIOUS
    <3>2. IsSequence(q)
      BY <1>1, <3>1
    <3>3. r = Append(q, m)
      BY <2>4, <3>1
    <3>4. EndsWith(q, m, r)
      BY <3>2, <3>3, EntriesAnd
    <3>5. ASSUME NEW n \in 1..Len(r), r[n].type = "change_focus"
          PROVE  /\ r[n].author = c
                 /\ r[n].edit \in 0..client'[c].sent
                 /\ Clear(r, n, r[n].edit)
      <4>1. CASE n \in 1..Len(q) /\ r[n] = q[n]
        BY <2>2, <3>1, <3>5, <4>1
      <4>2. CASE r[n] = m /\ \A e : Clear(r, n, e)
        BY <2>4, <3>5, <4>2
      <4>3. QED
        BY <3>4, <3>5, <4>1, <4>2 DEF EndsWith
    <3>6. QED
      BY <3>1, <3>5 DEF RequestsInv, Clear
  <2>5. c # a => toServer'[c] = toServer[c]
    OBVIOUS
  <2>6. QED
    BY <2>3, <2>4, <2>5 DEF HandsOver
<1>5. ASSUME NEW c \in Client
      PROVE  SendingInv(c)'
  BY <1>3 DEF IInv, FlowInv, SendingInv
<1>6. ASSUME NEW d \in Client
      PROVE  /\ IsSequence(toClient'[d])
             /\ \A n \in 1..Len(toClient'[d]) : \E k \in 1..Len(toClient[d]) :
                  /\ toClient'[d][n] = toClient[d][k]
                  /\ \A c, e : ClearOf(c, toClient[d], k, e)
                                 => ClearOf(c, toClient'[d], n, e)
  <2>1. PICK q, r : q = toClient[d] /\ r = toClient'[d]
    OBVIOUS
  <2>2. IsSequence(q) /\ (r = q \/ (q # <<>> /\ r = Tail(q)))
    BY <1>1, <2>1
  <2>3. QED
    BY <2>1, <2>2, EntriesOf
<1>7. ASSUME NEW c \in Client, NEW d \in Client
      PROVE  MessagesInv(c, d)'
  <2>1. MessagesInv(c, d)
    BY DEF IInv, FlowInv
  <2>2. ASSUME NEW n \in 1..Len(toClient'[d]), toClient'[d][n].type = "change_focus",
               toClient'[d][n].author = c
        PROVE  /\ Reports(c, toClient[d][n].edit)'
               /\ NotSent(c, d, toClient[d][n].edit)'
               /\ ClearOf(c, toClient[d], n, toClient[d][n].edit)'
    <3>1. PICK k \in 1..Len(toClient[d]) :
            /\ toClient'[d][n] = toClient[d][k]
            /\ \A e : ClearOf(c, toClient[d], k, e) => ClearOf(c, toClient'[d], n, e)
      BY <1>6, <2>2
    <3>2. PICK e : e = toClient[d][k].edit
      OBVIOUS
    <3>3. Reports(c, e) /\ NotSent(c, d, e) /\ ClearOf(c, toClient[d], k, e)
      BY <2>1, <2>2, <3>1, <3>2 DEF MessagesInv
    <3>4. Reports(c, e)' /\ NotSent(c, d, e)' /\ ClearOf(c, toClient[d], n, e)'
      BY <1>3, <3>1, <3>3 DEF NotSent, ClearOf
    <3>5. QED
      BY <3>1, <3>2, <3>4 DEF Reports, NotSent, ClearOf, Clear
  <2>3. QED
    BY <2>2 DEF MessagesInv
<1>8. AuthorsInv'
  BY <1>6 DEF IInv, FlowInv, AuthorsInv
<1>9. ASSUME NEW c \in Client
      PROVE  IsSequence(toServer'[c])
  <2>1. CASE toServer'[c] = toServer[c]
    BY <1>1, <2>1
  <2>2. CASE \E m : toServer'[c] = Append(toServer[c], m)
    BY <1>1, <2>2, AppendIsSequence
  <2>3. QED
    BY <2>1, <2>2 DEF HandsOver
<1>10. ChannelsInv'
  BY <1>6, <1>9 DEF IInv, ChannelsInv, IsSequence
<1>11. QED
  BY <1>4, <1>5, <1>7, <1>8, <1>10 DEF IInv, FlowInv

----------------------------------------------------------------------------
(* What the clients do.                                                    *)

StoreFields == {"content", "version", "buffer", "unconfirmed", "sent"}

\* A client's store is replaced.
LEMMA StoreReplaced ==
  ASSUME IInv, NEW a \in Client, NEW t, DOMAIN t = StoreFields, t.sent \in Nat,
         client' = [client EXCEPT ![a] = t]
  PROVE  /\ ClientsInv' /\ client'[a] = t
         /\ \A c \in Client \ {a} : client'[c] = client[c]
<1>1. client = [c \in Client |-> client[c]]
  BY DEF IInv, ClientsInv
<1>2. client' = [c \in Client |-> IF c = a THEN t ELSE client[c]]
  BY <1>1
<1>3. client'[a] = t /\ \A c \in Client \ {a} : client'[c] = client[c]
  BY <1>2
<1>4. client' = [c \in Client |-> client'[c]]
  BY <1>2
<1>5. QED
  BY <1>3, <1>4 DEF IInv, ClientsInv, StoreFields

LEMMA Handed ==
  ASSUME IInv, NEW a \in Client, NEW m,
         toServer' = [toServer EXCEPT ![a] = Append(@, m)]
  PROVE  /\ toServer' = [c \in Client |-> toServer'[c]]
         /\ toServer'[a] = Append(toServer[a], m)
         /\ \A c \in Client \ {a} : toServer'[c] = toServer[c]
<1>1. toServer = [c \in Client |-> toServer[c]]
  BY DEF IInv, ChannelsInv
<1>2. toServer' = [c \in Client |-> IF c = a THEN Append(toServer[a], m) ELSE toServer[c]]
  BY <1>1
<1>3. QED
  BY <1>2

\* attemptFlush: at most the next edit is handed over.
LEMMA FlushHandsOver ==
  ASSUME IInv, NEW a \in Client, NEW s, DOMAIN s = StoreFields,
         s.sent = client[a].sent, AttemptFlush(a, s)
  PROVE  /\ ClientsInv' /\ HandsOver(a)
         /\ toServer' = [c \in Client |-> toServer'[c]]
         /\ \A c \in Client \ {a} :
              toServer'[c] = toServer[c] /\ client'[c].sent = client[c].sent
<1>1. s.sent \in Nat /\ toServer = [c \in Client |-> toServer[c]]
  BY DEF IInv, ClientsInv, ChannelsInv
<1>2. CASE client' = [client EXCEPT ![a] = s] /\ UNCHANGED toServer
  <2>1. /\ ClientsInv' /\ client'[a] = s
        /\ \A c \in Client \ {a} : client'[c] = client[c]
    BY <1>1, <1>2, StoreReplaced
  <2>2. QED
    BY <1>1, <1>2, <2>1 DEF HandsOver
<1>3. CASE /\ client' = [client EXCEPT ![a] = Flushed(s)]
           /\ toServer' = [toServer EXCEPT ![a] = Append(@, Flushed(s).unconfirmed[1])]
  <2>1. PICK m : m = EditRequest(s.sent + 1, s.version, s.buffer[1])
    OBVIOUS
  <2>2. m.type = "text_edit" /\ m.id = s.sent + 1
    BY <2>1 DEF EditRequest
  <2>3. PICK t : t = Flushed(s)
    OBVIOUS
  <2>4. DOMAIN t = StoreFields /\ t.sent = s.sent + 1 /\ t.unconfirmed = <<m>>
    BY <2>1, <2>3 DEF Flushed, StoreFields
  <2>5. t.sent \in Nat
    BY <1>1, <2>4
  <2>6. client' = [client EXCEPT ![a] = t]
    BY <1>3, <2>3
  <2>7. /\ ClientsInv' /\ client'[a] = t
        /\ \A c \in Client \ {a} : client'[c] = client[c]
    BY <2>4, <2>5, <2>6, StoreReplaced
  <2>8. t.unconfirmed[1] = m
    BY <2>4
  <2>9. toServer' = [toServer EXCEPT ![a] = Append(@, m)]
    BY <1>3, <2>3, <2>8
  <2>10. /\ toServer' = [c \in Client |-> toServer'[c]]
         /\ toServer'[a] = Append(toServer[a], m)
         /\ \A c \in Client \ {a} : toServer'[c] = toServer[c]
    BY <2>9, Handed
  <2>11. HandsOver(a)
    BY <2>2, <2>4, <2>7, <2>10 DEF HandsOver
  <2>12. QED
    BY <2>7, <2>10, <2>11
<1>4. QED
  BY <1>2, <1>3 DEF AttemptFlush

LEMMA LastEditIsNat ==
  ASSUME ClientsInv, NEW c \in Client
  PROVE  LastEdit(c) \in Nat
BY DEF ClientsInv, LastEdit

\* The cursor's record is replaced.
LEMMA CursorReplaced ==
  ASSUME CursorsInv, NEW a \in Client, NEW t,
         DOMAIN t = {"noted", "waiting", "sent", "count"},
         t.noted # None => t.noted[1].edit \in Nat,
         t.waiting # None => t.waiting[1].edit \in Nat,
         cursor' = [cursor EXCEPT ![a] = t]
  PROVE  CursorsInv'
<1>1. cursor = [c \in Client |-> cursor[c]]
  BY DEF CursorsInv
<1>2. cursor' = [c \in Client |-> IF c = a THEN t ELSE cursor[c]]
  BY <1>1
<1>3. cursor'[a] = t /\ \A c \in Client \ {a} : cursor'[c] = cursor[c]
  BY <1>2
<1>4. cursor' = [c \in Client |-> cursor'[c]]
  BY <1>2
<1>5. QED
  BY <1>3, <1>4 DEF CursorsInv

LEMMA ReportedKeeps ==
  ASSUME NEW s, NEW m, DOMAIN s = {"noted", "waiting", "sent", "count"},
         s.noted # None => s.noted[1].edit \in Nat,
         s.waiting # None => s.waiting[1].edit \in Nat,
         m.edit \in Nat
  PROVE  /\ DOMAIN Reported(s, m) = {"noted", "waiting", "sent", "count"}
         /\ Reported(s, m).noted # None => Reported(s, m).noted[1].edit \in Nat
         /\ Reported(s, m).waiting # None => Reported(s, m).waiting[1].edit \in Nat
<1>1. PICK t : t = [s EXCEPT !.waiting = <<m>>]
  OBVIOUS
<1>2. /\ DOMAIN t = {"noted", "waiting", "sent", "count"}
      /\ t.noted = s.noted /\ t.waiting = <<m>>
  BY <1>1
<1>3. t.waiting[1] = m
  BY <1>2
<1>4. QED
  BY <1>1, <1>2, <1>3 DEF Reported

LEMMA FlushNotedKeeps ==
  ASSUME CursorsInv, NEW a \in Client, FlushNoted(a)
  PROVE  CursorsInv'
<1>1. PICK s : s = cursor[a]
  OBVIOUS
<1>2. /\ DOMAIN s = {"noted", "waiting", "sent", "count"}
      /\ s.noted # None => s.noted[1].edit \in Nat
      /\ s.waiting # None => s.waiting[1].edit \in Nat
  BY <1>1 DEF CursorsInv
<1>3. cursor = [c \in Client |-> cursor[c]]
  BY DEF CursorsInv
<1>4. CASE s.noted = None
  <2>1. cursor' = [cursor EXCEPT ![a] = s]
    BY <1>1, <1>4 DEF FlushNoted, NotedReported
  <2>2. QED
    BY <1>2, <2>1, CursorReplaced
<1>5. CASE s.noted # None
  <2>1. PICK u : u = [s EXCEPT !.noted = None]
    OBVIOUS
  <2>2. /\ DOMAIN u = {"noted", "waiting", "sent", "count"}
        /\ u.noted = None /\ u.waiting = s.waiting
    BY <1>2, <2>1
  <2>3. PICK m : m = s.noted[1]
    OBVIOUS
  <2>4. m.edit \in Nat
    BY <1>2, <1>5, <2>3
  <2>5. PICK t : t = Reported(u, m)
    OBVIOUS
  <2>6. /\ DOMAIN t = {"noted", "waiting", "sent", "count"}
        /\ t.noted # None => t.noted[1].edit \in Nat
        /\ t.waiting # None => t.waiting[1].edit \in Nat
    BY <1>2, <2>2, <2>4, <2>5, ReportedKeeps
  <2>7. cursor' = [cursor EXCEPT ![a] = t]
    BY <1>1, <1>5, <2>1, <2>3, <2>5 DEF FlushNoted, NotedReported
  <2>8. QED
    BY <2>6, <2>7, CursorReplaced
<1>6. QED
  BY <1>4, <1>5

\* A step that leaves the channels alone, and what the clients have sent.
LEMMA QuietStep ==
  ASSUME IInv, NEW a \in Client, UNCHANGED <<task, toServer, toClient>>,
         ClientsInv', CursorsInv',
         \A c \in Client : client'[c].sent = client[c].sent
  PROVE  IInv'
<1>1. /\ toServer' = [c \in Client |-> toServer'[c]]
      /\ toClient' = [c \in Client |-> toClient'[c]]
  BY DEF IInv, ChannelsInv
<1>2. HandsOver(a)
  BY DEF HandsOver
<1>3. QED
  BY <1>1, <1>2, ClientStep

LEMMA MovedToTyped ==
  ASSUME NEW c \in Client, NEW p, NEW r, ClientsInv'
  PROVE  MovedTo(c, p, r).edit \in Nat
BY DEF MovedTo, LastEdit, ClientsInv

LEMMA NoteKeeps ==
  ASSUME CursorsInv, ClientsInv', NEW a \in Client, NEW p, NEW r, Note(a, p, r)
  PROVE  CursorsInv'
<1>1. PICK m : m = MovedTo(a, p, r)
  OBVIOUS
<1>2. m.edit \in Nat
  BY <1>1, MovedToTyped
<1>3. PICK s : s = [cursor[a] EXCEPT !.noted = <<m>>, !.count = @ + 1]
  OBVIOUS
<1>4. DOMAIN cursor[a] = {"noted", "waiting", "sent", "count"}
  BY DEF CursorsInv
<1>5. /\ DOMAIN s = {"noted", "waiting", "sent", "count"}
      /\ s.noted = <<m>> /\ s.waiting = cursor[a].waiting
  BY <1>3, <1>4
<1>6. s.noted[1] = m
  BY <1>5
<1>7. cursor' = [cursor EXCEPT ![a] = s]
  BY <1>1, <1>3 DEF Note
<1>8. s.waiting # None => s.waiting[1].edit \in Nat
  BY <1>5 DEF CursorsInv
<1>9. QED
  BY <1>2, <1>5, <1>6, <1>7, <1>8, CursorReplaced

LEMMA TypeStep ==
  ASSUME IInv, NEW a \in Client, TypeAndNote(a)
  PROVE  IInv'
<1>1. PICK diff : client' = [client EXCEPT ![a] = LocalTextEdit(@, diff)]
  <2>1. PICK new : client' = [client EXCEPT
          ![a] = LocalTextEdit(@, ComputeDiff(@.content, new))]
    BY DEF TypeAndNote, Type
  <2>2. client' = [client EXCEPT
          ![a] = LocalTextEdit(@, ComputeDiff(client[a].content, new))]
    BY <2>1
  <2>3. QED
    BY <2>2
<1>2. PICK t : t = LocalTextEdit(client[a], diff)
  OBVIOUS
<1>3. DOMAIN client[a] = StoreFields /\ client[a].sent \in Nat
  BY DEF IInv, ClientsInv, StoreFields
<1>4. DOMAIN t = StoreFields /\ t.sent = client[a].sent
  BY <1>2, <1>3 DEF LocalTextEdit, StoreFields
<1>5. client' = [client EXCEPT ![a] = t]
  BY <1>1, <1>2
<1>6. /\ ClientsInv' /\ client'[a] = t
      /\ \A c \in Client \ {a} : client'[c] = client[c]
  BY <1>3, <1>4, <1>5, StoreReplaced
<1>7. PICK p : Note(a, p, FALSE)
  BY DEF TypeAndNote
<1>8. CursorsInv'
  BY <1>6, <1>7, NoteKeeps DEF IInv
<1>9. \A c \in Client : client'[c].sent = client[c].sent
  BY <1>4, <1>6
<1>10. QED
  BY <1>6, <1>8, <1>9, QuietStep DEF TypeAndNote, Type, serverVars

LEMMA RestoreStep ==
  ASSUME IInv, NEW a \in Client, Restore(a)
  PROVE  IInv'
<1>1. UNCHANGED <<client, task, toServer, toClient>>
  BY DEF Restore, vars, serverVars
<1>2. ClientsInv'
  BY <1>1 DEF IInv, ClientsInv
<1>3. CASE UNCHANGED cursor
  <2>1. CursorsInv'
    BY <1>3 DEF IInv, CursorsInv
  <2>2. QED
    BY <1>1, <1>2, <2>1, QuietStep
<1>4. CASE \E p \in Position : Note(a, p, TRUE)
  <2>1. CursorsInv'
    BY <1>2, <1>4, NoteKeeps DEF IInv
  <2>2. QED
    BY <1>1, <1>2, <2>1, QuietStep
<1>5. QED
  BY <1>3, <1>4 DEF Restore

LEMMA MoveStep ==
  ASSUME IInv, NEW a \in Client, Move(a)
  PROVE  IInv'
<1>1. UNCHANGED <<client, task, toServer, toClient>>
  BY DEF Move, vars
<1>2. ClientsInv'
  BY <1>1 DEF IInv, ClientsInv
<1>3. PICK p : cursor' = [cursor EXCEPT
                 ![a] = Reported([cursor[a] EXCEPT !.count = @ + 1], MovedTo(a, p, FALSE))]
  BY DEF Move
<1>4. PICK m : m = MovedTo(a, p, FALSE)
  OBVIOUS
<1>5. m.edit \in Nat
  BY <1>2, <1>4, MovedToTyped
<1>6. PICK s : s = [cursor[a] EXCEPT !.count = @ + 1]
  OBVIOUS
<1>7. /\ DOMAIN cursor[a] = {"noted", "waiting", "sent", "count"}
      /\ cursor[a].noted # None => cursor[a].noted[1].edit \in Nat
      /\ cursor[a].waiting # None => cursor[a].waiting[1].edit \in Nat
  BY DEF IInv, CursorsInv
<1>8. /\ DOMAIN s = {"noted", "waiting", "sent", "count"}
      /\ s.noted = cursor[a].noted /\ s.waiting = cursor[a].waiting
  BY <1>6, <1>7
<1>9. PICK t : t = Reported(s, m)
  OBVIOUS
<1>10. /\ DOMAIN t = {"noted", "waiting", "sent", "count"}
       /\ t.noted # None => t.noted[1].edit \in Nat
       /\ t.waiting # None => t.waiting[1].edit \in Nat
  BY <1>5, <1>7, <1>8, <1>9, ReportedKeeps
<1>11. cursor' = [cursor EXCEPT ![a] = t]
  BY <1>3, <1>4, <1>6, <1>9
<1>12. CursorsInv'
  BY <1>10, <1>11, CursorReplaced DEF IInv
<1>13. QED
  BY <1>1, <1>2, <1>12, QuietStep

LEMMA FlushStep ==
  ASSUME IInv, NEW a \in Client, FlushBoth(a)
  PROVE  IInv'
<1>1. PICK s : s = client[a]
  OBVIOUS
<1>2. DOMAIN s = StoreFields /\ s.sent = client[a].sent
  BY <1>1 DEF IInv, ClientsInv, StoreFields
<1>3. AttemptFlush(a, s)
  BY <1>1 DEF FlushBoth, Flush, AttemptFlush
<1>4. /\ ClientsInv' /\ HandsOver(a)
      /\ toServer' = [c \in Client |-> toServer'[c]]
      /\ \A c \in Client \ {a} :
           toServer'[c] = toServer[c] /\ client'[c].sent = client[c].sent
  BY <1>2, <1>3, FlushHandsOver
<1>5. CursorsInv'
  BY FlushNotedKeeps DEF IInv, FlushBoth
<1>6. UNCHANGED <<task, toClient>>
  BY DEF FlushBoth, Flush, serverVars
<1>7. toClient' = [c \in Client |-> toClient'[c]]
  BY <1>6 DEF IInv, ChannelsInv
<1>8. QED
  BY <1>4, <1>5, <1>6, <1>7, ClientStep

LEMMA FlushCursorStep ==
  ASSUME IInv, NEW a \in Client, FlushCursor(a)
  PROVE  IInv'
<1>1. UNCHANGED <<client, task, toServer, toClient>>
  BY DEF FlushCursor, vars
<1>2. ClientsInv'
  BY <1>1 DEF IInv, ClientsInv
<1>3. CursorsInv'
  BY FlushNotedKeeps DEF IInv, FlushCursor
<1>4. QED
  BY <1>1, <1>2, <1>3, QuietStep

LEMMA SendReportStep ==
  ASSUME IInv, NEW a \in Client, SendReport(a)
  PROVE  IInv'
<1>1. PICK w : w = cursor[a].waiting[1]
  OBVIOUS
<1>2. w.edit \in Nat
  BY <1>1 DEF IInv, CursorsInv, SendReport
<1>3. client[a].sent \in Nat /\ LastEdit(a) = client[a].sent
  <2>1. client[a].buffer = None
    BY DEF SendReport, HasPendingTextOp
  <2>2. QED
    BY <2>1 DEF LastEdit, IInv, ClientsInv
<1>4. PICK m : m = ChangeFocus(a, w)
  OBVIOUS
<1>5. /\ m.type = "change_focus" /\ m.author = a
      /\ m.edit \in 0..client[a].sent
  BY <1>2, <1>3, <1>4 DEF ChangeFocus
<1>6. toServer' = [toServer EXCEPT ![a] = Append(@, m)]
  BY <1>1, <1>4 DEF SendReport
<1>7. /\ toServer' = [c \in Client |-> toServer'[c]]
      /\ toServer'[a] = Append(toServer[a], m)
      /\ \A c \in Client \ {a} : toServer'[c] = toServer[c]
  BY <1>6, Handed
<1>8. UNCHANGED <<task, toClient, client>>
  BY DEF SendReport, serverVars
<1>9. HandsOver(a)
  BY <1>5, <1>7, <1>8 DEF HandsOver
<1>10. ClientsInv'
  BY <1>8 DEF IInv, ClientsInv
<1>11. CursorsInv'
  <2>1. PICK t : t = [cursor[a] EXCEPT !.waiting = None, !.sent = <<w.position>>]
    OBVIOUS
  <2>2. /\ DOMAIN cursor[a] = {"noted", "waiting", "sent", "count"}
        /\ cursor[a].noted # None => cursor[a].noted[1].edit \in Nat
    BY DEF IInv, CursorsInv
  <2>3. /\ DOMAIN t = {"noted", "waiting", "sent", "count"}
        /\ t.noted = cursor[a].noted /\ t.waiting = None
    BY <2>1, <2>2
  <2>4. cursor' = [cursor EXCEPT ![a] = t]
    BY <1>1, <2>1 DEF SendReport
  <2>5. CursorsInv
    BY DEF IInv
  <2>6. QED
    BY <2>2, <2>3, <2>4, <2>5, CursorReplaced
<1>12. toClient' = [c \in Client |-> toClient'[c]]
  BY <1>8 DEF IInv, ChannelsInv
<1>13. \A c \in Client \ {a} :
         toServer'[c] = toServer[c] /\ client'[c].sent = client[c].sent
  BY <1>7, <1>8
<1>14. QED
  BY <1>7, <1>8, <1>9, <1>10, <1>11, <1>12, <1>13, ClientStep

\* The channel to a loses its head.
LEMMA TakenIn ==
  ASSUME IInv, NEW a \in Client, toClient[a] # <<>>,
         toClient' = [toClient EXCEPT ![a] = Tail(@)]
  PROVE  /\ toClient' = [c \in Client |-> toClient'[c]]
         /\ \A d \in Client : \/ toClient'[d] = toClient[d]
                              \/ toClient[d] # <<>> /\ toClient'[d] = Tail(toClient[d])
<1>1. toClient = [c \in Client |-> toClient[c]]
  BY DEF IInv, ChannelsInv
<1>2. toClient' = [c \in Client |-> IF c = a THEN Tail(toClient[a]) ELSE toClient[c]]
  BY <1>1
<1>3. QED
  BY <1>2

LEMMA ReceiveStep ==
  ASSUME IInv, NEW a \in Client, ReceiveForText(a)
  PROVE  IInv'
<1>1. /\ toClient' = [c \in Client |-> toClient'[c]]
      /\ \A d \in Client : \/ toClient'[d] = toClient[d]
                           \/ toClient[d] # <<>> /\ toClient'[d] = Tail(toClient[d])
  BY TakenIn DEF ReceiveForText, Receive
<1>2. UNCHANGED task
  BY DEF ReceiveForText, Receive, serverVars
<1>3. CursorsInv'
  BY FlushNotedKeeps DEF IInv, ReceiveForText, CursorsInv
<1>4. PICK m : m = Head(toClient[a])
  OBVIOUS
<1>5. PICK b : b = client[a]
  OBVIOUS
<1>6. DOMAIN b = StoreFields /\ b.sent = client[a].sent /\ b.sent \in Nat
  BY <1>5 DEF IInv, ClientsInv, StoreFields
<1>7. \/ UNCHANGED <<client, toServer>>
      \/ AttemptFlush(a, Acknowledged(b, m))
      \/ client' = [client EXCEPT ![a] = Integrated(@, m)] /\ UNCHANGED toServer
      \/ AttemptFlush(a, Resynced(b, m))
      \/ AttemptFlush(a, [b EXCEPT !.unconfirmed = None])
  BY <1>4, <1>5 DEF ReceiveForText, Receive, ReceiveTextEdit, ReceiveCellResync, ReceiveFailure
<1>8. ASSUME NEW s, DOMAIN s = StoreFields, s.sent = b.sent, AttemptFlush(a, s)
      PROVE  IInv'
  <2>1. s.sent = client[a].sent
    BY <1>6, <1>8
  <2>2. /\ ClientsInv' /\ HandsOver(a)
        /\ toServer' = [c \in Client |-> toServer'[c]]
        /\ \A c \in Client \ {a} :
             toServer'[c] = toServer[c] /\ client'[c].sent = client[c].sent
    BY <1>8, <2>1, FlushHandsOver
  <2>3. QED
    BY <1>1, <1>2, <1>3, <2>2, ClientStep
<1>9. CASE AttemptFlush(a, Acknowledged(b, m))
  <2>1. PICK s : s = Acknowledged(b, m)
    OBVIOUS
  <2>2. DOMAIN s = StoreFields /\ s.sent = b.sent
    BY <1>6, <2>1 DEF Acknowledged, StoreFields
  <2>3. QED
    BY <1>8, <1>9, <2>1, <2>2
<1>10. CASE AttemptFlush(a, Resynced(b, m))
  <2>1. PICK s : s = Resynced(b, m)
    OBVIOUS
  <2>2. DOMAIN s = StoreFields /\ s.sent = b.sent
    BY <1>6, <2>1 DEF Resynced, StoreFields
  <2>3. QED
    BY <1>8, <1>10, <2>1, <2>2
<1>11. CASE AttemptFlush(a, [b EXCEPT !.unconfirmed = None])
  <2>1. PICK s : s = [b EXCEPT !.unconfirmed = None]
    OBVIOUS
  <2>2. DOMAIN s = StoreFields /\ s.sent = b.sent
    BY <1>6, <2>1 DEF StoreFields
  <2>3. QED
    BY <1>8, <1>11, <2>1, <2>2
<1>12. ASSUME NEW s, DOMAIN s = StoreFields, s.sent = b.sent,
              client' = [client EXCEPT ![a] = s], UNCHANGED toServer
       PROVE  IInv'
  <2>1. s.sent \in Nat
    BY <1>6, <1>12
  <2>2. /\ ClientsInv' /\ client'[a] = s
        /\ \A c \in Client \ {a} : client'[c] = client[c]
    BY <1>12, <2>1, StoreReplaced
  <2>3. HandsOver(a)
    BY <1>6, <1>12, <2>2 DEF HandsOver
  <2>4. toServer' = [c \in Client |-> toServer'[c]]
    BY <1>12 DEF IInv, ChannelsInv
  <2>5. \A c \in Client \ {a} :
          toServer'[c] = toServer[c] /\ client'[c].sent = client[c].sent
    BY <1>12, <2>2
  <2>6. QED
    BY <1>1, <1>2, <1>3, <2>2, <2>3, <2>4, <2>5, ClientStep
<1>13. CASE UNCHANGED <<client, toServer>>
  <2>1. client' = [client EXCEPT ![a] = b]
    BY <1>5, <1>13 DEF IInv, ClientsInv
  <2>2. QED
    BY <1>6, <1>12, <1>13, <2>1
<1>14. CASE client' = [client EXCEPT ![a] = Integrated(@, m)] /\ UNCHANGED toServer
  <2>1. PICK s : s = Integrated(b, m)
    OBVIOUS
  <2>2. DOMAIN s = StoreFields /\ s.sent = b.sent
    BY <1>6, <2>1 DEF Integrated, StoreFields
  <2>3. client' = [client EXCEPT ![a] = s]
    BY <1>5, <1>14, <2>1
  <2>4. QED
    BY <1>12, <1>14, <2>2, <2>3
<1>15. QED
  BY <1>7, <1>9, <1>10, <1>11, <1>13, <1>14

LEMMA ReceiveCursorStep ==
  ASSUME IInv, NEW a \in Client, ReceiveChangeFocus(a)
  PROVE  IInv'
<1>1. /\ toClient' = [c \in Client |-> toClient'[c]]
      /\ \A d \in Client : \/ toClient'[d] = toClient[d]
                           \/ toClient[d] # <<>> /\ toClient'[d] = Tail(toClient[d])
  BY TakenIn DEF ReceiveChangeFocus
<1>2. UNCHANGED <<task, toServer, client, cursor>>
  BY DEF ReceiveChangeFocus, serverVars
<1>3. ClientsInv' /\ CursorsInv'
  BY <1>2 DEF IInv, ClientsInv, CursorsInv
<1>4. toServer' = [c \in Client |-> toServer'[c]]
  BY <1>2 DEF IInv, ChannelsInv
<1>5. HandsOver(a)
  BY <1>2 DEF HandsOver
<1>6. QED
  BY <1>1, <1>2, <1>3, <1>4, <1>5, ClientStep
----------------------------------------------------------------------------
(* What the server does.                                                   *)

\* The task of a goes on to t, and may have taken the head of its channel.
TakesOn(a, t) ==
  \/ toServer'[a] = toServer[a] /\ t.at # "broadcast"
  \/ /\ toServer[a] # <<>> /\ toServer'[a] = Tail(toServer[a])
     /\ t.at = "broadcast" =>
          /\ DOMAIN t = {"at", "message", "rest"} /\ t.rest \subseteq Client
          /\ t.message.author = a /\ t.message.type = toServer[a][1].type
          /\ t.message.type = "text_edit" => t.message.id = toServer[a][1].id
          /\ t.message.type = "change_focus" => t.message = toServer[a][1]

\* What a reports, no edit it sends comes behind.
LEMMA TakingOn ==
  ASSUME IInv, NEW a \in Client, UNCHANGED client, NEW t, task'[a] = t,
         TakesOn(a, t), NEW e, Reports(a, e),
         NEW d \in Client, NotSent(a, d, e)
  PROVE  Reports(a, e)' /\ NotSent(a, d, e)'
<1>1. PICK q, r : q = toServer[a] /\ r = toServer'[a]
  OBVIOUS
<1>2. e \in 0..client[a].sent /\ Clear(q, 0, e)
  BY <1>1 DEF Reports
<1>3. IsSequence(q)
  BY <1>1 DEF IInv, ChannelsInv
<1>4. CASE r = q /\ t.at # "broadcast"
  <2>1. Reports(a, e)'
    BY <1>1, <1>2, <1>4 DEF Reports, Clear
  <2>2. QED
    BY <1>4, <2>1 DEF NotSent
<1>5. CASE /\ q # <<>> /\ r = Tail(q)
           /\ t.at = "broadcast" /\ t.message.type = "text_edit" => t.message.id = q[1].id
           /\ t.at = "broadcast" => t.message.type = q[1].type
  <2>0. q # <<>>
    BY <1>5
  <2>1. 1 \in 0 + 1..Len(q)
    BY <1>3, <2>0 DEF IsSequence
  <2>2. q[1].type = "text_edit" => q[1].id # e
    BY <1>2, <2>1 DEF Clear
  <2>3. 0 \in Nat /\ Clear(q, 0 + 1, e)
    BY <1>2, <1>3, ClearLater
  <2>4. Clear(r, 0, e)
    BY <1>3, <1>5, <2>3, ClearTail
  <2>5. Reports(a, e)'
    BY <1>1, <1>2, <2>4 DEF Reports, Clear
  <2>6. NotSent(a, d, e)'
    BY <1>5, <2>2 DEF NotSent
  <2>7. QED
    BY <2>5, <2>6
<1>6. QED
  BY <1>1, <1>4, <1>5 DEF TakesOn

\* What the server still has to send is as it should be.
LEMMA TakenOn ==
  ASSUME IInv, NEW a \in Client, UNCHANGED client, NEW t, task'[a] = t,
         TakesOn(a, t)
  PROVE  RequestsInv(a)' /\ SendingInv(a)' /\ IsSequence(toServer'[a])
<1>1. PICK q, r : q = toServer[a] /\ r = toServer'[a]
  OBVIOUS
<1>2. IsSequence(q)
  BY <1>1 DEF IInv, ChannelsInv
<1>3. ASSUME NEW i \in 1..Len(q), q[i].type = "change_focus"
      PROVE  q[i].author = a /\ q[i].edit \in 0..client[a].sent /\ Clear(q, i, q[i].edit)
  BY <1>1, <1>3 DEF IInv, FlowInv, RequestsInv
<1>4. r = q \/ (q # <<>> /\ r = Tail(q))
  BY <1>1 DEF TakesOn
<1>5. /\ IsSequence(r)
      /\ \A n \in 1..Len(r) : \E k \in 1..Len(q) :
           r[n] = q[k] /\ \A e : Clear(q, k, e) => Clear(r, n, e)
  BY <1>2, <1>4, EntriesOf
<1>6. RequestsInv(a)'
  <2>1. ASSUME NEW n \in 1..Len(r), r[n].type = "change_focus"
        PROVE  r[n].author = a /\ r[n].edit \in 0..client'[a].sent /\ Clear(r, n, r[n].edit)
    <3>1. PICK k \in 1..Len(q) :
            r[n] = q[k] /\ \A e : Clear(q, k, e) => Clear(r, n, e)
      BY <1>5
    <3>2. QED
      BY <1>3, <2>1, <3>1
  <2>2. QED
    BY <1>1, <2>1 DEF RequestsInv, Clear
<1>7. SendingInv(a)'
  <2>1. CASE t.at # "broadcast"
    BY <2>1 DEF SendingInv
  <2>2. CASE /\ q # <<>> /\ r = Tail(q)
             /\ DOMAIN t = {"at", "message", "rest"} /\ t.rest \subseteq Client
             /\ t.message.author = a
             /\ t.message.type = "change_focus" => t.message = q[1]
    <3>0. q # <<>>
      BY <2>2
    <3>1. 1 \in 1..Len(q) /\ 0 \in Nat /\ 0 + 1 = 1
      BY <1>2, <3>0 DEF IsSequence
    <3>2. ASSUME t.message.type = "change_focus"
          PROVE  t.message.edit \in 0..client'[a].sent /\ Clear(r, 0, t.message.edit)
      <4>1. PICK e : e = t.message.edit
        OBVIOUS
      <4>2. e \in 0..client[a].sent /\ Clear(q, 0 + 1, e)
        BY <1>3, <2>2, <3>1, <3>2, <4>1
      <4>3. Clear(r, 0, e)
        BY <1>2, <2>2, <3>1, <4>2, ClearTail
      <4>4. QED
        BY <4>1, <4>2, <4>3
    <3>3. QED
      BY <1>1, <2>2, <3>2 DEF SendingInv, Reports, Clear
  <2>3. QED
    BY <1>1, <2>1, <2>2 DEF TakesOn
<1>8. QED
  BY <1>1, <1>5, <1>6, <1>7

LEMMA ServerStep ==
  ASSUME IInv, NEW a \in Client, UNCHANGED <<client, cursor>>, NEW t,
         task' = [task EXCEPT ![a] = t], TakesOn(a, t),
         toServer' = [c \in Client |-> toServer'[c]],
         toClient' = [c \in Client |-> toClient'[c]],
         \A c \in Client \ {a} : toServer'[c] = toServer[c],
         NEW m, m.type # "text_edit", m.type # "change_focus",
         \A d \in Client : \/ toClient'[d] = toClient[d]
                           \/ toClient'[d] = Append(toClient[d], m)
  PROVE  IInv'
<1>1. /\ task' = [c \in Client |-> task'[c]]
      /\ task'[a] = t /\ \A c \in Client \ {a} : task'[c] = task[c]
  <2>1. task = [c \in Client |-> task[c]]
    BY DEF IInv, ChannelsInv
  <2>2. task' = [c \in Client |-> IF c = a THEN t ELSE task[c]]
    BY <2>1
  <2>3. QED
    BY <2>2
<1>2. ASSUME NEW c \in Client, NEW d \in Client, NEW e, Reports(c, e), NotSent(c, d, e)
      PROVE  Reports(c, e)' /\ NotSent(c, d, e)'
  <2>1. CASE c = a
    BY <1>1, <1>2, <2>1, TakingOn
  <2>2. CASE c # a
    <3>1. toServer'[c] = toServer[c] /\ task'[c] = task[c]
      BY <1>1, <2>2
    <3>2. QED
      BY <1>2, <3>1 DEF Reports, NotSent, Clear
  <2>3. QED
    BY <2>1, <2>2
<1>3. ASSUME NEW c \in Client
      PROVE  RequestsInv(c)' /\ SendingInv(c)' /\ IsSequence(toServer'[c])
  <2>1. CASE c = a
    BY <1>1, <2>1, TakenOn
  <2>2. CASE c # a
    <3>1. toServer'[c] = toServer[c] /\ task'[c] = task[c]
      BY <1>1, <2>2
    <3>2. RequestsInv(c) /\ SendingInv(c) /\ IsSequence(toServer[c])
      BY DEF IInv, FlowInv, ChannelsInv
    <3>3. RequestsInv(c)'
      BY <3>1, <3>2 DEF RequestsInv, Clear
    <3>4. SendingInv(c)'
      BY <3>1, <3>2 DEF SendingInv, Reports, Clear
    <3>5. QED
      BY <3>1, <3>2, <3>3, <3>4
  <2>3. QED
    BY <2>1, <2>2
<1>4. ASSUME NEW d \in Client
      PROVE  /\ IsSequence(toClient'[d])
             /\ \A n \in 1..Len(toClient'[d]) :
                  \/ toClient'[d][n].type # "change_focus"
                  \/ /\ n \in 1..Len(toClient[d])
                     /\ toClient'[d][n] = toClient[d][n]
                     /\ \A c, e : ClearOf(c, toClient[d], n, e)
                                    => ClearOf(c, toClient'[d], n, e)
  <2>1. PICK q, r : q = toClient[d] /\ r = toClient'[d]
    OBVIOUS
  <2>2. IsSequence(q)
    BY <2>1 DEF IInv, ChannelsInv
  <2>3. CASE r = q
    BY <2>1, <2>2, <2>3
  <2>4. CASE r = Append(q, m)
    <3>1. IsSequence(r) /\ EndsWith(q, m, r)
      BY <2>2, <2>4, EntriesAnd
    <3>2. ASSUME NEW n \in 1..Len(q), n \in Nat, NEW c, NEW e, ClearOf(c, q, n, e)
          PROVE  ClearOf(c, r, n, e)
      BY <2>2, <2>4, <3>2, ClearAppend
    <3>3. QED
      BY <2>1, <3>1, <3>2 DEF EndsWith
  <2>5. QED
    BY <2>1, <2>3, <2>4
<1>5. ASSUME NEW c \in Client, NEW d \in Client
      PROVE  MessagesInv(c, d)'
  <2>1. ASSUME NEW n \in 1..Len(toClient'[d]), toClient'[d][n].type = "change_focus",
               toClient'[d][n].author = c
        PROVE  /\ Reports(c, toClient[d][n].edit)'
               /\ NotSent(c, d, toClient[d][n].edit)'
               /\ ClearOf(c, toClient[d], n, toClient[d][n].edit)'
    <3>1. /\ n \in 1..Len(toClient[d])
          /\ toClient'[d][n] = toClient[d][n]
          /\ \A e : ClearOf(c, toClient[d], n, e) => ClearOf(c, toClient'[d], n, e)
      BY <1>4, <2>1
    <3>2. PICK e : e = toClient[d][n].edit
      OBVIOUS
    <3>3. Reports(c, e) /\ NotSent(c, d, e) /\ ClearOf(c, toClient[d], n, e)
      BY <2>1, <3>1, <3>2 DEF MessagesInv, IInv, FlowInv
    <3>4. Reports(c, e)' /\ NotSent(c, d, e)'
      BY <1>2, <3>3
    <3>5. QED
      BY <3>1, <3>2, <3>3, <3>4 DEF Reports, NotSent, ClearOf, Clear
  <2>2. QED
    BY <2>1 DEF MessagesInv
<1>6. AuthorsInv'
  BY <1>4 DEF IInv, FlowInv, AuthorsInv
<1>7. ChannelsInv'
  BY <1>1, <1>3, <1>4 DEF ChannelsInv, IsSequence
<1>8. ClientsInv' /\ CursorsInv'
  BY DEF IInv, ClientsInv, CursorsInv
<1>9. QED
  BY <1>3, <1>5, <1>6, <1>7, <1>8 DEF IInv, FlowInv

\* A message is appended to what is on its way to d.
LEMMA Delivered ==
  ASSUME IInv, NEW d \in Client, NEW m,
         toClient' = [toClient EXCEPT ![d] = Append(@, m)]
  PROVE  /\ toClient' = [c \in Client |-> toClient'[c]]
         /\ toClient'[d] = Append(toClient[d], m)
         /\ \A c \in Client \ {d} : toClient'[c] = toClient[c]
<1>1. toClient = [c \in Client |-> toClient[c]]
  BY DEF IInv, ChannelsInv
<1>2. toClient' = [c \in Client |-> IF c = d THEN Append(toClient[d], m) ELSE toClient[c]]
  BY <1>1
<1>3. QED
  BY <1>2

\* The head of the channel from a is taken.
LEMMA Taken ==
  ASSUME IInv, NEW a \in Client, toServer' = [toServer EXCEPT ![a] = Tail(@)],
         toServer[a] # <<>>
  PROVE  /\ toServer' = [c \in Client |-> toServer'[c]]
         /\ toServer'[a] = Tail(toServer[a])
         /\ \A c \in Client \ {a} : toServer'[c] = toServer[c]
         /\ Head(toServer[a]) = toServer[a][1]
<1>1. toServer = [c \in Client |-> toServer[c]] /\ IsSequence(toServer[a])
  BY DEF IInv, ChannelsInv
<1>2. toServer' = [c \in Client |-> IF c = a THEN Tail(toServer[a]) ELSE toServer[c]]
  BY <1>1
<1>3. Head(toServer[a]) = toServer[a][1]
  OBVIOUS
<1>4. QED
  BY <1>2, <1>3

LEMMA CommitStep ==
  ASSUME IInv, NEW a \in Client, Commit(a), UNCHANGED cursorVars
  PROVE  IInv'
<1>1. PICK h : h = Head(toServer[a])
  OBVIOUS
<1>2. PICK version, real :
        task' = [task EXCEPT ![a] = Broadcasting(TextEdit(a, h.id, version, real), Client)]
  BY <1>1 DEF Commit, SetTask
<1>3. PICK m : m = TextEdit(a, h.id, version, real)
  OBVIOUS
<1>4. m.author = a /\ m.id = h.id /\ m.type = "text_edit"
  BY <1>3 DEF TextEdit
<1>5. PICK t : t = Broadcasting(m, Client)
  OBVIOUS
<1>6. /\ t.at = "broadcast" /\ t.message = m
      /\ DOMAIN t = {"at", "message", "rest"} /\ t.rest \subseteq Client
  BY <1>5 DEF Broadcasting
<1>7. toServer[a] # <<>> /\ toServer' = [toServer EXCEPT ![a] = Tail(@)]
      /\ h.type = "text_edit"
  BY <1>1 DEF Commit, Takes
<1>8. /\ toServer' = [c \in Client |-> toServer'[c]]
      /\ toServer'[a] = Tail(toServer[a])
      /\ \A c \in Client \ {a} : toServer'[c] = toServer[c]
      /\ h = toServer[a][1]
  BY <1>1, <1>7, Taken
<1>9. TakesOn(a, t)
  BY <1>4, <1>6, <1>7, <1>8 DEF TakesOn
<1>10. UNCHANGED <<client, cursor, toClient>>
  BY DEF Commit, cursorVars
<1>11. toClient' = [c \in Client |-> toClient'[c]]
  BY <1>10 DEF IInv, ChannelsInv
<1>12. task' = [task EXCEPT ![a] = t]
  BY <1>2, <1>3, <1>5
<1>13. PICK n : n.type # "text_edit" /\ n.type # "change_focus"
  <2>1. TextOperationFailed.type # "text_edit" /\ TextOperationFailed.type # "change_focus"
    BY DEF TextOperationFailed
  <2>2. QED
    BY <2>1
<1>14. QED
  BY <1>8, <1>9, <1>10, <1>11, <1>12, <1>13, ServerStep

LEMMA TakeReportStep ==
  ASSUME IInv, NEW a \in Client, TakeReport(a)
  PROVE  IInv'
<1>1. PICK h : h = Head(toServer[a])
  OBVIOUS
<1>2. PICK t : t = Broadcasting(h, Client \ {a})
  OBVIOUS
<1>3. /\ t.at = "broadcast" /\ t.message = h
      /\ DOMAIN t = {"at", "message", "rest"} /\ t.rest \subseteq Client
  BY <1>2 DEF Broadcasting
<1>4. toServer[a] # <<>> /\ toServer' = [toServer EXCEPT ![a] = Tail(@)]
      /\ h.type = "change_focus"
  BY <1>1 DEF TakeReport
<1>5. /\ toServer' = [c \in Client |-> toServer'[c]]
      /\ toServer'[a] = Tail(toServer[a])
      /\ \A c \in Client \ {a} : toServer'[c] = toServer[c]
      /\ h = toServer[a][1]
  BY <1>1, <1>4, Taken
<1>6. h.author = a
  <2>1. IsSequence(toServer[a]) /\ RequestsInv(a)
    BY DEF IInv, ChannelsInv, FlowInv
  <2>2. toServer[a] # <<>>
    BY <1>4
  <2>3. 1 \in 1..Len(toServer[a])
    BY <2>1, <2>2 DEF IsSequence
  <2>4. QED
    BY <1>4, <1>5, <2>1, <2>3 DEF RequestsInv
<1>7. TakesOn(a, t)
  BY <1>3, <1>4, <1>5, <1>6 DEF TakesOn
<1>8. UNCHANGED <<client, cursor, toClient>>
  BY DEF TakeReport, cursorVars
<1>9. toClient' = [c \in Client |-> toClient'[c]]
  BY <1>8 DEF IInv, ChannelsInv
<1>10. task' = [task EXCEPT ![a] = t]
  BY <1>1, <1>2 DEF TakeReport, SetTask
<1>11. PICK n : n.type # "text_edit" /\ n.type # "change_focus"
  <2>1. TextOperationFailed.type # "text_edit" /\ TextOperationFailed.type # "change_focus"
    BY DEF TextOperationFailed
  <2>2. QED
    BY <2>1
<1>12. QED
  BY <1>5, <1>7, <1>8, <1>9, <1>10, <1>11, ServerStep

LEMMA ReadContentStep ==
  ASSUME IInv, NEW a \in Client, ReadContent(a), UNCHANGED cursorVars
  PROVE  IInv'
<1>1. PICK t : t = ReadingVersion(cell.content)
  OBVIOUS
<1>2. t.at # "broadcast"
  BY <1>1 DEF ReadingVersion
<1>3. toServer[a] # <<>> /\ toServer' = [toServer EXCEPT ![a] = Tail(@)]
  BY DEF ReadContent, Takes
<1>4. /\ toServer' = [c \in Client |-> toServer'[c]]
      /\ toServer'[a] = Tail(toServer[a])
      /\ \A c \in Client \ {a} : toServer'[c] = toServer[c]
  BY <1>3, Taken
<1>5. TakesOn(a, t)
  BY <1>2, <1>3, <1>4 DEF TakesOn
<1>6. UNCHANGED <<client, cursor, toClient>>
  BY DEF ReadContent, cursorVars
<1>7. toClient' = [c \in Client |-> toClient'[c]]
  BY <1>6 DEF IInv, ChannelsInv
<1>8. task' = [task EXCEPT ![a] = t]
  BY <1>1 DEF ReadContent, SetTask
<1>9. PICK n : n.type # "text_edit" /\ n.type # "change_focus"
  <2>1. TextOperationFailed.type # "text_edit" /\ TextOperationFailed.type # "change_focus"
    BY DEF TextOperationFailed
  <2>2. QED
    BY <2>1
<1>10. QED
  BY <1>4, <1>5, <1>6, <1>7, <1>8, <1>9, ServerStep

LEMMA SendResyncStep ==
  ASSUME IInv, NEW a \in Client, SendResync(a), UNCHANGED cursorVars
  PROVE  IInv'
<1>1. PICK t : t = Idle
  OBVIOUS
<1>2. t.at # "broadcast"
  BY <1>1 DEF Idle
<1>3. UNCHANGED <<client, cursor, toServer>>
  BY DEF SendResync, cursorVars
<1>4. TakesOn(a, t)
  BY <1>2, <1>3 DEF TakesOn
<1>5. PICK m : m = CellResync(task[a].content, cell.version)
  OBVIOUS
<1>6. m.type # "text_edit" /\ m.type # "change_focus"
  BY <1>5 DEF CellResync
<1>7. toClient' = [toClient EXCEPT ![a] = Append(@, m)]
  BY <1>5 DEF SendResync, Deliver
<1>8. /\ toClient' = [c \in Client |-> toClient'[c]]
      /\ toClient'[a] = Append(toClient[a], m)
      /\ \A c \in Client \ {a} : toClient'[c] = toClient[c]
  BY <1>7, Delivered
<1>9. toServer' = [c \in Client |-> toServer'[c]]
  BY <1>3 DEF IInv, ChannelsInv
<1>10. task' = [task EXCEPT ![a] = t]
  BY <1>1 DEF SendResync, SetTask
<1>11. QED
  BY <1>3, <1>4, <1>6, <1>8, <1>9, <1>10, ServerStep

LEMMA FailStep ==
  ASSUME IInv, NEW a \in Client, Fail(a), UNCHANGED cursorVars
  PROVE  IInv'
<1>1. task[a] = Idle /\ UNCHANGED <<task, client, cursor>>
  BY DEF Fail, Takes, serverVars, cursorVars
<1>2. PICK t : t = Idle
  OBVIOUS
<1>3. t.at # "broadcast"
  BY <1>2 DEF Idle
<1>4. task' = [task EXCEPT ![a] = t]
  BY <1>1, <1>2 DEF IInv, ChannelsInv
<1>5. toServer[a] # <<>> /\ toServer' = [toServer EXCEPT ![a] = Tail(@)]
  BY DEF Fail, Takes
<1>6. /\ toServer' = [c \in Client |-> toServer'[c]]
      /\ toServer'[a] = Tail(toServer[a])
      /\ \A c \in Client \ {a} : toServer'[c] = toServer[c]
  BY <1>5, Taken
<1>7. TakesOn(a, t)
  BY <1>3, <1>5, <1>6 DEF TakesOn
<1>8. PICK m : m = TextOperationFailed
  OBVIOUS
<1>9. m.type # "text_edit" /\ m.type # "change_focus"
  BY <1>8 DEF TextOperationFailed
<1>10. toClient' = [toClient EXCEPT ![a] = Append(@, m)]
  BY <1>8 DEF Fail, Deliver
<1>11. /\ toClient' = [c \in Client |-> toClient'[c]]
       /\ toClient'[a] = Append(toClient[a], m)
       /\ \A c \in Client \ {a} : toClient'[c] = toClient[c]
  BY <1>10, Delivered
<1>12. QED
  BY <1>1, <1>4, <1>6, <1>7, <1>9, <1>11, ServerStep

\* One more recipient gets the message.
LEMMA SendStep ==
  ASSUME IInv, NEW a \in Client, Send(a), UNCHANGED cursorVars
  PROVE  IInv'
<1>1. UNCHANGED <<client, cursor, toServer>> /\ task[a].at = "broadcast"
  BY DEF Send, cursorVars
<1>2. PICK d \in task[a].rest :
        /\ Deliver(d, task[a].message)
        /\ SetTask(a, IF task[a].rest = {d} THEN Idle
                      ELSE [task[a] EXCEPT !.rest = @ \ {d}])
  BY DEF Send
<1>3. PICK m : m = task[a].message
  OBVIOUS
<1>4. PICK t : t = IF task[a].rest = {d} THEN Idle
                   ELSE [task[a] EXCEPT !.rest = @ \ {d}]
  OBVIOUS
<1>5. /\ DOMAIN task[a] = {"at", "message", "rest"} /\ task[a].rest \subseteq Client
      /\ m.author = a
      /\ m.type = "change_focus" => Reports(a, m.edit)
  BY <1>1, <1>3 DEF IInv, FlowInv, SendingInv
<1>6. \/ t.at # "broadcast"
      \/ /\ DOMAIN t = {"at", "message", "rest"}
         /\ t.message = m /\ t.rest \subseteq task[a].rest
  BY <1>3, <1>4, <1>5 DEF Idle
<1>7. /\ task' = [c \in Client |-> task'[c]]
      /\ task'[a] = t /\ \A c \in Client \ {a} : task'[c] = task[c]
  <2>1. task = [c \in Client |-> task[c]]
    BY DEF IInv, ChannelsInv
  <2>2. task' = [task EXCEPT ![a] = t]
    BY <1>2, <1>4 DEF SetTask
  <2>3. task' = [c \in Client |-> IF c = a THEN t ELSE task[c]]
    BY <2>1, <2>2
  <2>4. QED
    BY <2>3
<1>8. d \in Client
  BY <1>2, <1>5
<1>9. /\ toClient' = [c \in Client |-> toClient'[c]]
      /\ toClient'[d] = Append(toClient[d], m)
      /\ \A c \in Client \ {d} : toClient'[c] = toClient[c]
  BY <1>2, <1>3, <1>8, Delivered DEF Deliver
<1>10. ASSUME NEW c \in Client, NEW e
       PROVE  /\ Reports(c, e) => Reports(c, e)'
              /\ \A f \in Client : NotSent(c, f, e) => NotSent(c, f, e)'
  <2>1. Reports(c, e) => Reports(c, e)'
    BY <1>1 DEF Reports, Clear
  <2>2. ASSUME NEW f \in Client, NotSent(c, f, e)
        PROVE  NotSent(c, f, e)'
    <3>1. CASE c = a
      BY <1>1, <1>3, <1>6, <1>7, <2>2, <3>1 DEF NotSent
    <3>2. CASE c # a
      BY <1>7, <2>2, <3>2 DEF NotSent
    <3>3. QED
      BY <3>1, <3>2
  <2>3. QED
    BY <2>1, <2>2
<1>11. SendingInv(a)'
  <2>1. CASE t.at # "broadcast"
    BY <1>7, <2>1 DEF SendingInv
  <2>2. CASE /\ DOMAIN t = {"at", "message", "rest"}
             /\ t.message = m /\ t.rest \subseteq task[a].rest
    <3>1. m.type = "change_focus" => Reports(a, m.edit)'
      BY <1>5, <1>10
    <3>2. m.type = "change_focus" =>
            m.edit \in 0..client'[a].sent /\ Clear(toServer'[a], 0, m.edit)
      BY <3>1 DEF Reports, Clear
    <3>3. t.rest \subseteq Client /\ t.message.author = a
      BY <1>5, <2>2
    <3>4. QED
      BY <1>7, <2>2, <3>2, <3>3 DEF SendingInv, Reports, Clear
  <2>3. QED
    BY <1>6, <2>1, <2>2
<1>12. ASSUME NEW c \in Client
       PROVE  RequestsInv(c)' /\ SendingInv(c)'
  <2>1. RequestsInv(c)'
    BY <1>1 DEF IInv, FlowInv, RequestsInv, Clear
  <2>2. CASE c = a
    BY <1>11, <2>1, <2>2
  <2>3. CASE c # a
    <3>1. task'[c] = task[c] /\ SendingInv(c)
      BY <1>7, <2>3 DEF IInv, FlowInv
    <3>2. QED
      BY <1>10, <2>1, <3>1 DEF SendingInv
  <2>4. QED
    BY <2>2, <2>3
<1>13. ASSUME NEW c \in Client
       PROVE  MessagesInv(c, d)' /\ IsSequence(toClient'[d])
  <2>1. PICK q, r : q = toClient[d] /\ r = toClient'[d]
    OBVIOUS
  <2>2. IsSequence(q)
    BY <1>8, <2>1 DEF IInv, ChannelsInv
  <2>3. r = Append(q, m)
    BY <1>9, <2>1
  <2>4. IsSequence(r) /\ EndsWith(q, m, r)
    BY <2>2, <2>3, EntriesAnd
  <2>5. ASSUME NEW n \in 1..Len(r), r[n].type = "change_focus", r[n].author = c
        PROVE  /\ Reports(c, r[n].edit)' /\ NotSent(c, d, r[n].edit)'
               /\ ClearOf(c, r, n, r[n].edit)
    <3>1. CASE n \in 1..Len(q) /\ n \in Nat /\ r[n] = q[n]
      <4>1. PICK e : e = q[n].edit
        OBVIOUS
      <4>2. Reports(c, e) /\ NotSent(c, d, e) /\ ClearOf(c, q, n, e)
        BY <1>8, <2>1, <2>5, <3>1, <4>1 DEF IInv, FlowInv, MessagesInv
      <4>3. m.type = "text_edit" /\ m.author = c => m.id # e
        BY <1>1, <1>2, <1>3, <1>5, <4>2 DEF NotSent
      <4>4. ClearOf(c, r, n, e)
        BY <2>2, <2>3, <3>1, <4>2, <4>3, ClearAppend
      <4>5. Reports(c, e)' /\ NotSent(c, d, e)'
        BY <1>8, <1>10, <4>2
      <4>6. r[n].edit = e
        BY <3>1, <4>1
      <4>7. QED
        BY <4>4, <4>5, <4>6 DEF Reports, NotSent, ClearOf, Clear
    <3>2. CASE r[n] = m /\ \A e : ClearOf(c, r, n, e)
      <4>1. PICK e : e = m.edit
        OBVIOUS
      <4>2. c = a /\ m.type = "change_focus"
        BY <1>5, <2>5, <3>2
      <4>3. Reports(c, e)'
        BY <1>5, <1>10, <4>1, <4>2
      <4>4. NotSent(c, d, e)'
        BY <1>6, <1>7, <4>2 DEF NotSent
      <4>5. r[n].edit = e
        BY <3>2, <4>1
      <4>6. QED
        BY <3>2, <4>3, <4>4, <4>5 DEF Reports, NotSent, Clear
    <3>3. QED
      BY <2>4, <2>5, <3>1, <3>2 DEF EndsWith
  <2>6. MessagesInv(c, d)'
    BY <2>1, <2>5 DEF MessagesInv, Reports, NotSent, ClearOf, Clear
  <2>7. QED
    BY <2>1, <2>4, <2>6
<1>14. ASSUME NEW c \in Client, NEW f \in Client, f # d
       PROVE  MessagesInv(c, f)'
  <2>1. toClient'[f] = toClient[f] /\ MessagesInv(c, f)
    BY <1>9, <1>14 DEF IInv, FlowInv
  <2>2. QED
    BY <1>10, <2>1 DEF MessagesInv, ClearOf
<1>15. AuthorsInv'
  <2>1. ASSUME NEW f \in Client, NEW n \in 1..Len(toClient'[f]),
               toClient'[f][n].type = "change_focus"
        PROVE  toClient'[f][n].author \in Client
    <3>1. PICK q, r : q = toClient[f] /\ r = toClient'[f]
      OBVIOUS
    <3>2. CASE f # d
      BY <1>9, <2>1, <3>2 DEF IInv, FlowInv, AuthorsInv
    <3>3. CASE f = d
      <4>1. IsSequence(q)
        BY <3>1 DEF IInv, ChannelsInv
      <4>2. r = Append(q, m)
        BY <1>9, <3>1, <3>3
      <4>3. EndsWith(q, m, r)
        BY <4>1, <4>2, EntriesAnd
      <4>4. (n \in 1..Len(q) /\ r[n] = q[n]) \/ r[n] = m
        BY <2>1, <3>1, <4>3 DEF EndsWith
      <4>5. QED
        BY <1>5, <2>1, <3>1, <4>4 DEF IInv, FlowInv, AuthorsInv
    <3>4. QED
      BY <3>2, <3>3
  <2>2. QED
    BY <2>1 DEF AuthorsInv
<1>16. ChannelsInv'
  <2>1. ASSUME NEW f \in Client
        PROVE  IsSequence(toClient'[f]) /\ IsSequence(toServer'[f])
    BY <1>1, <1>9, <1>13 DEF IInv, ChannelsInv
  <2>2. toServer' = [c \in Client |-> toServer'[c]]
    BY <1>1 DEF IInv, ChannelsInv
  <2>3. QED
    BY <1>7, <1>9, <2>1, <2>2 DEF ChannelsInv, IsSequence
<1>17. ClientsInv' /\ CursorsInv'
  BY <1>1 DEF IInv, ClientsInv, CursorsInv
<1>18. QED
  BY <1>12, <1>13, <1>14, <1>15, <1>16, <1>17 DEF IInv, FlowInv

----------------------------------------------------------------------------
(* The results.                                                            *)

\* Nothing is on its way at first.
LEMMA InitInv == CursorInit => IInv
<1> SUFFICES ASSUME CursorInit
             PROVE  IInv
  OBVIOUS
<1>1. /\ task = [c \in Client |-> Idle]
      /\ toServer = [c \in Client |-> <<>>]
      /\ toClient = [c \in Client |-> <<>>]
      /\ client = [c \in Client |->
           [content |-> InitialText, version |-> 0, buffer |-> None,
            unconfirmed |-> None, sent |-> 0]]
      /\ cursor = [c \in Client |-> [noted |-> None, waiting |-> None, sent |-> None,
                                     count |-> 0]]
  BY DEF CursorInit, Init
<1>2. \A c \in Client : client[c].sent = 0 /\ task[c].at # "broadcast"
  BY <1>1 DEF Idle
<1>3. ASSUME NEW c \in Client
      PROVE  /\ IsSequence(toServer[c]) /\ IsSequence(toClient[c])
             /\ Len(toServer[c]) = 0 /\ Len(toClient[c]) = 0
  <2>1. toServer[c] = <<>> /\ toClient[c] = <<>>
    BY <1>1
  <2>2. <<>> \in Seq({})
    OBVIOUS
  <2>3. IsSequence(<<>>)
    BY <2>2, SeqIsSequence
  <2>4. QED
    BY <2>1, <2>3
<1>4. ClientsInv
  BY <1>1 DEF ClientsInv
<1>5. CursorsInv
  BY <1>1 DEF CursorsInv
<1>6. ChannelsInv
  BY <1>1, <1>3 DEF ChannelsInv
<1>7. \A c \in Client : RequestsInv(c) /\ SendingInv(c)
  BY <1>2, <1>3 DEF RequestsInv, SendingInv
<1>8. (\A c, d \in Client : MessagesInv(c, d)) /\ AuthorsInv
  BY <1>3 DEF MessagesInv, AuthorsInv
<1>9. QED
  BY <1>4, <1>5, <1>6, <1>7, <1>8 DEF IInv, FlowInv

LEMMA StepInv == IInv /\ [CursorNext]_<<vars, cursorVars>> => IInv'
<1> SUFFICES ASSUME IInv, [CursorNext]_<<vars, cursorVars>>
             PROVE  IInv'
  OBVIOUS
<1>1. ASSUME NEW c \in Client, Typing(c)
      PROVE  IInv'
  BY <1>1, TypeStep, MoveStep, RestoreStep DEF Typing
<1>2. ASSUME NEW c \in Client, Timers(c)
      PROVE  IInv'
  BY <1>2, FlushStep, FlushCursorStep, SendReportStep DEF Timers
<1>3. ASSUME NEW c \in Client, Receiving(c)
      PROVE  IInv'
  BY <1>3, ReceiveStep, ReceiveCursorStep DEF Receiving
<1>4. ASSUME NEW c \in Client, Handling(c)
      PROVE  IInv'
  <2>1. CASE TakeReport(c)
    BY <2>1, TakeReportStep
  <2>2. CASE Handle(c) /\ UNCHANGED cursorVars
    BY <2>2, CommitStep, SendStep, ReadContentStep, SendResyncStep, FailStep DEF Handle
  <2>3. QED
    BY <1>4, <2>1, <2>2 DEF Handling, HandleText
<1>5. CASE UNCHANGED <<vars, cursorVars>>
  BY <1>5 DEF IInv, ClientsInv, CursorsInv, ChannelsInv, FlowInv, RequestsInv, SendingInv,
              MessagesInv, AuthorsInv, Reports, NotSent, Clear, ClearOf, vars, cursorVars
<1>6. QED
  BY <1>1, <1>2, <1>3, <1>4, <1>5 DEF CursorNext

\* The edit a cursor on its way was moved by is not to come any more: not from the
\* client's channel, not from the broadcast, not behind it, and not from the buffer.
LEMMA NothingBehind == IInv => CursorAfterItsEdit
<1> SUFFICES ASSUME IInv, NEW d \in Client, NEW n \in DOMAIN toClient[d],
                    toClient[d][n].type = "change_focus"
             PROVE  toClient[d][n].edit \notin StillToCome(toClient[d][n].author, d, n)
  BY DEF CursorAfterItsEdit
<1>1. PICK q : q = toClient[d]
  OBVIOUS
<1>2. IsSequence(q)
  BY <1>1 DEF IInv, ChannelsInv
<1>3. n \in 1..Len(q)
  BY <1>1, <1>2 DEF IsSequence
<1>4. PICK c, e : c = q[n].author /\ e = q[n].edit
  OBVIOUS
<1>5. c \in Client
  BY <1>1, <1>3, <1>4 DEF IInv, FlowInv, AuthorsInv
<1>6. Reports(c, e) /\ NotSent(c, d, e) /\ ClearOf(c, q, n, e)
  BY <1>1, <1>3, <1>4, <1>5 DEF IInv, FlowInv, MessagesInv
<1>7. e \notin EditsIn(Range(toServer[c]))
  <2>1. IsSequence(toServer[c])
    BY <1>5 DEF IInv, ChannelsInv
  <2>2. ASSUME NEW m \in Range(toServer[c]), m.type = "text_edit"
        PROVE  m.id # e
    <3>1. PICK j \in 1..Len(toServer[c]) : m = toServer[c][j]
      BY <2>1 DEF Range, IsSequence
    <3>2. QED
      BY <1>6, <2>2, <3>1 DEF Reports, Clear
  <2>3. QED
    BY <2>2 DEF EditsIn
<1>8. e \notin EditsIn(IF task[c].at = "broadcast" /\ d \in task[c].rest
                       THEN {task[c].message} ELSE {})
  BY <1>6 DEF EditsIn, NotSent
<1>9. e \notin EditsIn({q[i] : i \in {i \in n + 1..Len(q) :
                                        q[i].type = "text_edit" /\ q[i].author = c}})
  BY <1>6 DEF EditsIn, ClearOf
<1>10. e \notin IF client[c].buffer = None THEN {} ELSE {LastEdit(c)}
  <2>1. e \in 0..client[c].sent /\ client[c].sent \in Nat
    BY <1>5, <1>6 DEF Reports, IInv, ClientsInv
  <2>2. client[c].buffer # None => LastEdit(c) = client[c].sent + 1
    BY DEF LastEdit
  <2>3. QED
    BY <2>1, <2>2
<1>11. e \notin StillToCome(c, d, n)
  BY <1>1, <1>7, <1>8, <1>9, <1>10 DEF StillToCome
<1>12. QED
  BY <1>1, <1>4, <1>11

\* useTextSync.ts:19: however typing, timers, the handlers' tasks and the broadcasts to
\* the others interleave, a cursor never reaches another client ahead of the edit that
\* moved it.
THEOREM CursorAfterItsEditAlways == CursorSpec => []CursorAfterItsEdit
BY InitInv, StepInv, NothingBehind, PTL DEF CursorSpec

----------------------------------------------------------------------------
(* The last cursor of a client: where the last report of it is, on the way *)
(* to another client.                                                      *)

IsReport(m, c) == m.type = "change_focus" /\ m.author = c

NoReport(q, c) == \A i \in 1..Len(q) : ~IsReport(q[i], c)

\* The last report of c in q is that of its cursor k.
LastIs(q, c, k) ==
  \E i \in 1..Len(q) : /\ IsReport(q[i], c) /\ q[i].serial = k
                       /\ \A j \in 1..Len(q) : j > i => ~IsReport(q[j], c)

Sends(c, d) ==
  task[c].at = "broadcast" /\ d \in task[c].rest /\ IsReport(task[c].message, c)

\* When all that is on its way has come, d shows cursor k of c.
Comes(c, d, k) ==
  \/ LastIs(toServer[c], c, k)
  \/ /\ NoReport(toServer[c], c)
     /\ \/ Sends(c, d) /\ task[c].message.serial = k
        \/ /\ ~Sends(c, d)
           /\ \/ LastIs(toClient[d], c, k)
              \/ NoReport(toClient[d], c) /\ shown[d][c] = k

\* The last cursor of c is noted, or it waits, or it has been sent and nothing
\* will be sent after it.
HeldOrSent(c) ==
  LET s == cursor[c]
  IN  \/ s.noted # None /\ s.noted[1].serial = s.count
      \/ s.waiting # None /\ s.waiting[1].serial = s.count
      \/ s.waiting = None /\ \A d \in Client \ {c} : Comes(c, d, s.count)

ShownInv ==
  /\ shown = [d \in Client |-> shown[d]]
  /\ \A d \in Client : DOMAIN shown[d] = Client \ {d}

LastInv == ShownInv /\ \A c \in Client \ misled : HeldOrSent(c)

LEMMA LastAppended ==
  ASSUME NEW q, IsSequence(q), NEW m, NEW c
  PROVE  /\ IsReport(m, c) => LastIs(Append(q, m), c, m.serial)
         /\ ~IsReport(m, c) /\ NoReport(q, c) => NoReport(Append(q, m), c)
         /\ \A k : ~IsReport(m, c) /\ LastIs(q, c, k) => LastIs(Append(q, m), c, k)
<1>1. PICK r, n : r = Append(q, m) /\ n = Len(q)
  OBVIOUS
<1>2. /\ n \in Nat /\ Len(r) = n + 1 /\ r[n + 1] = m
      /\ \A i \in 1..n : r[i] = q[i]
  BY <1>1, AppendIsSequence DEF IsSequence
<1>3. ASSUME IsReport(m, c)
      PROVE  LastIs(r, c, m.serial)
  <2>1. n + 1 \in 1..Len(r) /\ \A j \in 1..Len(r) : ~(j > n + 1)
    BY <1>2
  <2>2. QED
    BY <1>2, <1>3, <2>1 DEF LastIs
<1>4. ASSUME ~IsReport(m, c), NoReport(q, c)
      PROVE  NoReport(r, c)
  BY <1>1, <1>2, <1>4 DEF NoReport
<1>5. ASSUME NEW k, ~IsReport(m, c), LastIs(q, c, k)
      PROVE  LastIs(r, c, k)
  <2>1. PICK i \in 1..n : /\ IsReport(q[i], c) /\ q[i].serial = k
                          /\ \A j \in 1..n : j > i => ~IsReport(q[j], c)
    BY <1>1, <1>5 DEF LastIs
  <2>2. i \in 1..Len(r) /\ IsReport(r[i], c) /\ r[i].serial = k
    BY <1>2, <2>1
  <2>3. \A j \in 1..Len(r) : j > i => ~IsReport(r[j], c)
    BY <1>2, <1>5, <2>1
  <2>4. QED
    BY <2>2, <2>3 DEF LastIs
<1>6. QED
  BY <1>1, <1>3, <1>4, <1>5

LEMMA LastTaken ==
  ASSUME NEW q, IsSequence(q), q # <<>>, NEW c
  PROVE  /\ NoReport(q, c) => NoReport(Tail(q), c)
         /\ \A k : LastIs(q, c, k) =>
              \/ LastIs(Tail(q), c, k)
              \/ IsReport(q[1], c) /\ q[1].serial = k /\ NoReport(Tail(q), c)
<1>1. PICK r, n : r = Tail(q) /\ n = Len(q)
  OBVIOUS
<1>2. n \in Nat /\ n > 0 /\ Len(r) = n - 1 /\ \A i \in 1..n - 1 : r[i] = q[i + 1]
  BY <1>1, HeadOfSequence, TailIsSequence
<1>3. NoReport(q, c) => NoReport(r, c)
  BY <1>1, <1>2 DEF NoReport
<1>4. ASSUME NEW k, LastIs(q, c, k)
      PROVE  \/ LastIs(r, c, k)
             \/ IsReport(q[1], c) /\ q[1].serial = k /\ NoReport(r, c)
  <2>1. PICK i \in 1..n : /\ IsReport(q[i], c) /\ q[i].serial = k
                          /\ \A j \in 1..n : j > i => ~IsReport(q[j], c)
    BY <1>1, <1>4 DEF LastIs
  <2>2. ASSUME NEW j \in 1..n - 1, j > i - 1
        PROVE  ~IsReport(r[j], c)
    <3>1. j + 1 \in 1..n /\ j + 1 > i
      BY <1>2, <2>2
    <3>2. QED
      BY <1>2, <2>1, <3>1
  <2>3. CASE i = 1
    <3>1. \A j \in 1..n - 1 : j > i - 1
      BY <2>3
    <3>2. NoReport(r, c)
      BY <1>2, <2>2, <3>1 DEF NoReport
    <3>3. QED
      BY <2>1, <2>3, <3>2
  <2>4. CASE i # 1
    <3>1. i - 1 \in 1..n - 1 /\ r[i - 1] = q[i]
      BY <1>2, <2>4
    <3>2. LastIs(r, c, k)
      BY <1>2, <2>1, <2>2, <3>1 DEF LastIs
    <3>3. QED
      BY <3>2
  <2>5. QED
    BY <2>3, <2>4
<1>5. QED
  BY <1>1, <1>3, <1>4

\* r is q without its head, or with an entry behind, or q; no report of c comes or goes.
KeptIn(q, r, c) ==
  \/ r = q
  \/ \E m : r = Append(q, m) /\ ~IsReport(m, c)
  \/ q # <<>> /\ r = Tail(q) /\ ~IsReport(q[1], c)

LEMMA KeptInKeeps ==
  ASSUME NEW q, IsSequence(q), NEW r, NEW c, KeptIn(q, r, c)
  PROVE  /\ NoReport(q, c) => NoReport(r, c)
         /\ \A k : LastIs(q, c, k) => LastIs(r, c, k)
<1>1. CASE r = q
  BY <1>1
<1>2. ASSUME NEW m, r = Append(q, m), ~IsReport(m, c)
      PROVE  /\ NoReport(q, c) => NoReport(r, c)
             /\ \A k : LastIs(q, c, k) => LastIs(r, c, k)
  BY <1>2, LastAppended
<1>3. CASE q # <<>> /\ r = Tail(q) /\ ~IsReport(q[1], c)
  <2>1. q # <<>>
    BY <1>3
  <2>2. /\ NoReport(q, c) => NoReport(Tail(q), c)
        /\ \A k : LastIs(q, c, k) =>
             \/ LastIs(Tail(q), c, k)
             \/ IsReport(q[1], c) /\ q[1].serial = k /\ NoReport(Tail(q), c)
    BY <2>1, LastTaken
  <2>3. QED
    BY <1>3, <2>2
<1>4. QED
  BY <1>1, <1>2, <1>3 DEF KeptIn

\* What will be shown of c at d when all has come: a step leaves it.
FlowsOn(c, d) == \A k : Comes(c, d, k) => Comes(c, d, k)'

\* No report of c moves.
LEMMA CalmFlow ==
  ASSUME IInv, NEW c \in Client, NEW d \in Client,
         KeptIn(toServer[c], toServer'[c], c), KeptIn(toClient[d], toClient'[d], c),
         Sends(c, d)' <=> Sends(c, d),
         Sends(c, d) => task'[c].message = task[c].message,
         shown'[d][c] = shown[d][c]
  PROVE  FlowsOn(c, d)
<1>1. PICK q, r, p, o : /\ q = toServer[c] /\ r = toServer'[c]
                        /\ p = toClient[d] /\ o = toClient'[d]
  OBVIOUS
<1>2. IsSequence(q) /\ IsSequence(p)
  BY <1>1 DEF IInv, ChannelsInv
<1>3. KeptIn(q, r, c) /\ KeptIn(p, o, c)
  BY <1>1
<1>4. /\ NoReport(q, c) => NoReport(r, c)
      /\ \A k : LastIs(q, c, k) => LastIs(r, c, k)
      /\ NoReport(p, c) => NoReport(o, c)
      /\ \A k : LastIs(p, c, k) => LastIs(o, c, k)
  BY <1>2, <1>3, KeptInKeeps
<1>5. /\ NoReport(toServer[c], c) => NoReport(toServer[c], c)'
      /\ \A k : LastIs(toServer[c], c, k) => LastIs(toServer[c], c, k)'
      /\ NoReport(toClient[d], c) => NoReport(toClient[d], c)'
      /\ \A k : LastIs(toClient[d], c, k) => LastIs(toClient[d], c, k)'
  BY <1>1, <1>4 DEF NoReport, LastIs, IsReport
<1>6. ASSUME NEW k, Comes(c, d, k)
      PROVE  Comes(c, d, k)'
  <2>1. CASE LastIs(toServer[c], c, k)
    BY <1>5, <2>1 DEF Comes
  <2>2. CASE /\ NoReport(toServer[c], c)
             /\ Sends(c, d) /\ task[c].message.serial = k
    BY <1>5, <2>2 DEF Comes
  <2>3. CASE /\ NoReport(toServer[c], c) /\ ~Sends(c, d)
             /\ \/ LastIs(toClient[d], c, k)
                \/ NoReport(toClient[d], c) /\ shown[d][c] = k
    BY <1>5, <2>3 DEF Comes
  <2>4. QED
    BY <1>6, <2>1, <2>2, <2>3 DEF Comes
<1>7. QED
  BY <1>6 DEF FlowsOn

\* The same when neither a task nor what is shown changes.
LEMMA ClientFlow ==
  ASSUME IInv, UNCHANGED <<task, shown>>, NEW c \in Client, NEW d \in Client,
         KeptIn(toServer[c], toServer'[c], c), KeptIn(toClient[d], toClient'[d], c)
  PROVE  FlowsOn(c, d)
<1>1. Sends(c, d)' <=> Sends(c, d)
  BY DEF Sends, IsReport
<1>2. QED
  BY <1>1, CalmFlow

\* attemptFlush hands over no report.
LEMMA FlushKeeps ==
  ASSUME IInv, NEW a \in Client, NEW s, DOMAIN s = StoreFields,
         AttemptFlush(a, s), NEW c \in Client
  PROVE  KeptIn(toServer[c], toServer'[c], c)
<1>1. CASE UNCHANGED toServer
  BY <1>1 DEF KeptIn
<1>2. CASE toServer' = [toServer EXCEPT ![a] = Append(@, Flushed(s).unconfirmed[1])]
  <2>1. PICK m : m = Flushed(s).unconfirmed[1]
    OBVIOUS
  <2>2. toServer' = [toServer EXCEPT ![a] = Append(@, m)]
    BY <1>2, <2>1
  <2>3. /\ toServer'[a] = Append(toServer[a], m)
        /\ \A b \in Client \ {a} : toServer'[b] = toServer[b]
    BY <2>2, Handed
  <2>4. m = EditRequest(s.sent + 1, s.version, s.buffer[1])
    BY <2>1 DEF Flushed, StoreFields
  <2>5. ~IsReport(m, c)
    BY <2>4 DEF EditRequest, IsReport
  <2>6. QED
    BY <2>3, <2>5 DEF KeptIn
<1>3. QED
  BY <1>1, <1>2 DEF AttemptFlush

LEMMA FlushFlow ==
  ASSUME IInv, NEW a \in Client, FlushBoth(a), NEW c \in Client, NEW d \in Client
  PROVE  FlowsOn(c, d)
<1>1. AttemptFlush(a, client[a]) /\ DOMAIN client[a] = StoreFields
  BY DEF FlushBoth, Flush, AttemptFlush, IInv, ClientsInv, StoreFields
<1>2. KeptIn(toServer[c], toServer'[c], c)
  BY <1>1, FlushKeeps
<1>3. UNCHANGED <<task, toClient, shown>>
  BY DEF FlushBoth, Flush, FlushNoted, serverVars
<1>4. KeptIn(toClient[d], toClient'[d], c)
  BY <1>3 DEF KeptIn
<1>5. QED
  BY <1>2, <1>3, <1>4, ClientFlow

\* A channel's head is taken that is no report.
LEMMA TakenKeeps ==
  ASSUME IInv, NEW a \in Client, toClient[a] # <<>>,
         toClient' = [toClient EXCEPT ![a] = Tail(@)],
         NEW c \in Client, NEW d \in Client,
         a = d => ~IsReport(Head(toClient[a]), c)
  PROVE  KeptIn(toClient[d], toClient'[d], c)
<1>1. toClient = [b \in Client |-> toClient[b]] /\ IsSequence(toClient[a])
  BY DEF IInv, ChannelsInv
<1>2. toClient' = [b \in Client |-> IF b = a THEN Tail(toClient[a]) ELSE toClient[b]]
  BY <1>1
<1>3. CASE d # a
  BY <1>2, <1>3 DEF KeptIn
<1>4. CASE d = a
  <2>1. toClient'[d] = Tail(toClient[d])
    BY <1>2, <1>4
  <2>2. Head(toClient[a]) = toClient[a][1]
    BY <1>1, HeadOfSequence
  <2>3. QED
    BY <1>4, <2>1, <2>2 DEF KeptIn
<1>5. QED
  BY <1>3, <1>4

LEMMA ReceiveFlow ==
  ASSUME IInv, NEW a \in Client, ReceiveForText(a), NEW c \in Client, NEW d \in Client
  PROVE  FlowsOn(c, d)
<1>1. PICK m : m = Head(toClient[a])
  OBVIOUS
<1>2. ReceiveTextEdit(a, m) \/ ReceiveCellResync(a, m) \/ ReceiveFailure(a, m)
  BY <1>1 DEF ReceiveForText, Receive
<1>3. m.type # "change_focus"
  BY <1>2 DEF ReceiveTextEdit, ReceiveCellResync, ReceiveFailure
<1>4. KeptIn(toServer[c], toServer'[c], c)
  <2>1. PICK b : b = client[a]
    OBVIOUS
  <2>2. DOMAIN b = StoreFields
    BY <2>1 DEF IInv, ClientsInv, StoreFields
  <2>3. \/ UNCHANGED toServer
        \/ AttemptFlush(a, Acknowledged(b, m))
        \/ AttemptFlush(a, Resynced(b, m))
        \/ AttemptFlush(a, [b EXCEPT !.unconfirmed = None])
    BY <1>2, <2>1 DEF ReceiveTextEdit, ReceiveCellResync, ReceiveFailure
  <2>4. /\ DOMAIN Acknowledged(b, m) = StoreFields
        /\ DOMAIN Resynced(b, m) = StoreFields
        /\ DOMAIN [b EXCEPT !.unconfirmed = None] = StoreFields
    BY <2>2 DEF Acknowledged, Resynced
  <2>5. UNCHANGED toServer \/ \E s : DOMAIN s = StoreFields /\ AttemptFlush(a, s)
    BY <2>3, <2>4
  <2>6. UNCHANGED toServer => KeptIn(toServer[c], toServer'[c], c)
    BY DEF KeptIn
  <2>7. QED
    BY <2>5, <2>6, FlushKeeps
<1>5. KeptIn(toClient[d], toClient'[d], c)
  <2>1. toClient[a] # <<>> /\ toClient' = [toClient EXCEPT ![a] = Tail(@)]
    BY DEF ReceiveForText, Receive
  <2>2. ~IsReport(Head(toClient[a]), c)
    BY <1>1, <1>3 DEF IsReport
  <2>3. QED
    BY <2>1, <2>2, TakenKeeps
<1>6. UNCHANGED task
  BY DEF ReceiveForText, Receive, serverVars
<1>7. UNCHANGED shown
  BY DEF ReceiveForText, FlushNoted
<1>8. QED
  BY <1>4, <1>5, <1>6, <1>7, ClientFlow

LEMMA StillFlow ==
  ASSUME IInv, UNCHANGED <<task, toServer, toClient, shown>>,
         NEW c \in Client, NEW d \in Client
  PROVE  FlowsOn(c, d)
<1>1. KeptIn(toServer[c], toServer'[c], c) /\ KeptIn(toClient[d], toClient'[d], c)
  BY DEF KeptIn
<1>2. QED
  BY <1>1, ClientFlow

\* The report that arrives is shown.
LEMMA ReceiveReportFlow ==
  ASSUME IInv, ShownInv, NEW a \in Client, ReceiveChangeFocus(a),
         NEW c \in Client, NEW d \in Client, c # d
  PROVE  FlowsOn(c, d)
<1>1. PICK m : m = Head(toClient[a])
  OBVIOUS
<1>2. /\ toClient[a] # <<>> /\ m.type = "change_focus"
      /\ toClient' = [toClient EXCEPT ![a] = Tail(@)]
      /\ shown' = [shown EXCEPT ![a][m.author] = m.serial]
      /\ UNCHANGED <<task, toServer>>
  BY <1>1 DEF ReceiveChangeFocus, serverVars
<1>3. PICK t : t = [shown[a] EXCEPT ![m.author] = m.serial]
  OBVIOUS
<1>4. shown' = [shown EXCEPT ![a] = t]
  BY <1>2, <1>3
<1>5. shown' = [b \in Client |-> IF b = a THEN t ELSE shown[b]]
  BY <1>4 DEF ShownInv
<1>6. c \in DOMAIN shown[d]
  BY DEF ShownInv
<1>7. \/ shown'[d][c] = shown[d][c]
      \/ a = d /\ m.author = c /\ shown'[d][c] = m.serial
  <2>1. CASE a # d
    BY <1>5, <2>1
  <2>2. CASE a = d /\ m.author # c
    BY <1>3, <1>5, <1>6, <2>2
  <2>3. CASE a = d /\ m.author = c
    BY <1>3, <1>5, <1>6, <2>3
  <2>4. QED
    BY <2>1, <2>2, <2>3
<1>8. CASE ~(a = d /\ m.author = c)
  <2>1. a = d => ~IsReport(Head(toClient[a]), c)
    BY <1>1, <1>8 DEF IsReport
  <2>2. KeptIn(toClient[d], toClient'[d], c)
    BY <1>2, <2>1, TakenKeeps
  <2>3. KeptIn(toServer[c], toServer'[c], c)
    BY <1>2 DEF KeptIn
  <2>4. Sends(c, d)' <=> Sends(c, d)
    BY <1>2 DEF Sends, IsReport
  <2>5. shown'[d][c] = shown[d][c] /\ task'[c].message = task[c].message
    BY <1>2, <1>7, <1>8
  <2>6. QED
    BY <2>2, <2>3, <2>4, <2>5, CalmFlow
<1>9. CASE a = d /\ m.author = c
  <2>1. PICK q, r : q = toClient[d] /\ r = toClient'[d]
    OBVIOUS
  <2>2. IsSequence(q) /\ q # <<>>
    BY <1>2, <1>9, <2>1 DEF IInv, ChannelsInv
  <2>3. q[1] = m /\ 1 \in 1..Len(q)
    BY <1>1, <1>9, <2>1, <2>2, HeadOfSequence
  <2>4. r = Tail(q)
    BY <1>2, <1>9, <2>1 DEF IInv, ChannelsInv
  <2>5. \A k : LastIs(q, c, k) =>
               LastIs(r, c, k) \/ (m.serial = k /\ NoReport(r, c))
    BY <2>2, <2>3, <2>4, LastTaken
  <2>6. ~NoReport(q, c)
    BY <1>2, <1>9, <2>3 DEF NoReport, IsReport
  <2>7. ~a # d /\ (shown'[d][c] = m.serial)
    BY <1>3, <1>5, <1>6, <1>9
  <2>8. Sends(c, d)' <=> Sends(c, d)
    BY <1>2 DEF Sends, IsReport
  <2>9. /\ NoReport(toServer[c], c) => NoReport(toServer[c], c)'
        /\ \A k : LastIs(toServer[c], c, k) => LastIs(toServer[c], c, k)'
    BY <1>2 DEF NoReport, LastIs, IsReport
  <2>10. /\ NoReport(r, c) => NoReport(toClient[d], c)'
         /\ \A k : LastIs(r, c, k) => LastIs(toClient[d], c, k)'
    BY <2>1 DEF NoReport, LastIs, IsReport
  <2>11. ASSUME NEW k, Comes(c, d, k)
         PROVE  Comes(c, d, k)'
    <3>1. CASE LastIs(toServer[c], c, k)
      BY <2>9, <3>1 DEF Comes
    <3>2. CASE /\ NoReport(toServer[c], c)
               /\ Sends(c, d) /\ task[c].message.serial = k
      BY <1>2, <2>8, <2>9, <3>2 DEF Comes
    <3>3. CASE NoReport(toServer[c], c) /\ ~Sends(c, d) /\ LastIs(toClient[d], c, k)
      <4>1. LastIs(toClient[d], c, k)' \/ (NoReport(toClient[d], c)' /\ shown'[d][c] = k)
        BY <2>1, <2>5, <2>7, <2>10, <3>3
      <4>2. QED
        BY <2>8, <2>9, <3>3, <4>1 DEF Comes
    <3>4. QED
      BY <2>1, <2>6, <2>11, <3>1, <3>2, <3>3 DEF Comes
  <2>12. QED
    BY <2>11 DEF FlowsOn
<1>10. QED
  BY <1>8, <1>9

\* The task of a goes on.
LEMMA TaskSet ==
  ASSUME IInv, NEW a \in Client, NEW t, task' = [task EXCEPT ![a] = t]
  PROVE  task'[a] = t /\ \A c \in Client \ {a} : task'[c] = task[c]
<1>1. task = [c \in Client |-> task[c]]
  BY DEF IInv, ChannelsInv
<1>2. task' = [c \in Client |-> IF c = a THEN t ELSE task[c]]
  BY <1>1
<1>3. QED
  BY <1>2

\* It sends no report, before and after.
LEMMA ServerFlow ==
  ASSUME IInv, UNCHANGED shown, NEW a \in Client, NEW t,
         task' = [task EXCEPT ![a] = t],
         NEW c \in Client, NEW d \in Client,
         ~Sends(a, d), t.at = "broadcast" => ~IsReport(t.message, a),
         KeptIn(toServer[c], toServer'[c], c), KeptIn(toClient[d], toClient'[d], c)
  PROVE  FlowsOn(c, d)
<1>1. task'[a] = t /\ \A b \in Client \ {a} : task'[b] = task[b]
  BY TaskSet
<1>2. /\ Sends(c, d)' <=> Sends(c, d)
      /\ Sends(c, d) => task'[c].message = task[c].message
  <2>1. CASE c = a
    BY <1>1, <2>1 DEF Sends, IsReport
  <2>2. CASE c # a
    BY <1>1, <2>2 DEF Sends, IsReport
  <2>3. QED
    BY <2>1, <2>2
<1>3. QED
  BY <1>2, CalmFlow

\* The handler takes a request that is no report.
LEMMA RequestTaken ==
  ASSUME IInv, NEW a \in Client, Takes(a), NEW c \in Client
  PROVE  KeptIn(toServer[c], toServer'[c], c)
<1>1. /\ toServer[a] # <<>> /\ Head(toServer[a]).type = "text_edit"
      /\ toServer' = [toServer EXCEPT ![a] = Tail(@)]
  BY DEF Takes
<1>2. /\ toServer'[a] = Tail(toServer[a])
      /\ \A b \in Client \ {a} : toServer'[b] = toServer[b]
  BY <1>1, Taken
<1>3. IsSequence(toServer[a])
  BY DEF IInv, ChannelsInv
<1>4. Head(toServer[a]) = toServer[a][1]
  BY <1>1, <1>3, HeadOfSequence
<1>5. ~IsReport(toServer[a][1], c)
  BY <1>1, <1>4 DEF IsReport
<1>6. QED
  BY <1>1, <1>2, <1>5 DEF KeptIn

LEMMA CommitFlow ==
  ASSUME IInv, NEW a \in Client, Commit(a), UNCHANGED cursorVars,
         NEW c \in Client, NEW d \in Client
  PROVE  FlowsOn(c, d)
<1>1. PICK id, version, real :
        task' = [task EXCEPT ![a] = Broadcasting(TextEdit(a, id, version, real), Client)]
  BY DEF Commit, SetTask
<1>2. PICK t : t = Broadcasting(TextEdit(a, id, version, real), Client)
  OBVIOUS
<1>3. task' = [task EXCEPT ![a] = t]
  BY <1>1, <1>2
<1>4. t.at = "broadcast" => ~IsReport(t.message, a)
  BY <1>2 DEF Broadcasting, TextEdit, IsReport
<1>5. task[a] = Idle /\ Takes(a)
  BY DEF Commit, Takes
<1>6. ~Sends(a, d)
  BY <1>5 DEF Sends, Idle
<1>7. KeptIn(toServer[c], toServer'[c], c)
  BY <1>5, RequestTaken
<1>8. UNCHANGED <<toClient, shown>>
  BY DEF Commit, cursorVars
<1>9. KeptIn(toClient[d], toClient'[d], c)
  BY <1>8 DEF KeptIn
<1>10. QED
  BY <1>3, <1>4, <1>6, <1>7, <1>8, <1>9, ServerFlow

LEMMA ReadContentFlow ==
  ASSUME IInv, NEW a \in Client, ReadContent(a), UNCHANGED cursorVars,
         NEW c \in Client, NEW d \in Client
  PROVE  FlowsOn(c, d)
<1>1. PICK t : t = ReadingVersion(cell.content)
  OBVIOUS
<1>2. task' = [task EXCEPT ![a] = t]
  BY <1>1 DEF ReadContent, SetTask
<1>3. t.at # "broadcast"
  BY <1>1 DEF ReadingVersion
<1>4. task[a] = Idle /\ Takes(a)
  BY DEF ReadContent, Takes
<1>5. ~Sends(a, d)
  BY <1>4 DEF Sends, Idle
<1>6. KeptIn(toServer[c], toServer'[c], c)
  BY <1>4, RequestTaken
<1>7. UNCHANGED <<toClient, shown>>
  BY DEF ReadContent, cursorVars
<1>8. KeptIn(toClient[d], toClient'[d], c)
  BY <1>7 DEF KeptIn
<1>9. QED
  BY <1>2, <1>3, <1>5, <1>6, <1>7, <1>8, ServerFlow

\* What is delivered is no report.
LEMMA DeliveredKeeps ==
  ASSUME IInv, NEW a \in Client, NEW m,
         toClient' = [toClient EXCEPT ![a] = Append(@, m)],
         NEW c \in Client, ~IsReport(m, c), NEW d \in Client
  PROVE  KeptIn(toClient[d], toClient'[d], c)
<1>1. /\ toClient'[a] = Append(toClient[a], m)
      /\ \A b \in Client \ {a} : toClient'[b] = toClient[b]
  BY Delivered
<1>2. QED
  BY <1>1 DEF KeptIn

LEMMA SendResyncFlow ==
  ASSUME IInv, NEW a \in Client, SendResync(a), UNCHANGED cursorVars,
         NEW c \in Client, NEW d \in Client
  PROVE  FlowsOn(c, d)
<1>1. PICK t : t = Idle
  OBVIOUS
<1>2. task' = [task EXCEPT ![a] = t]
  BY <1>1 DEF SendResync, SetTask
<1>3. t.at # "broadcast"
  BY <1>1 DEF Idle
<1>4. ~Sends(a, d)
  BY DEF SendResync, Sends
<1>5. UNCHANGED <<toServer, shown>>
  BY DEF SendResync, cursorVars
<1>6. KeptIn(toServer[c], toServer'[c], c)
  BY <1>5 DEF KeptIn
<1>7. PICK m : m = CellResync(task[a].content, cell.version)
  OBVIOUS
<1>8. ~IsReport(m, c)
  BY <1>7 DEF CellResync, IsReport
<1>9. toClient' = [toClient EXCEPT ![a] = Append(@, m)]
  BY <1>7 DEF SendResync, Deliver
<1>10. KeptIn(toClient[d], toClient'[d], c)
  BY <1>8, <1>9, DeliveredKeeps
<1>11. QED
  BY <1>2, <1>3, <1>4, <1>5, <1>6, <1>10, ServerFlow

LEMMA FailFlow ==
  ASSUME IInv, NEW a \in Client, Fail(a), UNCHANGED cursorVars,
         NEW c \in Client, NEW d \in Client
  PROVE  FlowsOn(c, d)
<1>1. UNCHANGED <<task, shown>> /\ Takes(a)
  BY DEF Fail, serverVars, cursorVars
<1>2. KeptIn(toServer[c], toServer'[c], c)
  BY <1>1, RequestTaken
<1>3. PICK m : m = TextOperationFailed
  OBVIOUS
<1>4. ~IsReport(m, c)
  BY <1>3 DEF TextOperationFailed, IsReport
<1>5. toClient' = [toClient EXCEPT ![a] = Append(@, m)]
  BY <1>3 DEF Fail, Deliver
<1>6. KeptIn(toClient[d], toClient'[d], c)
  BY <1>4, <1>5, DeliveredKeeps
<1>7. QED
  BY <1>1, <1>2, <1>6, ClientFlow

\* handle_change_focus: the report goes from the channel to the task, and the task
\* sends it to everybody else.
LEMMA TakeReportFlow ==
  ASSUME IInv, NEW a \in Client, TakeReport(a),
         NEW c \in Client, NEW d \in Client, c # d
  PROVE  FlowsOn(c, d)
<1>1. PICK h, q, r : h = Head(toServer[a]) /\ q = toServer[a] /\ r = toServer'[a]
  OBVIOUS
<1>2. PICK t : t = Broadcasting(h, Client \ {a})
  OBVIOUS
<1>3. /\ task[a] = Idle /\ q # <<>> /\ h.type = "change_focus"
      /\ toServer' = [toServer EXCEPT ![a] = Tail(@)]
      /\ task' = [task EXCEPT ![a] = t]
      /\ UNCHANGED <<toClient, shown>>
  BY <1>1, <1>2 DEF TakeReport, SetTask, cursorVars
<1>4. IsSequence(q)
  BY <1>1 DEF IInv, ChannelsInv
<1>5. h = q[1] /\ 1 \in 1..Len(q)
  BY <1>1, <1>3, <1>4, HeadOfSequence
<1>6. h.author = a
  <2>1. RequestsInv(a)
    BY DEF IInv, FlowInv
  <2>2. QED
    BY <1>1, <1>3, <1>5, <2>1 DEF RequestsInv
<1>7. r = Tail(q) /\ \A b \in Client \ {a} : toServer'[b] = toServer[b]
  BY <1>1, <1>3, Taken
<1>8. KeptIn(toClient[d], toClient'[d], c)
  BY <1>3 DEF KeptIn
<1>9. task'[a] = t /\ \A b \in Client \ {a} : task'[b] = task[b]
  BY <1>3, TaskSet
<1>10. CASE c # a
  <2>1. KeptIn(toServer[c], toServer'[c], c)
    BY <1>7, <1>10 DEF KeptIn
  <2>2. Sends(c, d)' <=> Sends(c, d)
    BY <1>9, <1>10 DEF Sends, IsReport
  <2>3. task'[c].message = task[c].message /\ shown'[d][c] = shown[d][c]
    BY <1>3, <1>9, <1>10
  <2>4. QED
    BY <1>8, <2>1, <2>2, <2>3, CalmFlow
<1>11. CASE c = a
  <2>1. t.at = "broadcast" /\ d \in t.rest /\ t.message = h
    BY <1>2, <1>11 DEF Broadcasting
  <2>2. Sends(c, d)' /\ task'[c].message = h
    BY <1>3, <1>6, <1>9, <1>11, <2>1 DEF Sends, IsReport
  <2>3. ~NoReport(q, c)
    BY <1>3, <1>5, <1>6, <1>11 DEF NoReport, IsReport
  <2>4. \A k : LastIs(q, c, k) =>
               LastIs(r, c, k) \/ (h.serial = k /\ NoReport(r, c))
    BY <1>3, <1>4, <1>5, <1>7, LastTaken
  <2>5. /\ NoReport(r, c) => NoReport(toServer[c], c)'
        /\ \A k : LastIs(r, c, k) => LastIs(toServer[c], c, k)'
    BY <1>1, <1>11 DEF NoReport, LastIs, IsReport
  <2>6. ASSUME NEW k, Comes(c, d, k)
        PROVE  Comes(c, d, k)'
    <3>1. LastIs(q, c, k)
      BY <1>1, <1>11, <2>3, <2>6 DEF Comes
    <3>2. LastIs(toServer[c], c, k)' \/ (h.serial = k /\ NoReport(toServer[c], c)')
      BY <2>4, <2>5, <3>1
    <3>3. QED
      BY <2>2, <3>2 DEF Comes
  <2>7. QED
    BY <2>6 DEF FlowsOn
<1>12. QED
  BY <1>10, <1>11

\* A recipient gets the report, or another message.
LEMMA SendFlow ==
  ASSUME IInv, NEW a \in Client, Send(a), UNCHANGED cursorVars,
         NEW c \in Client, NEW d \in Client
  PROVE  FlowsOn(c, d)
<1>1. task[a].at = "broadcast" /\ UNCHANGED <<toServer, shown>>
  BY DEF Send, cursorVars
<1>2. PICK f \in task[a].rest :
        /\ Deliver(f, task[a].message)
        /\ SetTask(a, IF task[a].rest = {f} THEN Idle
                      ELSE [task[a] EXCEPT !.rest = @ \ {f}])
  BY DEF Send
<1>3. PICK m, w : m = task[a].message /\ w = task[a].rest
  OBVIOUS
<1>4. PICK t : t = IF w = {f} THEN Idle ELSE [task[a] EXCEPT !.rest = @ \ {f}]
  OBVIOUS
<1>5. /\ DOMAIN task[a] = {"at", "message", "rest"} /\ w \subseteq Client
      /\ m.author = a
  BY <1>1, <1>3 DEF IInv, FlowInv, SendingInv
<1>6. task' = [task EXCEPT ![a] = t] /\ toClient' = [toClient EXCEPT ![f] = Append(@, m)]
  BY <1>2, <1>3, <1>4 DEF SetTask, Deliver
<1>7. f \in Client /\ f \in w
  BY <1>2, <1>3, <1>5
<1>8. /\ toClient'[f] = Append(toClient[f], m)
      /\ \A b \in Client \ {f} : toClient'[b] = toClient[b]
  BY <1>6, <1>7, Delivered
<1>9. task'[a] = t /\ \A b \in Client \ {a} : task'[b] = task[b]
  BY <1>6, TaskSet
<1>10. IF w = {f} THEN t.at # "broadcast"
       ELSE t.at = "broadcast" /\ t.message = m /\ t.rest = w \ {f}
  <2>1. CASE w = {f}
    BY <1>4, <2>1 DEF Idle
  <2>2. CASE w # {f}
    BY <1>1, <1>3, <1>4, <1>5, <2>2
  <2>3. QED
    BY <2>1, <2>2
<1>11. KeptIn(toServer[c], toServer'[c], c) /\ shown'[d][c] = shown[d][c]
  BY <1>1 DEF KeptIn
<1>12. CASE c # a
  <2>1. ~IsReport(m, c)
    BY <1>5, <1>12 DEF IsReport
  <2>2. KeptIn(toClient[d], toClient'[d], c)
    BY <1>6, <1>7, <2>1, DeliveredKeeps
  <2>3. Sends(c, d)' <=> Sends(c, d)
    BY <1>9, <1>12 DEF Sends, IsReport
  <2>4. task'[c].message = task[c].message
    BY <1>9, <1>12
  <2>5. QED
    BY <1>11, <2>2, <2>3, <2>4, CalmFlow
<1>13. CASE c = a /\ (d # f \/ ~IsReport(m, c))
  <2>1. KeptIn(toClient[d], toClient'[d], c)
    <3>1. CASE d # f
      BY <1>8, <3>1 DEF KeptIn
    <3>2. CASE ~IsReport(m, c)
      BY <1>6, <1>7, <3>2, DeliveredKeeps
    <3>3. QED
      BY <1>13, <3>1, <3>2
  <2>2. Sends(c, d) <=> d \in w /\ IsReport(m, c)
    BY <1>1, <1>3, <1>13 DEF Sends
  <2>3. Sends(c, d)' <=> t.at = "broadcast" /\ d \in t.rest /\ IsReport(t.message, c)
    BY <1>9, <1>13 DEF Sends, IsReport
  <2>4. Sends(c, d)' <=> Sends(c, d)
    BY <1>10, <1>13, <2>2, <2>3
  <2>5. Sends(c, d) => task'[c].message = task[c].message
    BY <1>3, <1>9, <1>10, <1>13, <2>2
  <2>6. QED
    BY <1>11, <2>1, <2>4, <2>5, CalmFlow
<1>14. CASE c = a /\ d = f /\ IsReport(m, c)
  <2>1. PICK q, r : q = toClient[d] /\ r = toClient'[d]
    OBVIOUS
  <2>2. IsSequence(q) /\ r = Append(q, m)
    BY <1>8, <1>14, <2>1 DEF IInv, ChannelsInv
  <2>3. LastIs(r, c, m.serial)
    BY <1>14, <2>2, LastAppended
  <2>4. Sends(c, d) /\ ~Sends(c, d)'
    <3>1. Sends(c, d)
      BY <1>1, <1>3, <1>7, <1>14 DEF Sends
    <3>2. ~Sends(c, d)'
      BY <1>9, <1>10, <1>14 DEF Sends
    <3>3. QED
      BY <3>1, <3>2
  <2>5. /\ NoReport(toServer[c], c) => NoReport(toServer[c], c)'
        /\ \A k : LastIs(toServer[c], c, k) => LastIs(toServer[c], c, k)'
    BY <1>1 DEF NoReport, LastIs, IsReport
  <2>6. ASSUME NEW k, Comes(c, d, k)
        PROVE  Comes(c, d, k)'
    <3>1. CASE LastIs(toServer[c], c, k)
      BY <2>5, <3>1 DEF Comes
    <3>2. CASE NoReport(toServer[c], c) /\ m.serial = k
      <4>1. LastIs(toClient[d], c, k)'
        <5>1. LastIs(r, c, k)
          BY <2>3, <3>2
        <5>2. QED
          BY <2>1, <5>1 DEF LastIs, IsReport
      <4>2. QED
        BY <2>4, <2>5, <3>2, <4>1 DEF Comes
    <3>3. QED
      BY <1>3, <1>14, <2>4, <2>6, <3>1, <3>2 DEF Comes
  <2>7. QED
    BY <2>6 DEF FlowsOn
<1>15. QED
  BY <1>12, <1>13, <1>14

\* A report is appended to what is on its way to the server.
LEMMA SendReportFlow ==
  ASSUME IInv, NEW a \in Client, SendReport(a),
         NEW c \in Client, NEW d \in Client
  PROVE  /\ c # a => FlowsOn(c, d)
         /\ \A k : k = cursor[a].waiting[1].serial => Comes(a, d, k)'
<1>1. PICK w : w = cursor[a].waiting[1]
  OBVIOUS
<1>2. PICK m : m = ChangeFocus(a, w)
  OBVIOUS
<1>3. toServer' = [toServer EXCEPT ![a] = Append(@, m)]
  BY <1>1, <1>2 DEF SendReport
<1>4. /\ toServer'[a] = Append(toServer[a], m)
      /\ \A b \in Client \ {a} : toServer'[b] = toServer[b]
  BY <1>3, Handed
<1>5. UNCHANGED <<task, toClient, shown>>
  BY DEF SendReport, serverVars
<1>6. ASSUME c # a
      PROVE  FlowsOn(c, d)
  <2>1. KeptIn(toServer[c], toServer'[c], c) /\ KeptIn(toClient[d], toClient'[d], c)
    BY <1>4, <1>5, <1>6 DEF KeptIn
  <2>2. QED
    BY <1>5, <2>1, ClientFlow
<1>7. ASSUME NEW k, k = w.serial
      PROVE  Comes(a, d, k)'
  <2>1. PICK q, r : q = toServer[a] /\ r = toServer'[a]
    OBVIOUS
  <2>2. IsSequence(q)
    BY <2>1 DEF IInv, ChannelsInv
  <2>3. IsReport(m, a) /\ m.serial = k
    BY <1>2, <1>7 DEF ChangeFocus, IsReport
  <2>4. LastIs(r, a, k)
    BY <1>4, <2>1, <2>2, <2>3, LastAppended
  <2>5. LastIs(toServer[a], a, k)'
    BY <2>1, <2>4 DEF LastIs, IsReport
  <2>6. QED
    BY <2>5 DEF Comes
<1>8. QED
  BY <1>1, <1>6, <1>7

----------------------------------------------------------------------------
(* What a client does with its cursor.                                     *)

CursorFields == {"noted", "waiting", "sent", "count"}

\* The last cursor of c is held back, or waits, in its record s.
Held(s) ==
  \/ s.noted # None /\ s.noted[1].serial = s.count
  \/ s.waiting # None /\ s.waiting[1].serial = s.count

\* sendFocusChange: unless it misleads, the last cursor waits; and an older one leaves
\* it waiting, or sent.
LEMMA ReportedHeld ==
  ASSUME NEW s, DOMAIN s = CursorFields, NEW m, NEW t, t = Reported(s, m),
         ~Misleads(s, m)
  PROVE  /\ t.count = s.count
         /\ m.serial = s.count => Held(t)
         /\ m.serial # s.count => t = s
<1>1. ASSUME m.serial = s.count
      PROVE  Held(t)
  <2>1. s.sent # <<m.position>>
    BY <1>1 DEF Misleads
  <2>2. t = [s EXCEPT !.waiting = <<m>>]
    BY <2>1 DEF Reported
  <2>3. t.waiting = <<m>> /\ t.count = s.count
    BY <2>2 DEF CursorFields
  <2>4. t.waiting[1] = m /\ t.waiting # None
    BY <2>3 DEF None
  <2>5. QED
    BY <1>1, <2>3, <2>4 DEF Held
<1>2. m.serial # s.count => t = s
  BY DEF Misleads, Reported
<1>3. t.count = s.count
  BY DEF Reported, CursorFields
<1>4. QED
  BY <1>1, <1>2, <1>3

LEMMA CursorSet ==
  ASSUME IInv, NEW a \in Client, NEW t, cursor' = [cursor EXCEPT ![a] = t]
  PROVE  cursor'[a] = t /\ \A c \in Client \ {a} : cursor'[c] = cursor[c]
<1>1. cursor = [c \in Client |-> cursor[c]]
  BY DEF IInv, CursorsInv
<1>2. cursor' = [c \in Client |-> IF c = a THEN t ELSE cursor[c]]
  BY <1>1
<1>3. QED
  BY <1>2

\* The same cursors, and nothing sent gets lost.
LEMMA HeldKept ==
  ASSUME NEW c \in Client, cursor'[c] = cursor[c], HeldOrSent(c),
         \A d \in Client \ {c} : FlowsOn(c, d)
  PROVE  HeldOrSent(c)'
<1>1. PICK s : s = cursor[c]
  OBVIOUS
<1>2. CASE Held(s)
  BY <1>1, <1>2 DEF Held, HeldOrSent
<1>3. CASE s.waiting = None /\ \A d \in Client \ {c} : Comes(c, d, s.count)
  <2>1. \A d \in Client \ {c} : Comes(c, d, s.count)'
    BY <1>3 DEF FlowsOn
  <2>2. QED
    BY <1>1, <1>3, <2>1 DEF HeldOrSent
<1>4. QED
  BY <1>1, <1>2, <1>3 DEF Held, HeldOrSent

AllFlow == \A c, d \in Client : c # d => FlowsOn(c, d)

\* Who holds its last cursor in its record need not look at the channels.
LEMMA HeldIsEnough ==
  ASSUME NEW c, NEW t, cursor'[c] = t, Held(t)
  PROVE  HeldOrSent(c)'
<1>1. \/ cursor'[c].noted # None /\ cursor'[c].noted[1].serial = cursor'[c].count
      \/ cursor'[c].waiting # None /\ cursor'[c].waiting[1].serial = cursor'[c].count
  BY DEF Held
<1>2. QED
  BY <1>1 DEF HeldOrSent

\* Neither the cursors change nor whom they mislead.
LEMMA LastKept ==
  ASSUME LastInv, UNCHANGED <<cursor, misled>>, AllFlow, ShownInv'
  PROVE  LastInv'
<1>1. ASSUME NEW c \in Client \ misled
      PROVE  HeldOrSent(c)'
  <2>1. HeldOrSent(c) /\ cursor'[c] = cursor[c]
    BY DEF LastInv
  <2>2. \A d \in Client \ {c} : FlowsOn(c, d)
    BY DEF AllFlow
  <2>3. QED
    BY <2>1, <2>2, HeldKept
<1>2. QED
  BY <1>1 DEF LastInv

\* Only a's cursor changes, and perhaps whether it misleads.
LEMMA OneCursor ==
  ASSUME LastInv, NEW a \in Client, ShownInv',
         \A c \in Client \ {a} : /\ cursor'[c] = cursor[c]
                                 /\ c \notin misled' => c \notin misled
                                 /\ \A d \in Client \ {c} : FlowsOn(c, d),
         a \notin misled' => HeldOrSent(a)'
  PROVE  LastInv'
<1>1. ASSUME NEW c \in Client, c \notin misled'
      PROVE  HeldOrSent(c)'
  <2>1. CASE c = a
    BY <1>1, <2>1
  <2>2. CASE c # a
    <3>1. /\ HeldOrSent(c) /\ cursor'[c] = cursor[c]
          /\ \A d \in Client \ {c} : FlowsOn(c, d)
      BY <1>1, <2>2 DEF LastInv
    <3>2. QED
      BY <3>1, HeldKept
  <2>3. QED
    BY <2>1, <2>2
<1>2. QED
  BY <1>1 DEF LastInv

\* flushCursorIfPending.
LEMMA NotedLast ==
  ASSUME IInv, LastInv, AllFlow, NEW a \in Client, FlushNoted(a)
  PROVE  LastInv'
<1>1. ShownInv'
  BY DEF LastInv, ShownInv, FlushNoted
<1>2. PICK s : s = cursor[a]
  OBVIOUS
<1>3. DOMAIN s = CursorFields
  BY <1>2 DEF IInv, CursorsInv, CursorFields
<1>4. CASE s.noted = None
  <2>1. NotedReported(s) = s
    BY <1>4 DEF NotedReported
  <2>2. cursor' = [cursor EXCEPT ![a] = s]
    BY <1>2, <2>1 DEF FlushNoted
  <2>3. UNCHANGED cursor
    BY <1>2, <2>2 DEF IInv, CursorsInv
  <2>4. UNCHANGED misled
    BY <1>2, <1>4 DEF FlushNoted
  <2>5. QED
    BY <1>1, <2>3, <2>4, LastKept
<1>5. CASE s.noted # None
  <2>1. PICK m, u, t : /\ m = s.noted[1] /\ u = [s EXCEPT !.noted = None]
                       /\ t = Reported(u, m)
    OBVIOUS
  <2>2. /\ DOMAIN u = CursorFields /\ u.noted = None /\ u.waiting = s.waiting
        /\ u.sent = s.sent /\ u.count = s.count
    BY <1>3, <2>1 DEF CursorFields
  <2>3. cursor' = [cursor EXCEPT ![a] = t]
    BY <1>2, <1>5, <2>1 DEF FlushNoted, NotedReported
  <2>4. cursor'[a] = t /\ \A c \in Client \ {a} : cursor'[c] = cursor[c]
    BY <2>3, CursorSet
  <2>5. MisledBy(a, s, m)
    BY <1>2, <1>5, <2>1 DEF FlushNoted
  <2>6. Misleads(u, m) <=> Misleads(s, m)
    BY <2>2 DEF Misleads
  <2>7. \A c \in Client \ {a} : /\ cursor'[c] = cursor[c]
                                /\ c \notin misled' => c \notin misled
                                /\ \A d \in Client \ {c} : FlowsOn(c, d)
    BY <2>4, <2>5 DEF MisledBy, AllFlow
  <2>8. ASSUME a \notin misled'
        PROVE  HeldOrSent(a)'
    <3>1. ~Misleads(s, m)
      BY <2>5, <2>8 DEF MisledBy
    <3>2. /\ t.count = s.count
          /\ m.serial = s.count => Held(t)
          /\ m.serial # s.count => t = u
      <4>1. DOMAIN u = CursorFields /\ t = Reported(u, m) /\ ~Misleads(u, m)
        BY <2>1, <2>2, <2>6, <3>1
      <4>2. /\ t.count = u.count
            /\ m.serial = u.count => Held(t)
            /\ m.serial # u.count => t = u
        BY <4>1, ReportedHeld
      <4>3. QED
        BY <2>2, <4>2
    <3>3. CASE m.serial = s.count
      BY <2>4, <3>2, <3>3, HeldIsEnough
    <3>4. CASE m.serial # s.count
      <4>1. a \notin misled
        BY <2>5, <2>8, <3>1, <3>4 DEF MisledBy
      <4>2. HeldOrSent(a)
        BY <4>1 DEF LastInv
      <4>3. \/ s.waiting # None /\ s.waiting[1].serial = s.count
            \/ s.waiting = None /\ \A d \in Client \ {a} : Comes(a, d, s.count)
        BY <1>2, <2>1, <3>4, <4>2 DEF HeldOrSent
      <4>4. CASE s.waiting # None /\ s.waiting[1].serial = s.count
        <5>1. Held(t)
          BY <2>2, <3>2, <3>4, <4>4 DEF Held
        <5>2. QED
          BY <2>4, <5>1, HeldIsEnough
      <4>5. CASE s.waiting = None /\ \A d \in Client \ {a} : Comes(a, d, s.count)
        <5>1. \A d \in Client \ {a} : Comes(a, d, s.count)'
          BY <4>5 DEF AllFlow, FlowsOn
        <5>2. cursor'[a].waiting = None /\ cursor'[a].count = s.count
          BY <2>2, <2>4, <3>2, <3>4, <4>5
        <5>3. QED
          BY <5>1, <5>2 DEF HeldOrSent
      <4>6. QED
        BY <4>3, <4>4, <4>5
    <3>5. QED
      BY <3>3, <3>4
  <2>9. QED
    BY <1>1, <2>7, <2>8, OneCursor
<1>6. QED
  BY <1>4, <1>5

\* The cursor that an edit moves, or that the editor puts back, is noted.
LEMMA NoteLast ==
  ASSUME IInv, LastInv, NEW a \in Client, UNCHANGED <<task, toServer, toClient>>,
         NEW p, NEW r, Note(a, p, r)
  PROVE  LastInv'
<1>1. UNCHANGED <<task, toServer, toClient, shown, misled>>
  BY DEF Note
<1>2. AllFlow
  BY <1>1, StillFlow DEF AllFlow
<1>3. cursor' = [cursor EXCEPT ![a].noted = <<MovedTo(a, p, r)>>, ![a].count = @ + 1]
  BY DEF Note
<1>4. PICK m, n : m = MovedTo(a, p, r) /\ n = cursor[a].count + 1
  OBVIOUS
<1>5. m.serial = n
  BY <1>4 DEF MovedTo
<1>6. PICK t : t = [cursor[a] EXCEPT !.noted = <<m>>, !.count = n]
  OBVIOUS
<1>7. cursor' = [cursor EXCEPT ![a] = t]
  BY <1>3, <1>4, <1>6
<1>8. DOMAIN cursor[a] = CursorFields
  BY DEF IInv, CursorsInv, CursorFields
<1>9. t.noted = <<m>> /\ t.count = n
  BY <1>6, <1>8 DEF CursorFields
<1>10. t.noted[1] = m /\ t.noted # None
  BY <1>9 DEF None
<1>11. Held(t)
  BY <1>5, <1>9, <1>10 DEF Held
<1>12. cursor'[a] = t /\ \A c \in Client \ {a} : cursor'[c] = cursor[c]
  BY <1>7, CursorSet
<1>13. HeldOrSent(a)'
  BY <1>11, <1>12, HeldIsEnough
<1>14. ShownInv'
  BY <1>1 DEF LastInv, ShownInv
<1>15. \A c \in Client \ {a} : /\ cursor'[c] = cursor[c]
                               /\ c \notin misled' => c \notin misled
                               /\ \A d \in Client \ {c} : FlowsOn(c, d)
  BY <1>1, <1>2, <1>12 DEF AllFlow
<1>16. QED
  BY <1>13, <1>14, <1>15, OneCursor

LEMMA TypeLast ==
  ASSUME IInv, LastInv, NEW a \in Client, TypeAndNote(a)
  PROVE  LastInv'
<1>1. UNCHANGED <<task, toServer, toClient>>
  BY DEF TypeAndNote, Type, serverVars
<1>2. PICK p : Note(a, p, FALSE)
  BY DEF TypeAndNote
<1>3. QED
  BY <1>1, <1>2, NoteLast

LEMMA RestoreLast ==
  ASSUME IInv, LastInv, NEW a \in Client, Restore(a)
  PROVE  LastInv'
<1>1. UNCHANGED <<task, toServer, toClient>>
  BY DEF Restore, vars, serverVars
<1>2. CASE UNCHANGED <<cursor, shown, misled>>
  <2>1. AllFlow
    BY <1>1, <1>2, StillFlow DEF AllFlow
  <2>2. ShownInv'
    BY <1>2 DEF LastInv, ShownInv
  <2>3. QED
    BY <1>2, <2>1, <2>2, LastKept
<1>3. CASE \E p \in Position : Note(a, p, TRUE)
  <2>1. PICK p : Note(a, p, TRUE)
    BY <1>3
  <2>2. QED
    BY <1>1, <2>1, NoteLast
<1>4. QED
  BY <1>2, <1>3 DEF Restore

\* A cursor moved by hand is reported at once, or misleads.
LEMMA MoveLast ==
  ASSUME IInv, LastInv, NEW a \in Client, Move(a)
  PROVE  LastInv'
<1>1. UNCHANGED <<task, toServer, toClient, shown>>
  BY DEF Move, vars, serverVars
<1>2. AllFlow
  BY <1>1, StillFlow DEF AllFlow
<1>3. PICK p :
        /\ cursor' = [cursor EXCEPT
             ![a] = Reported([cursor[a] EXCEPT !.count = @ + 1], MovedTo(a, p, FALSE))]
        /\ MisledBy(a, [cursor[a] EXCEPT !.count = @ + 1], MovedTo(a, p, FALSE))
  BY DEF Move
<1>4. PICK m, s : m = MovedTo(a, p, FALSE) /\ s = [cursor[a] EXCEPT !.count = @ + 1]
  OBVIOUS
<1>5. DOMAIN cursor[a] = CursorFields
  BY DEF IInv, CursorsInv, CursorFields
<1>6. DOMAIN s = CursorFields /\ s.count = cursor[a].count + 1
  BY <1>4, <1>5 DEF CursorFields
<1>7. m.serial = s.count
  BY <1>4, <1>6 DEF MovedTo
<1>8. PICK t : t = Reported(s, m)
  OBVIOUS
<1>9. cursor' = [cursor EXCEPT ![a] = t] /\ MisledBy(a, s, m)
  BY <1>3, <1>4, <1>8
<1>10. cursor'[a] = t /\ \A c \in Client \ {a} : cursor'[c] = cursor[c]
  BY <1>9, CursorSet
<1>11. ASSUME a \notin misled'
       PROVE  HeldOrSent(a)'
  <2>1. ~Misleads(s, m)
    BY <1>9, <1>11 DEF MisledBy
  <2>2. Held(t)
    BY <1>6, <1>7, <1>8, <2>1, ReportedHeld
  <2>3. QED
    BY <1>10, <2>2, HeldIsEnough
<1>12. \A c \in Client \ {a} : /\ cursor'[c] = cursor[c]
                               /\ c \notin misled' => c \notin misled
                               /\ \A d \in Client \ {c} : FlowsOn(c, d)
  BY <1>2, <1>9, <1>10 DEF AllFlow, MisledBy
<1>13. ShownInv'
  BY <1>1 DEF LastInv, ShownInv
<1>14. QED
  BY <1>11, <1>12, <1>13, OneCursor

\* The cursor that waits is sent: when it is the last one, the others will show it.
LEMMA SendReportLast ==
  ASSUME IInv, LastInv, NEW a \in Client, SendReport(a)
  PROVE  LastInv'
<1>1. PICK s, w : s = cursor[a] /\ w = cursor[a].waiting[1]
  OBVIOUS
<1>2. UNCHANGED <<shown, misled>> /\ s.waiting # None
  BY <1>1 DEF SendReport
<1>3. DOMAIN s = CursorFields
  BY <1>1 DEF IInv, CursorsInv, CursorFields
<1>4. PICK t : t = [s EXCEPT !.waiting = None, !.sent = <<w.position>>]
  OBVIOUS
<1>5. t.noted = s.noted /\ t.waiting = None /\ t.count = s.count
  BY <1>3, <1>4 DEF CursorFields
<1>6. cursor' = [cursor EXCEPT ![a] = t]
  BY <1>1, <1>4 DEF SendReport
<1>7. cursor'[a] = t /\ \A c \in Client \ {a} : cursor'[c] = cursor[c]
  BY <1>6, CursorSet
<1>8. ASSUME a \notin misled'
      PROVE  HeldOrSent(a)'
  <2>1. HeldOrSent(a)
    BY <1>2, <1>8 DEF LastInv
  <2>2. CASE s.noted # None /\ s.noted[1].serial = s.count
    <3>1. Held(t)
      BY <1>5, <2>2 DEF Held
    <3>2. QED
      BY <1>7, <3>1, HeldIsEnough
  <2>3. CASE w.serial = s.count
    <3>1. \A d \in Client \ {a} : Comes(a, d, s.count)'
      BY <1>1, <2>3, SendReportFlow
    <3>2. cursor'[a].waiting = None /\ cursor'[a].count = s.count
      BY <1>5, <1>7
    <3>3. QED
      BY <3>1, <3>2 DEF HeldOrSent
  <2>4. QED
    BY <1>1, <1>2, <2>1, <2>2, <2>3 DEF HeldOrSent
<1>9. \A c \in Client \ {a} : /\ cursor'[c] = cursor[c]
                              /\ c \notin misled' => c \notin misled
                              /\ \A d \in Client \ {c} : FlowsOn(c, d)
  BY <1>2, <1>7, SendReportFlow
<1>10. ShownInv'
  BY <1>2 DEF LastInv, ShownInv
<1>11. QED
  BY <1>8, <1>9, <1>10, OneCursor

LEMMA ReceiveLast ==
  ASSUME IInv, LastInv, NEW a \in Client, Receiving(a)
  PROVE  LastInv'
<1>1. CASE ReceiveForText(a)
  <2>1. AllFlow
    BY <1>1, ReceiveFlow DEF AllFlow
  <2>2. FlushNoted(a) \/ UNCHANGED <<cursor, shown, misled>>
    BY <1>1 DEF ReceiveForText
  <2>3. ASSUME UNCHANGED <<cursor, shown, misled>>
        PROVE  LastInv'
    <3>1. UNCHANGED <<cursor, misled>> /\ ShownInv'
      BY <2>3 DEF LastInv, ShownInv
    <3>2. QED
      BY <2>1, <3>1, LastKept
  <2>4. QED
    BY <2>1, <2>2, <2>3, NotedLast
<1>2. CASE ReceiveChangeFocus(a)
  <2>1. ShownInv
    BY DEF LastInv
  <2>2. AllFlow
    BY <1>2, <2>1, ReceiveReportFlow DEF AllFlow
  <2>3. UNCHANGED <<cursor, misled>>
    BY <1>2 DEF ReceiveChangeFocus
  <2>4. PICK t, m : /\ m = Head(toClient[a])
                    /\ t = [shown[a] EXCEPT ![m.author] = m.serial]
    OBVIOUS
  <2>5. shown' = [shown EXCEPT ![a][m.author] = m.serial]
    BY <1>2, <2>4 DEF ReceiveChangeFocus
  <2>6. shown' = [shown EXCEPT ![a] = t]
    BY <2>4, <2>5
  <2>7. shown' = [b \in Client |-> IF b = a THEN t ELSE shown[b]]
    BY <2>1, <2>6 DEF ShownInv
  <2>8. DOMAIN t = DOMAIN shown[a]
    BY <2>4
  <2>9. ShownInv'
    BY <2>1, <2>7, <2>8 DEF ShownInv
  <2>10. QED
    BY <2>2, <2>3, <2>9, LastKept
<1>3. QED
  BY <1>1, <1>2 DEF Receiving

LEMMA HandleLast ==
  ASSUME IInv, LastInv, NEW a \in Client, Handling(a)
  PROVE  LastInv'
<1>1. UNCHANGED cursorVars
  BY DEF Handling, HandleText, TakeReport
<1>2. UNCHANGED <<cursor, misled>> /\ ShownInv'
  BY <1>1 DEF LastInv, ShownInv, cursorVars
<1>3. AllFlow
  <2>1. CASE TakeReport(a)
    BY <2>1, TakeReportFlow DEF AllFlow
  <2>2. CASE Handle(a)
    BY <1>1, <2>2, CommitFlow, SendFlow, ReadContentFlow, SendResyncFlow, FailFlow
       DEF Handle, AllFlow
  <2>3. QED
    BY <2>1, <2>2 DEF Handling, HandleText
<1>4. QED
  BY <1>2, <1>3, LastKept

LEMMA InitLast == CursorInit => LastInv
<1> SUFFICES ASSUME CursorInit
             PROVE  LastInv
  OBVIOUS
<1>1. /\ task = [c \in Client |-> Idle]
      /\ toServer = [c \in Client |-> <<>>]
      /\ toClient = [c \in Client |-> <<>>]
      /\ cursor = [c \in Client |-> [noted |-> None, waiting |-> None, sent |-> None,
                                     count |-> 0]]
      /\ shown = [c \in Client |-> [d \in Client \ {c} |-> 0]]
  BY DEF CursorInit, Init
<1>2. ShownInv
  BY <1>1 DEF ShownInv
<1>3. ASSUME NEW c \in Client, NEW d \in Client \ {c}
      PROVE  Comes(c, d, 0)
  <2>1. toServer[c] = <<>> /\ toClient[d] = <<>> /\ task[c] = Idle /\ shown[d][c] = 0
    BY <1>1
  <2>2. Len(toServer[c]) = 0 /\ Len(toClient[d]) = 0
    BY <2>1
  <2>3. NoReport(toServer[c], c) /\ NoReport(toClient[d], c)
    BY <2>2 DEF NoReport
  <2>4. ~Sends(c, d)
    BY <2>1 DEF Sends, Idle
  <2>5. QED
    BY <2>1, <2>3, <2>4 DEF Comes
<1>4. ASSUME NEW c \in Client
      PROVE  HeldOrSent(c)
  <2>1. cursor[c].waiting = None /\ cursor[c].count = 0
    BY <1>1
  <2>2. QED
    BY <1>3, <2>1 DEF HeldOrSent
<1>5. QED
  BY <1>2, <1>4 DEF LastInv

LEMMA StepLast == IInv /\ LastInv /\ [CursorNext]_<<vars, cursorVars>> => LastInv'
<1> SUFFICES ASSUME IInv, LastInv, [CursorNext]_<<vars, cursorVars>>
             PROVE  LastInv'
  OBVIOUS
<1>1. ASSUME NEW c \in Client, Typing(c)
      PROVE  LastInv'
  BY <1>1, TypeLast, MoveLast, RestoreLast DEF Typing
<1>2. ASSUME NEW c \in Client, Timers(c)
      PROVE  LastInv'
  <2>1. CASE FlushBoth(c)
    <3>1. AllFlow
      BY <2>1, FlushFlow DEF AllFlow
    <3>2. FlushNoted(c)
      BY <2>1 DEF FlushBoth
    <3>3. QED
      BY <3>1, <3>2, NotedLast
  <2>2. CASE FlushCursor(c)
    <3>1. FlushNoted(c) /\ UNCHANGED <<task, toServer, toClient, shown>>
      BY <2>2 DEF FlushCursor, FlushNoted, vars, serverVars
    <3>2. AllFlow
      BY <3>1, StillFlow DEF AllFlow
    <3>3. QED
      BY <3>1, <3>2, NotedLast
  <2>3. QED
    BY <1>2, <2>1, <2>2, SendReportLast DEF Timers
<1>3. CASE UNCHANGED <<vars, cursorVars>>
  <2>1. UNCHANGED <<task, toServer, toClient, cursor, shown, misled>>
    BY <1>3 DEF vars, serverVars, cursorVars
  <2>2. AllFlow
    BY <2>1, StillFlow DEF AllFlow
  <2>3. ShownInv'
    BY <2>1 DEF LastInv, ShownInv
  <2>4. QED
    BY <2>1, <2>2, <2>3, LastKept
<1>4. QED
  BY <1>1, <1>2, <1>3, ReceiveLast, HandleLast DEF CursorNext

\* With nothing on its way, what will be shown is shown.
LEMMA AllHasCome == IInv /\ LastInv => LastCursorShown
<1> SUFFICES ASSUME IInv, LastInv, Quiet,
                    NEW c \in Client \ misled, NEW d \in Client \ {c},
                    cursor[c].noted = None, cursor[c].waiting = None
             PROVE  shown[d][c] = cursor[c].count
  BY DEF LastCursorShown
<1>1. Comes(c, d, cursor[c].count)
  BY DEF LastInv, HeldOrSent
<1>2. task[c] = Idle /\ toServer[c] = <<>> /\ toClient[d] = <<>>
  BY DEF Quiet
<1>3. Len(toServer[c]) = 0 /\ Len(toClient[d]) = 0
  BY <1>2
<1>4. \A k : ~LastIs(toServer[c], c, k) /\ ~LastIs(toClient[d], c, k)
  BY <1>3 DEF LastIs
<1>5. ~Sends(c, d)
  BY <1>2 DEF Sends, Idle
<1>6. QED
  BY <1>1, <1>4, <1>5 DEF Comes

\* useFocusSync.ts and useTextSync.ts: however noting, timers, edits and broadcasts
\* interleave, of the cursors of a user that the others get the last one comes last:
\* once nothing is on its way they show it, unless the client is misled.
THEOREM LastCursorShownAlways == CursorSpec => []LastCursorShown
BY InitInv, StepInv, InitLast, StepLast, AllHasCome, PTL DEF CursorSpec

----------------------------------------------------------------------------
(* The text under its clients: the inductive invariant, for a log L, a     *)
(* client c with its store s, the requests q and the messages ms on their  *)
(* way from and to it, and its task t.                                     *)

TextOf(L, v) == IF v = 0 THEN InitialText ELSE L[v].text

\* The committed edits lead from text to text, and the cell remembers the last
\* of them.
Committed(L, k) ==
  /\ WellKept(k)
  /\ IsSequence(L) /\ Len(L) = k.version
  /\ k.content = TextOf(L, k.version)
  /\ \A v \in 1..Len(L) : /\ Fits(L[v].operation, TextOf(L, v - 1))
                          /\ L[v].text = Apply(L[v].operation, TextOf(L, v - 1))
  /\ \A v \in k.base + 1..k.version : EditAt(k, v).operation = L[v].operation

\* An edit is told as it was committed.
Told(L, m) ==
  /\ m.version \in 1..Len(L)
  /\ L[m.version].operation = m.operation
  /\ L[m.version].author = m.author /\ L[m.version].id = m.id

Sendable(L, m) ==
  /\ m.type \in {"text_edit", "cell_resync", "text_operation_failed"}
  /\ m.type = "text_edit" => Told(L, m)
  /\ m.type = "cell_resync" => m.content \in Text /\ m.version \in 0..Len(L)

Task(L, c, t) ==
  /\ t.at \in {"idle", "broadcast", "resync"}
  /\ t.at = "idle" => t = Idle
  /\ t.at = "broadcast" => /\ t = Broadcasting(t.message, t.rest)
                           /\ t.rest \subseteq Client
                           /\ t.message.type = "text_edit" /\ t.message.author = c
                           /\ Told(L, t.message)
  /\ t.at = "resync" => t.content \in Text

Messages(L, ms) == IsSequence(ms) /\ \A n \in 1..Len(ms) : Sendable(L, ms[n])

\* A store: the buffer ends where the text on the screen does, whatever happened to
\* the client.
Store(L, s) ==
  /\ DOMAIN s = StoreFields
  /\ s.content \in Text /\ s.version \in 0..Len(L) /\ s.sent \in Nat
  /\ s.buffer # None => /\ s.buffer = <<s.buffer[1]>> /\ s.buffer[1] \in Operation
                        /\ TargetLen(s.buffer[1]) = Len(s.content)
  /\ s.unconfirmed # None =>
       LET u == s.unconfirmed[1]
       IN  /\ s.unconfirmed = <<EditRequest(s.sent, u.base, u.operation)>>
           /\ u.base \in 0..s.version /\ u.operation \in Operation

\* The request in flight is on its way, or being handled, or answered, and once.
Answers(c, m) == m.type = "text_edit" => m.author = c

Handled(c, t) == t.at = "resync" \/ (t.at = "broadcast" /\ c \in t.rest)

Once(c, s, q, t, ms) ==
  /\ q \in {None, s.unconfirmed}
  /\ Handled(c, t) => q = None /\ s.unconfirmed # None
  /\ t.at = "broadcast" /\ c \in t.rest => t.message.id = s.sent
  /\ \A n \in 1..Len(ms) :
       Answers(c, ms[n]) =>
         /\ q = None /\ s.unconfirmed # None /\ ~Handled(c, t)
         /\ ms[n].type = "text_edit" => ms[n].id = s.sent
         /\ \A k \in 1..Len(ms) : Answers(c, ms[k]) => k = n

\* A request of a client on track is not lost.
NotLost(c, s, q, t, ms, lost) ==
  c \notin lost /\ s.unconfirmed # None =>
    q # None \/ Handled(c, t) \/ \E n \in 1..Len(ms) : Answers(c, ms[n])

\* What was committed for the request in flight is what became of it over the edits
\* since, and a client on track has not seen it yet.
Commits(L, c, s, lost) ==
  \A v \in 1..Len(L) : L[v].author = c =>
    /\ L[v].id \in 0..s.sent
    /\ s.unconfirmed # None /\ L[v].id = s.sent =>
         LET u == s.unconfirmed[1]
         IN  /\ v > u.base /\ (c \notin lost => v > s.version)
             /\ RebaseOver(SubSeq(L, u.base + 1, v - 1), u.operation) = <<L[v].operation>>

\* The server's text with the request in flight on top.
Mine(L, s) ==
  IF s.unconfirmed = None THEN TextOf(L, s.version)
  ELSE Apply(RebaseOver(SubSeq(L, s.unconfirmed[1].base + 1, s.version),
                        s.unconfirmed[1].operation)[1], TextOf(L, s.version))

OnTrack(L, s) ==
  /\ s.unconfirmed # None => Fits(s.unconfirmed[1].operation, TextOf(L, s.unconfirmed[1].base))
  /\ s.buffer # None => Fits(s.buffer[1], Mine(L, s)) /\ s.content = Apply(s.buffer[1], Mine(L, s))
  /\ s.buffer = None => s.content = Mine(L, s)

Served(L, c, s, q, t, ms, lost) ==
  /\ Task(L, c, t) /\ Messages(L, ms) /\ Store(L, s)
  /\ Once(c, s, q, t, ms) /\ NotLost(c, s, q, t, ms, lost)
  /\ Commits(L, c, s, lost)
  /\ c \notin lost => OnTrack(L, s)

\* An edit is on its way to c behind the first n messages: in its channel, or with a
\* task that has still to send it.
OnItsWay(c, T, ms, v, n) ==
  \/ \E k \in n + 1..Len(ms) : ms[k].type = "text_edit" /\ ms[k].version = v
  \/ \E d \in Client : T[d].at = "broadcast" /\ c \in T[d].rest /\ T[d].message.version = v

Delivery(L, c, s, T, ms, lost) ==
  /\ c \notin lost => \A v \in s.version + 1..Len(L) : OnItsWay(c, T, ms, v, 0)
  /\ \A n \in 1..Len(ms) : ms[n].type = "cell_resync" =>
       \A v \in ms[n].version + 1..Len(L) : OnItsWay(c, T, ms, v, n)

FunctionsInv ==
  /\ client = [c \in Client |-> client[c]]
  /\ task = [c \in Client |-> task[c]]
  /\ toServer = [c \in Client |-> toServer[c]]
  /\ toClient = [c \in Client |-> toClient[c]]
  /\ astray \subseteq Client
  /\ typed \in 0..MaxTyped

ServedInv(c) ==
  /\ Served(log, c, client[c], toServer[c], task[c], toClient[c], astray)
  /\ Delivery(log, c, client[c], task, toClient[c], astray)

TextSyncInv ==
  /\ FunctionsInv
  /\ Committed(log, cell)
  /\ \A c \in Client : ServedInv(c)

\* A piece of a sequence.
LEMMA PartOf ==
  ASSUME NEW s, IsSequence(s), NEW m \in Nat, NEW n \in Nat, m <= n + 1, n <= Len(s), m # 0
  PROVE  /\ IsSequence(SubSeq(s, m, n)) /\ Len(SubSeq(s, m, n)) = n - m + 1
         /\ \A i \in 1..n - m + 1 : SubSeq(s, m, n)[i] = s[m + i - 1]
<1> DEFINE S == {s[i] : i \in 1..Len(s)} \cup {s}
<1>1. s \in Seq(S)
  BY SequenceOfElements
<1>2. Len(s) \in Nat
  BY DEF IsSequence
<1> HIDE DEF S
<1>3. m \in 1..Len(s) + 1 /\ n \in m - 1..Len(s)
  BY <1>2
<1>4. /\ SubSeq(s, m, n) \in Seq(S)
      /\ Len(SubSeq(s, m, n)) = n - m + 1
      /\ \A i \in 1..n - m + 1 : SubSeq(s, m, n)[i] = s[m + i - 1]
  BY <1>1, <1>3, SubSeqProperties
<1>5. QED
  BY <1>4, SeqIsSequence

\* The committed edits are a trail through the texts there were.
LEMMA LogTexts ==
  ASSUME NEW L, NEW k, Committed(L, k)
  PROVE  /\ Len(L) \in Nat /\ IsSequence(L)
         /\ \A v \in 0..Len(L) : TextOf(L, v) \in Text
         /\ \A v \in 1..Len(L) : /\ Fits(L[v].operation, TextOf(L, v - 1))
                                 /\ TextOf(L, v) = Apply(L[v].operation, TextOf(L, v - 1))
<1>1. Len(L) \in Nat /\ IsSequence(L)
  BY DEF Committed, IsSequence
<1>2. ASSUME NEW v \in 1..Len(L)
      PROVE  /\ Fits(L[v].operation, TextOf(L, v - 1))
             /\ TextOf(L, v) = Apply(L[v].operation, TextOf(L, v - 1))
  <2>1. /\ Fits(L[v].operation, TextOf(L, v - 1))
        /\ L[v].text = Apply(L[v].operation, TextOf(L, v - 1))
    BY DEF Committed
  <2>2. TextOf(L, v) = L[v].text
    BY DEF TextOf
  <2>3. QED
    BY <2>1, <2>2
<1>3. ASSUME NEW v \in 0..Len(L) PROVE TextOf(L, v) \in Text
  <2>1. CASE v = 0
    BY <2>1, TextAssumption DEF TextOf
  <2>2. CASE v \in 1..Len(L)
    BY <1>2, <2>2 DEF Fits
  <2>3. QED
    BY <1>1, <2>1, <2>2
<1>4. QED
  BY <1>1, <1>2, <1>3

LEMMA LogTrail ==
  ASSUME NEW L, NEW k, Committed(L, k), NEW a \in 0..Len(L), NEW b \in a..Len(L)
  PROVE  /\ IsSequence(SubSeq(L, a + 1, b)) /\ Len(SubSeq(L, a + 1, b)) = b - a
         /\ \A i \in 1..b - a : SubSeq(L, a + 1, b)[i] = L[a + i]
         /\ \A i \in 1..b - a : IsEdit(SubSeq(L, a + 1, b)[i])
         /\ Trail(SubSeq(L, a + 1, b), [v \in Nat |-> TextOf(L, a + v)])
<1>1. PICK n, m, p, t : /\ n = b - a /\ m = a + 1 /\ p = SubSeq(L, m, b)
                        /\ t = [v \in Nat |-> TextOf(L, a + v)]
  OBVIOUS
<1>2. Len(L) \in Nat /\ IsSequence(L) /\ a \in Nat /\ b \in Nat /\ n \in Nat /\ m \in Nat
      /\ m <= b + 1 /\ b <= Len(L) /\ b - m + 1 = n /\ m # 0
  BY <1>1, LogTexts
<1>3. /\ IsSequence(p) /\ Len(p) = n
      /\ \A i \in 1..n : p[i] = L[m + i - 1]
  <2>1. /\ IsSequence(SubSeq(L, m, b)) /\ Len(SubSeq(L, m, b)) = b - m + 1
        /\ \A i \in 1..b - m + 1 : SubSeq(L, m, b)[i] = L[m + i - 1]
    BY <1>2, PartOf
  <2>2. QED
    BY <1>1, <1>2, <2>1
<1>4. ASSUME NEW i \in 1..n
      PROVE  /\ p[i] = L[a + i] /\ Fits(p[i].operation, t[i - 1])
             /\ t[i] = Apply(p[i].operation, t[i - 1]) /\ IsEdit(p[i])
  <2>1. m + i - 1 = a + i /\ a + i \in 1..Len(L) /\ a + i - 1 = a + (i - 1) /\ i \in Nat /\ i - 1 \in Nat
    BY <1>1, <1>2
  <2>2. p[i] = L[a + i]
    BY <1>3, <2>1
  <2>3. t[i] = TextOf(L, a + i) /\ t[i - 1] = TextOf(L, a + i - 1)
    BY <1>1, <2>1
  <2>4. /\ Fits(L[a + i].operation, TextOf(L, a + i - 1))
        /\ TextOf(L, a + i) = Apply(L[a + i].operation, TextOf(L, a + i - 1))
    BY <2>1, LogTexts
  <2>5. QED
    BY <2>2, <2>3, <2>4 DEF IsEdit, Fits
<1>5. t[0] \in Text
  <2>1. t[0] = TextOf(L, a + 0) /\ a + 0 = a
    BY <1>1, <1>2
  <2>2. QED
    BY <2>1, LogTexts
<1>6. Trail(p, t)
  BY <1>3, <1>4, <1>5 DEF Trail
<1>7. QED
  BY <1>1, <1>3, <1>4, <1>6

\* An edit of a text there was becomes one of a later text.
LEMMA OverCommitted ==
  ASSUME NEW L, NEW k, Committed(L, k), NEW a \in 0..Len(L), NEW b \in a..Len(L),
         NEW o, Fits(o, TextOf(L, a))
  PROVE  \E r \in Operation : /\ RebaseOver(SubSeq(L, a + 1, b), o) = <<r>>
                              /\ Fits(r, TextOf(L, b))
<1>1. PICK p, t : p = SubSeq(L, a + 1, b) /\ t = [v \in Nat |-> TextOf(L, a + v)]
  OBVIOUS
<1>2. Trail(p, t) /\ Len(p) = b - a
  BY <1>1, LogTrail
<1>3. a \in Nat /\ b - a \in Nat /\ a + 0 = a /\ a + (b - a) = b
  BY LogTexts
<1>4. t[0] = TextOf(L, a) /\ t[Len(p)] = TextOf(L, b)
  BY <1>1, <1>2, <1>3
<1>5. \E r \in Operation : RebaseOver(p, o) = <<r>> /\ Fits(r, t[Len(p)])
  BY <1>2, <1>4, RebaseFits
<1>6. QED
  BY <1>1, <1>4, <1>5

\* Over no edit an operation stays what it is; over one it is transformed once.
LEMMA OverFew ==
  ASSUME NEW L, NEW k, Committed(L, k), NEW a \in 0..Len(L), NEW o \in Operation
  PROVE  /\ RebaseOver(SubSeq(L, a + 1, a), o) = <<o>>
         /\ a < Len(L) =>
              RebaseOver(SubSeq(L, a + 1, a + 1), o) = RebaseStep(<<o>>, L[a + 1])
<1>1. a \in Nat /\ a - a = 0 /\ a \in a..Len(L) /\ Len(L) \in Nat
  BY LogTexts
<1>2. RebaseOver(SubSeq(L, a + 1, a), o) = <<o>>
  <2>1. PICK p : p = SubSeq(L, a + 1, a)
    OBVIOUS
  <2>2. IsSequence(p) /\ Len(p) = 0 /\ \A i \in 1..Len(p) : IsEdit(p[i])
    <3>1. IsSequence(SubSeq(L, a + 1, a)) /\ Len(SubSeq(L, a + 1, a)) = a - a
      BY <1>1, LogTrail
    <3>2. QED
      BY <1>1, <2>1, <3>1
  <2>3. PICK h : Transformed(p, o, h)
    BY <2>2, RebaseRun
  <2>4. QED
    BY <2>1, <2>2, <2>3 DEF Transformed
<1>3. ASSUME a < Len(L)
      PROVE  RebaseOver(SubSeq(L, a + 1, a + 1), o) = RebaseStep(<<o>>, L[a + 1])
  <2>1. PICK b, p : b = a + 1 /\ p = SubSeq(L, a + 1, b)
    OBVIOUS
  <2>2. b \in a..Len(L) /\ b - a = 1
    BY <1>1, <1>3, <2>1
  <2>3. /\ IsSequence(p) /\ Len(p) = 1 /\ p[1] = L[a + 1]
        /\ \A i \in 1..Len(p) : IsEdit(p[i])
    <3>1. /\ IsSequence(SubSeq(L, a + 1, b)) /\ Len(SubSeq(L, a + 1, b)) = b - a
          /\ \A i \in 1..b - a : SubSeq(L, a + 1, b)[i] = L[a + i]
          /\ \A i \in 1..b - a : IsEdit(SubSeq(L, a + 1, b)[i])
      BY <2>2, LogTrail
    <3>2. QED
      BY <2>1, <2>2, <3>1
  <2>4. PICK h : Transformed(p, o, h)
    BY <2>3, RebaseRun
  <2>5. h[0] = <<o>> /\ h[1] = RebaseOver(p, o)
    BY <2>3, <2>4 DEF Transformed
  <2>6. h[0 + 1] = RebaseStep(h[0], p[0 + 1])
    <3>1. 0 \in 0..Len(p) - 1
      BY <2>3
    <3>2. QED
      BY <2>4, <3>1 DEF Transformed
  <2>7. QED
    BY <2>1, <2>3, <2>5, <2>6
<1>4. QED
  BY <1>2, <1>3

\* What an operation becomes depends on the operations it meets, and on nothing else.
LEMMA SameEdits ==
  ASSUME NEW p, NEW q, IsSequence(p), IsSequence(q), Len(p) = Len(q),
         \A i \in 1..Len(p) : IsEdit(p[i]) /\ p[i].operation = q[i].operation,
         NEW o \in Operation
  PROVE  RebaseOver(p, o) = RebaseOver(q, o)
<1>1. PICK n : n = Len(p)
  OBVIOUS
<1>2. /\ n \in Nat /\ Len(q) = n
      /\ \A i \in 1..n : IsEdit(p[i]) /\ IsEdit(q[i]) /\ p[i].operation = q[i].operation
  BY <1>1 DEF IsSequence, IsEdit
<1>3. PICK g : Transformed(p, o, g)
  BY <1>1, <1>2, RebaseRun
<1>4. PICK h : Transformed(q, o, h)
  BY <1>2, RebaseRun
<1> DEFINE P == {k \in Nat : k <= n => g[k] = h[k]}
<1>5. 0 \in P
  BY <1>3, <1>4 DEF Transformed
<1>6. ASSUME NEW k \in P PROVE k + 1 \in P
  <2>1. ASSUME k + 1 <= n PROVE g[k + 1] = h[k + 1]
    <3>0. k \in Nat /\ (k <= n => g[k] = h[k])
      BY <1>6
    <3>1. k <= n /\ k \in 0..n - 1 /\ k + 1 \in 1..n
      BY <1>2, <2>1, <3>0
    <3>2. g[k + 1] = RebaseStep(g[k], p[k + 1])
      BY <1>1, <1>3, <3>1 DEF Transformed
    <3>3. h[k + 1] = RebaseStep(h[k], q[k + 1])
      BY <1>2, <1>4, <3>1 DEF Transformed
    <3>4. p[k + 1].operation = q[k + 1].operation
      BY <1>2, <3>1
    <3>5. QED
      BY <3>0, <3>1, <3>2, <3>3, <3>4 DEF RebaseStep
  <2>2. QED
    BY <2>1
<1>7. P = Nat
  <2> HIDE DEF P
  <2>1. P \in SUBSET Nat
    BY DEF P
  <2>2. QED
    BY <1>5, <1>6, <2>1, Induction
<1>8. g[n] = h[n]
  BY <1>2, <1>7
<1>9. QED
  BY <1>1, <1>2, <1>3, <1>4, <1>8 DEF Transformed

\* The log with what was committed since.
GrownLog(L, M) ==
  /\ IsSequence(L) /\ IsSequence(M) /\ Len(L) <= Len(M)
  /\ \A v \in 1..Len(L) : M[v] = L[v]

\* What the log tells stays true.
LEMMA GrownTells ==
  ASSUME NEW L, NEW M, GrownLog(L, M)
  PROVE  /\ \A v \in 0..Len(L) : TextOf(M, v) = TextOf(L, v)
         /\ \A m : Told(L, m) => Told(M, m)
         /\ \A m : Sendable(L, m) => Sendable(M, m)
         /\ \A ms : Messages(L, ms) => Messages(M, ms)
         /\ \A s : Store(L, s) => Store(M, s)
         /\ \A c, t : Task(L, c, t) => Task(M, c, t)
<1>1. Len(L) \in Nat /\ Len(M) \in Nat /\ Len(L) <= Len(M) /\ \A v \in 1..Len(L) : M[v] = L[v]
  BY DEF GrownLog, IsSequence
<1>2. \A v \in 0..Len(L) : TextOf(M, v) = TextOf(L, v)
  BY <1>1 DEF TextOf
<1>3. ASSUME NEW m, Told(L, m) PROVE Told(M, m)
  BY <1>1, <1>3 DEF Told
<1>4. 0..Len(L) \subseteq 0..Len(M)
  BY <1>1
<1>5. ASSUME NEW m, Sendable(L, m) PROVE Sendable(M, m)
  BY <1>3, <1>4, <1>5 DEF Sendable
<1>6. ASSUME NEW ms, Messages(L, ms) PROVE Messages(M, ms)
  BY <1>5, <1>6 DEF Messages
<1>7. ASSUME NEW s, Store(L, s) PROVE Store(M, s)
  BY <1>4, <1>7 DEF Store
<1>8. ASSUME NEW c, NEW t, Task(L, c, t) PROVE Task(M, c, t)
  BY <1>3, <1>8 DEF Task
<1>9. QED
  BY <1>2, <1>3, <1>5, <1>6, <1>7, <1>8

LEMMA GrownPart ==
  ASSUME NEW L, NEW M, GrownLog(L, M), NEW a \in 0..Len(L), NEW b \in a..Len(L)
  PROVE  SubSeq(M, a + 1, b) = SubSeq(L, a + 1, b)
<1>1. PICK m, n : m = a + 1 /\ n = b - m + 1
  OBVIOUS
<1>2. /\ IsSequence(L) /\ IsSequence(M) /\ Len(L) \in Nat /\ Len(M) \in Nat
      /\ \A v \in 1..Len(L) : M[v] = L[v]
      /\ m \in Nat /\ b \in Nat /\ m <= b + 1 /\ b <= Len(L) /\ b <= Len(M) /\ m # 0 /\ n \in Nat
  BY <1>1 DEF GrownLog, IsSequence
<1>3. PICK x, y : x = SubSeq(M, m, b) /\ y = SubSeq(L, m, b)
  OBVIOUS
<1>4. IsSequence(x) /\ Len(x) = n /\ \A i \in 1..n : x[i] = M[m + i - 1]
  BY <1>1, <1>2, <1>3, PartOf
<1>5. IsSequence(y) /\ Len(y) = n /\ \A i \in 1..n : y[i] = L[m + i - 1]
  BY <1>1, <1>2, <1>3, PartOf
<1>6. ASSUME NEW i \in 1..n PROVE x[i] = y[i]
  <2>1. m + i - 1 \in 1..Len(L)
    BY <1>1, <1>2
  <2>2. QED
    BY <1>2, <1>4, <1>5, <2>1
<1>7. x = [i \in 1..n |-> x[i]] /\ y = [i \in 1..n |-> y[i]]
  BY <1>4, <1>5 DEF IsSequence
<1>8. [i \in 1..n |-> x[i]] = [i \in 1..n |-> y[i]]
  BY <1>6
<1>9. QED
  BY <1>1, <1>3, <1>7, <1>8

\* A client on track stays there while others are committed.
LEMMA GrownOnTrack ==
  ASSUME NEW L, NEW M, GrownLog(L, M), NEW s, Store(L, s), OnTrack(L, s)
  PROVE  OnTrack(M, s)
<1>1. s.version \in 0..Len(L) /\ Len(L) \in Nat
  BY DEF Store, GrownLog, IsSequence
<1>2. TextOf(M, s.version) = TextOf(L, s.version)
  BY <1>1, GrownTells
<1>3. ASSUME s.unconfirmed # None
      PROVE  /\ TextOf(M, s.unconfirmed[1].base) = TextOf(L, s.unconfirmed[1].base)
             /\ SubSeq(M, s.unconfirmed[1].base + 1, s.version)
                  = SubSeq(L, s.unconfirmed[1].base + 1, s.version)
  <2>1. PICK b : b = s.unconfirmed[1].base
    OBVIOUS
  <2>2. b \in 0..s.version
    BY <1>3, <2>1 DEF Store
  <2>3. b \in 0..Len(L) /\ s.version \in b..Len(L)
    BY <1>1, <2>2
  <2>4. TextOf(M, b) = TextOf(L, b)
    BY <2>3, GrownTells
  <2>5. SubSeq(M, b + 1, s.version) = SubSeq(L, b + 1, s.version)
    BY <2>3, GrownPart
  <2>6. QED
    BY <2>1, <2>4, <2>5
<1>4. Mine(M, s) = Mine(L, s)
  BY <1>2, <1>3 DEF Mine
<1>5. QED
  BY <1>3, <1>4 DEF OnTrack

----------------------------------------------------------------------------
(* What a client does. *)

\* What a store says about the request in flight.
LEMMA SameRequest ==
  ASSUME NEW L, NEW c, NEW s, NEW n, NEW q, NEW t, NEW ms, NEW lost,
         n.version = s.version, n.unconfirmed = s.unconfirmed, n.sent = s.sent
  PROVE  /\ Once(c, s, q, t, ms) => Once(c, n, q, t, ms)
         /\ NotLost(c, s, q, t, ms, lost) => NotLost(c, n, q, t, ms, lost)
         /\ Commits(L, c, s, lost) => Commits(L, c, n, lost)
         /\ Mine(L, n) = Mine(L, s)
<1>1. Once(c, s, q, t, ms) => Once(c, n, q, t, ms)
  BY DEF Once
<1>2. NotLost(c, s, q, t, ms, lost) => NotLost(c, n, q, t, ms, lost)
  BY DEF NotLost
<1>3. Commits(L, c, s, lost) => Commits(L, c, n, lost)
  BY DEF Commits
<1>4. Mine(L, n) = Mine(L, s)
  BY DEF Mine
<1>5. QED
  BY <1>1, <1>2, <1>3, <1>4

LEMMA MineIsText ==
  ASSUME NEW L, NEW k, Committed(L, k), NEW s, Store(L, s), OnTrack(L, s)
  PROVE  Mine(L, s) \in Text
<1>1. s.version \in 0..Len(L) /\ Len(L) \in Nat
  BY LogTexts DEF Store
<1>2. CASE s.unconfirmed = None
  BY <1>1, <1>2, LogTexts DEF Mine
<1>3. CASE s.unconfirmed # None
  <2>1. PICK b, o : b = s.unconfirmed[1].base /\ o = s.unconfirmed[1].operation
    OBVIOUS
  <2>2. b \in 0..s.version /\ Fits(o, TextOf(L, b))
    BY <1>3, <2>1 DEF Store, OnTrack
  <2>3. b \in 0..Len(L) /\ s.version \in b..Len(L)
    BY <1>1, <2>2
  <2>4. PICK r \in Operation : /\ RebaseOver(SubSeq(L, b + 1, s.version), o) = <<r>>
                               /\ Fits(r, TextOf(L, s.version))
    BY <2>2, <2>3, OverCommitted
  <2>5. Mine(L, s) = Apply(r, TextOf(L, s.version))
    BY <1>3, <2>1, <2>4 DEF Mine
  <2>6. QED
    BY <2>4, <2>5 DEF Fits
<1>4. QED
  BY <1>2, <1>3

\* Typing: the change is composed into the buffer.
LEMMA TypedServed ==
  ASSUME NEW L, NEW k, Committed(L, k),
         NEW c, NEW s, NEW q, NEW t, NEW ms, NEW lost, Served(L, c, s, q, t, ms, lost),
         NEW new \in Text
  PROVE  Served(L, c, LocalTextEdit(s, ComputeDiff(s.content, new)), q, t, ms, lost)
<1>1. PICK d, n : d = ComputeDiff(s.content, new) /\ n = LocalTextEdit(s, d)
  OBVIOUS
<1>2. DOMAIN s = StoreFields /\ s.content \in Text /\ Store(L, s)
  BY DEF Served, Store
<1>3. Fits(d, s.content) /\ Apply(d, s.content) = new
  BY <1>1, <1>2, DiffFits
<1>4. d \in Operation /\ BaseLen(d) = Len(s.content) /\ TargetLen(d) = Len(new)
  BY <1>2, <1>3, ApplyType DEF Fits, Applicable
<1>5. /\ DOMAIN n = StoreFields /\ n.content = new
      /\ n.version = s.version /\ n.unconfirmed = s.unconfirmed /\ n.sent = s.sent
      /\ n.buffer = IF s.buffer = None THEN <<d>> ELSE <<Compose(s.buffer[1], d)>>
  BY <1>1, <1>2, <1>3 DEF LocalTextEdit, StoreFields
<1>6. PICK e : n.buffer = <<e>>
  BY <1>5
<1>7. CASE s.buffer = None
  <2>1. e = d
    BY <1>5, <1>6, <1>7
  <2>2. Store(L, n)
    BY <1>2, <1>4, <1>5, <1>6, <2>1 DEF Store, None
  <2>3. OnTrack(L, s) => OnTrack(L, n)
    <3>1. Mine(L, n) = Mine(L, s)
      BY <1>5, SameRequest
    <3>2. QED
      BY <1>3, <1>5, <1>6, <1>7, <2>1, <3>1 DEF OnTrack, None
  <2>4. QED
    BY <1>1, <1>5, <2>2, <2>3, SameRequest DEF Served
<1>8. CASE s.buffer # None
  <2>1. PICK b \in Operation : s.buffer = <<b>> /\ TargetLen(b) = Len(s.content)
    BY <1>2, <1>8 DEF Store
  <2>2. e = Compose(b, d) /\ Composable(b, d)
    BY <1>4, <1>5, <1>6, <1>8, <2>1 DEF Composable
  <2>3. ActsAs(b, d, e)
    BY <1>4, <2>2, Composition DEF Sequential
  <2>4. /\ e \in Operation /\ BaseLen(e) = BaseLen(b) /\ TargetLen(e) = Len(new)
        /\ \A x \in Text : Applicable(b, x) => Apply(e, x) = Apply(d, Apply(b, x))
    BY <1>4, <2>3 DEF ActsAs
  <2>5. Store(L, n)
    BY <1>2, <1>5, <1>6, <2>4 DEF Store, None
  <2>6. ASSUME OnTrack(L, s) PROVE OnTrack(L, n)
    <3>1. PICK x : x = Mine(L, s)
      OBVIOUS
    <3>2. Fits(b, x) /\ s.content = Apply(b, x) /\ x = Mine(L, n)
      BY <1>5, <1>8, <2>1, <2>6, <3>1, SameRequest DEF OnTrack
    <3>3. x \in Text /\ Applicable(b, x) /\ Applicable(e, x) /\ Apply(e, x) = new
      BY <1>3, <2>4, <3>2 DEF Fits, Applicable
    <3>4. Fits(e, x)
      BY <2>4, <3>3 DEF Fits
    <3>5. QED
      BY <1>5, <1>6, <2>6, <3>2, <3>3, <3>4 DEF OnTrack, None
  <2>7. QED
    BY <1>1, <1>5, <2>5, <2>6, SameRequest DEF Served
<1>9. QED
  BY <1>7, <1>8

\* Flushing: the buffer becomes the request in flight.
LEMMA FlushServed ==
  ASSUME NEW L, NEW k, Committed(L, k),
         NEW c, NEW s, NEW t, NEW ms, NEW lost, Served(L, c, s, None, t, ms, lost), MayFlush(s)
  PROVE  /\ Served(L, c, Flushed(s), Flushed(s).unconfirmed, t, ms, lost)
         /\ Flushed(s).version = s.version
         /\ Flushed(s).unconfirmed = Append(None, Flushed(s).unconfirmed[1])
<1>1. PICK f : f = Flushed(s)
  OBVIOUS
<1>2. DOMAIN s = StoreFields /\ Store(L, s) /\ s.unconfirmed = None /\ s.buffer # None
  BY DEF Served, Store, MayFlush
<1>3. PICK b \in Operation : s.buffer = <<b>>
  BY <1>2 DEF Store
<1>4. PICK r : r = EditRequest(s.sent + 1, s.version, b)
  OBVIOUS
<1>5. /\ DOMAIN f = StoreFields /\ f.content = s.content /\ f.version = s.version
      /\ f.buffer = None /\ f.unconfirmed = <<r>> /\ f.sent = s.sent + 1
  BY <1>1, <1>2, <1>3, <1>4 DEF Flushed, StoreFields
<1>6. r.base = s.version /\ r.operation = b /\ r = EditRequest(f.sent, r.base, r.operation)
  BY <1>4, <1>5 DEF EditRequest
<1>7. s.sent \in Nat /\ s.version \in Nat
  BY <1>2 DEF Store
<1>8. Store(L, f)
  <2>1. f.unconfirmed[1] = r /\ f.sent \in Nat /\ r.base \in 0..f.version
    BY <1>5, <1>6, <1>7
  <2>2. QED
    BY <1>2, <1>5, <1>6, <2>1 DEF Store
<1>9. Once(c, f, f.unconfirmed, t, ms)
  BY <1>2 DEF Served, Once, Handled
<1>10. NotLost(c, f, f.unconfirmed, t, ms, lost)
  BY <1>5 DEF NotLost, None
<1>11. Commits(L, c, f, lost)
  <2>1. ASSUME NEW v \in 1..Len(L), L[v].author = c
        PROVE  L[v].id \in 0..f.sent /\ L[v].id # f.sent
    <3>1. L[v].id \in 0..s.sent
      BY <2>1 DEF Served, Commits
    <3>2. QED
      BY <1>5, <1>7, <3>1
  <2>2. QED
    BY <2>1 DEF Commits
<1>12. ASSUME OnTrack(L, s) PROVE OnTrack(L, f)
  <2>1. PICK v, x : v = s.version /\ x = TextOf(L, v)
    OBVIOUS
  <2>2. Fits(b, x) /\ s.content = Apply(b, x)
    BY <1>2, <1>3, <1>12, <2>1 DEF OnTrack, Mine
  <2>3. v \in 0..Len(L)
    BY <1>2, <2>1 DEF Store
  <2>4. RebaseOver(SubSeq(L, v + 1, v), b) = <<b>>
    BY <2>3, OverFew
  <2>5. Mine(L, f) = Apply(b, x)
    BY <1>5, <1>6, <2>1, <2>4 DEF Mine, None
  <2>6. QED
    BY <1>5, <1>6, <2>1, <2>2, <2>5 DEF OnTrack, None
<1>13. f.unconfirmed = Append(None, f.unconfirmed[1])
  BY <1>5 DEF None
<1>14. QED
  BY <1>1, <1>5, <1>8, <1>9, <1>10, <1>11, <1>12, <1>13 DEF Served

\* The channel to c without its first message.
LEMMA TakenFirst ==
  ASSUME NEW L, NEW c, NEW s, NEW q, NEW t, NEW ms, NEW lost, Served(L, c, s, q, t, ms, lost),
         ms # <<>>
  PROVE  /\ Sendable(L, Head(ms)) /\ Messages(L, Tail(ms))
         /\ Once(c, s, q, t, Tail(ms))
         /\ ~Answers(c, Head(ms)) => NotLost(c, s, q, t, Tail(ms), lost)
         /\ Answers(c, Head(ms)) =>
              /\ q = None /\ s.unconfirmed # None /\ ~Handled(c, t)
              /\ Head(ms).type = "text_edit" => Head(ms).id = s.sent
              /\ \A n \in 1..Len(Tail(ms)) : ~Answers(c, Tail(ms)[n])
<1>1. PICK m, r : m = Head(ms) /\ r = Tail(ms)
  OBVIOUS
<1>2. /\ IsSequence(ms) /\ Len(ms) \in Nat /\ Len(ms) > 0 /\ m = ms[1]
      /\ \A n \in 1..Len(ms) : Sendable(L, ms[n])
  BY <1>1, HeadOfSequence DEF Served, Messages
<1>3. IsSequence(r) /\ Len(r) = Len(ms) - 1 /\ \A n \in 1..Len(ms) - 1 : r[n] = ms[n + 1]
  BY <1>1, <1>2, TailIsSequence
<1>4. \A n \in 1..Len(r) : n + 1 \in 1..Len(ms) /\ r[n] = ms[n + 1] /\ n + 1 # 1
  BY <1>2, <1>3
<1>5. Messages(L, r)
  BY <1>2, <1>3, <1>4 DEF Messages
<1>6. Once(c, s, q, t, ms) /\ NotLost(c, s, q, t, ms, lost)
  BY DEF Served
<1>7. ASSUME NEW n \in 1..Len(r), Answers(c, r[n])
      PROVE  /\ q = None /\ s.unconfirmed # None /\ ~Handled(c, t)
             /\ r[n].type = "text_edit" => r[n].id = s.sent
             /\ \A k \in 1..Len(r) : Answers(c, r[k]) => k = n
             /\ ~Answers(c, m)
  <2>1. PICK i : i = n + 1
    OBVIOUS
  <2>2. i \in 1..Len(ms) /\ r[n] = ms[i] /\ i # 1 /\ 1 \in 1..Len(ms)
    BY <1>2, <1>4, <2>1
  <2>3. /\ q = None /\ s.unconfirmed # None /\ ~Handled(c, t)
        /\ ms[i].type = "text_edit" => ms[i].id = s.sent
        /\ \A k \in 1..Len(ms) : Answers(c, ms[k]) => k = i
    BY <1>6, <1>7, <2>2 DEF Once
  <2>4. ASSUME NEW k \in 1..Len(r), Answers(c, r[k]) PROVE k = n
    <3>1. k + 1 \in 1..Len(ms) /\ r[k] = ms[k + 1]
      BY <1>4
    <3>2. k + 1 = n + 1
      BY <2>1, <2>3, <2>4, <3>1
    <3>3. QED
      BY <3>2
  <2>5. QED
    BY <1>2, <2>2, <2>3, <2>4
<1>8. Once(c, s, q, t, r)
  BY <1>6, <1>7 DEF Once
<1>9. ASSUME ~Answers(c, m) PROVE NotLost(c, s, q, t, r, lost)
  <2>1. ASSUME NEW n \in 1..Len(ms), Answers(c, ms[n])
        PROVE  \E k \in 1..Len(r) : Answers(c, r[k])
    <3>1. n # 1
      BY <1>2, <1>9, <2>1
    <3>2. n - 1 \in 1..Len(r) /\ n - 1 + 1 = n
      BY <1>2, <1>3, <3>1
    <3>3. r[n - 1] = ms[n]
      BY <1>4, <3>2
    <3>4. QED
      BY <2>1, <3>2, <3>3
  <2>2. QED
    BY <1>6, <2>1 DEF NotLost
<1>10. ASSUME Answers(c, m)
       PROVE  /\ q = None /\ s.unconfirmed # None /\ ~Handled(c, t)
              /\ m.type = "text_edit" => m.id = s.sent
              /\ \A n \in 1..Len(r) : ~Answers(c, r[n])
  <2>1. 1 \in 1..Len(ms)
    BY <1>2
  <2>2. /\ q = None /\ s.unconfirmed # None /\ ~Handled(c, t)
        /\ m.type = "text_edit" => m.id = s.sent
    BY <1>2, <1>6, <1>10, <2>1 DEF Once
  <2>3. QED
    BY <1>7, <1>10, <2>2
<1>11. Sendable(L, m)
  BY <1>2
<1>12. QED
  BY <1>1, <1>5, <1>8, <1>9, <1>10, <1>11

\* The id of the request in flight.
LEMMA RequestId ==
  ASSUME NEW L, NEW s, Store(L, s), s.unconfirmed # None
  PROVE  s.unconfirmed[1].id = s.sent
<1>1. PICK b, o : s.unconfirmed = <<EditRequest(s.sent, b, o)>>
  BY DEF Store
<1>2. s.unconfirmed[1] = EditRequest(s.sent, b, o)
  BY <1>1
<1>3. QED
  BY <1>2 DEF EditRequest

\* An edit that has been seen before changes nothing; the echo of a client on track
\* is none.
LEMMA StaleServed ==
  ASSUME NEW L, NEW c, NEW s, NEW q, NEW t, NEW ms, NEW lost, Served(L, c, s, q, t, ms, lost),
         ms # <<>>, Head(ms).type = "text_edit", Head(ms).version <= s.version
  PROVE  Served(L, c, s, q, t, Tail(ms), lost)
<1>1. PICK m, r : m = Head(ms) /\ r = Tail(ms)
  OBVIOUS
<1>2. /\ Told(L, m) /\ Messages(L, r) /\ Once(c, s, q, t, r)
      /\ ~Answers(c, m) => NotLost(c, s, q, t, r, lost)
      /\ Answers(c, m) => s.unconfirmed # None /\ m.id = s.sent
  BY <1>1, TakenFirst DEF Sendable
<1>3. ASSUME Answers(c, m) PROVE c \in lost
  <2>1. PICK v : v = m.version
    OBVIOUS
  <2>2. /\ v \in 1..Len(L) /\ L[v].author = c /\ L[v].id = s.sent /\ s.unconfirmed # None
        /\ v <= s.version
    BY <1>1, <1>2, <1>3, <2>1 DEF Told, Answers
  <2>3. c \notin lost => v > s.version
    BY <2>2 DEF Served, Commits
  <2>4. Len(L) \in Nat \/ v \in Int
    BY <2>2
  <2>5. v \in Int /\ s.version \in Int
    BY <2>2 DEF Served, Store
  <2>6. QED
    BY <2>2, <2>3, <2>5
<1>4. NotLost(c, s, q, t, r, lost)
  BY <1>2, <1>3 DEF NotLost
<1>5. QED
  BY <1>1, <1>2, <1>4 DEF Served

\* The echo of the request in flight: what has been committed for it is what the
\* client shows.
LEMMA AckServed ==
  ASSUME NEW L, NEW k, Committed(L, k),
         NEW c, NEW s, NEW q, NEW t, NEW ms, NEW lost, Served(L, c, s, q, t, ms, lost),
         ms # <<>>, Head(ms).type = "text_edit", IsAck(c, s, Head(ms)), NEW late,
         c \notin late => c \notin lost /\ Head(ms).version = s.version + 1
  PROVE  q = None /\ Served(L, c, Acknowledged(s, Head(ms)), None, t, Tail(ms), late)
<1>1. PICK m, r, v, a : /\ m = Head(ms) /\ r = Tail(ms) /\ v = m.version
                        /\ a = Acknowledged(s, m)
  OBVIOUS
<1>2. Store(L, s) /\ DOMAIN s = StoreFields /\ s.version \in Nat /\ s.sent \in Nat
  BY DEF Served, Store
<1>3. Answers(c, m) /\ m.author = c /\ s.unconfirmed # None
  BY <1>1 DEF IsAck, Answers
<1>4. /\ Told(L, m) /\ Messages(L, r) /\ Once(c, s, q, t, r)
      /\ q = None /\ ~Handled(c, t) /\ m.id = s.sent
      /\ \A n \in 1..Len(r) : ~Answers(c, r[n])
  BY <1>1, <1>3, TakenFirst DEF Sendable
<1>5. v \in 1..Len(L) /\ L[v].author = c /\ L[v].id = s.sent /\ Len(L) \in Nat
  BY <1>1, <1>3, <1>4, LogTexts DEF Told
<1>6. /\ DOMAIN a = StoreFields /\ a.content = s.content /\ a.version = v
      /\ a.buffer = s.buffer /\ a.unconfirmed = None /\ a.sent = s.sent
  BY <1>1, <1>2 DEF Acknowledged, StoreFields
<1>7. Store(L, a)
  BY <1>2, <1>5, <1>6 DEF Store
<1>8. Once(c, a, None, t, r)
  BY <1>4 DEF Once, Handled
<1>9. NotLost(c, a, None, t, r, late)
  BY <1>6 DEF NotLost
<1>10. Commits(L, c, a, late)
  BY <1>6 DEF Served, Commits
<1>11. ASSUME c \notin late PROVE OnTrack(L, a)
  <2>1. OnTrack(L, s) /\ v = s.version + 1
    BY <1>1, <1>11 DEF Served
  <2>2. PICK u : u = s.unconfirmed[1]
    OBVIOUS
  <2>3. RebaseOver(SubSeq(L, u.base + 1, v - 1), u.operation) = <<L[v].operation>>
    BY <1>3, <1>5, <2>2 DEF Served, Commits
  <2>4. v - 1 = s.version
    BY <1>2, <2>1
  <2>5. Mine(L, s) = Apply(L[v].operation, TextOf(L, v - 1))
    BY <1>3, <2>2, <2>3, <2>4 DEF Mine
  <2>6. TextOf(L, v) = Apply(L[v].operation, TextOf(L, v - 1))
    BY <1>5, LogTexts
  <2>7. Mine(L, a) = Mine(L, s)
    BY <1>6, <2>5, <2>6 DEF Mine
  <2>8. QED
    BY <1>6, <2>1, <2>7 DEF OnTrack
<1>12. Task(L, c, t)
  BY DEF Served
<1>13. QED
  BY <1>1, <1>4, <1>7, <1>8, <1>9, <1>10, <1>11, <1>12 DEF Served

\* A resync: nothing is in flight any more.
LEMMA ResyncServed ==
  ASSUME NEW L, NEW c, NEW s, NEW q, NEW t, NEW ms, NEW lost, Served(L, c, s, q, t, ms, lost),
         ms # <<>>, Head(ms).type = "cell_resync", NEW late,
         c \notin late => Head(ms).content = TextOf(L, Head(ms).version)
  PROVE  q = None /\ Served(L, c, Resynced(s, Head(ms)), None, t, Tail(ms), late)
<1>1. PICK m, r, n : m = Head(ms) /\ r = Tail(ms) /\ n = Resynced(s, m)
  OBVIOUS
<1>2. Store(L, s) /\ DOMAIN s = StoreFields
  BY DEF Served, Store
<1>3. Answers(c, m)
  BY <1>1 DEF Answers
<1>4. /\ m.content \in Text /\ m.version \in 0..Len(L) /\ Messages(L, r)
      /\ q = None /\ ~Handled(c, t)
      /\ \A i \in 1..Len(r) : ~Answers(c, r[i])
  BY <1>1, <1>3, TakenFirst DEF Sendable
<1>5. /\ DOMAIN n = StoreFields /\ n.content = m.content /\ n.version = m.version
      /\ n.buffer = None /\ n.unconfirmed = None /\ n.sent = s.sent
  BY <1>1, <1>2 DEF Resynced, StoreFields
<1>6. Store(L, n)
  BY <1>2, <1>4, <1>5 DEF Store
<1>7. Once(c, n, None, t, r)
  BY <1>4 DEF Once, Handled
<1>8. NotLost(c, n, None, t, r, late)
  BY <1>5 DEF NotLost
<1>9. Commits(L, c, n, late)
  BY <1>5 DEF Served, Commits
<1>10. ASSUME c \notin late PROVE OnTrack(L, n)
  BY <1>1, <1>5, <1>10 DEF OnTrack, Mine
<1>11. Task(L, c, t)
  BY DEF Served
<1>12. QED
  BY <1>1, <1>4, <1>6, <1>7, <1>8, <1>9, <1>10, <1>11 DEF Served

\* A refusal: the edit stays on the screen, and the client is off the track.
LEMMA FailureServed ==
  ASSUME NEW L, NEW c, NEW s, NEW q, NEW t, NEW ms, NEW lost, Served(L, c, s, q, t, ms, lost),
         ms # <<>>, Head(ms).type = "text_operation_failed", NEW late, c \in late
  PROVE  q = None /\ Served(L, c, [s EXCEPT !.unconfirmed = None], None, t, Tail(ms), late)
<1>1. PICK m, r, n : m = Head(ms) /\ r = Tail(ms) /\ n = [s EXCEPT !.unconfirmed = None]
  OBVIOUS
<1>2. Store(L, s) /\ DOMAIN s = StoreFields
  BY DEF Served, Store
<1>3. Answers(c, m)
  BY <1>1 DEF Answers
<1>4. /\ Messages(L, r)
      /\ q = None /\ ~Handled(c, t)
      /\ \A i \in 1..Len(r) : ~Answers(c, r[i])
  BY <1>1, <1>3, TakenFirst
<1>5. /\ DOMAIN n = StoreFields /\ n.content = s.content /\ n.version = s.version
      /\ n.buffer = s.buffer /\ n.unconfirmed = None /\ n.sent = s.sent
  BY <1>1, <1>2 DEF StoreFields
<1>6. Store(L, n)
  BY <1>2, <1>5 DEF Store
<1>7. Once(c, n, None, t, r)
  BY <1>4 DEF Once, Handled
<1>8. NotLost(c, n, None, t, r, late)
  BY <1>5 DEF NotLost
<1>9. Commits(L, c, n, late)
  BY <1>5 DEF Served, Commits
<1>10. Task(L, c, t)
  BY DEF Served
<1>11. QED
  BY <1>1, <1>4, <1>6, <1>7, <1>8, <1>9, <1>10 DEF Served

\* Two operations that meet, one after the other in either order, make texts of the
\* same length.
LEMMA SameTarget ==
  ASSUME NEW ch \in Char, NEW a \in Operation, NEW b \in Operation, Transformable(a, b)
  PROVE  /\ Transform(a, b).aPrime \in Operation /\ Transform(a, b).bPrime \in Operation
         /\ BaseLen(Transform(a, b).aPrime) = TargetLen(b)
         /\ TargetLen(Transform(a, b).aPrime) = TargetLen(Transform(a, b).bPrime)
<1>1. PICK p, n, t : p = Transform(a, b) /\ n = BaseLen(a) /\ t = Times(ch, n)
  OBVIOUS
<1>2. n \in Nat /\ BaseLen(b) = n
  BY <1>1, LengthsOfCons DEF Transformable
<1>3. t \in Text /\ Len(t) = n
  BY <1>1, <1>2, TimesFacts DEF Text
<1>4. Applicable(a, t) /\ Applicable(b, t)
  BY <1>1, <1>2, <1>3 DEF Applicable
<1>5. Exchanges(a, b, p)
  BY <1>1, Transformation DEF Convergent
<1>6. /\ p.aPrime \in Operation /\ p.bPrime \in Operation
      /\ BaseLen(p.aPrime) = TargetLen(b) /\ BaseLen(p.bPrime) = TargetLen(a)
      /\ Apply(p.bPrime, Apply(a, t)) = Apply(p.aPrime, Apply(b, t))
  BY <1>3, <1>4, <1>5 DEF Exchanges
<1>7. /\ Apply(a, t) \in Text /\ Len(Apply(a, t)) = TargetLen(a)
      /\ Apply(b, t) \in Text /\ Len(Apply(b, t)) = TargetLen(b)
  BY <1>3, <1>4, ApplyType
<1>8. /\ Len(Apply(p.bPrime, Apply(a, t))) = TargetLen(p.bPrime)
      /\ Len(Apply(p.aPrime, Apply(b, t))) = TargetLen(p.aPrime)
  BY <1>6, <1>7, ApplyType DEF Applicable
<1>9. QED
  BY <1>1, <1>6, <1>8

\* What a client has pending.
Pending == {None} \cup {<<o>> : o \in Operation}

\* Passing an operation over what is pending.
LEMMA PassFacts ==
  ASSUME NEW ch \in Char, NEW a \in Operation, NEW p \in Pending, CanPass(a, p)
  PROVE  /\ Pass(a, p).incoming \in Operation
         /\ p = None => Pass(a, p).incoming = a /\ Pass(a, p).pending = None
         /\ p # None => \E o \in Operation :
              /\ Pass(a, p).pending = <<o>>
              /\ BaseLen(Pass(a, p).incoming) = TargetLen(p[1])
              /\ TargetLen(o) = TargetLen(Pass(a, p).incoming)
<1>1. CASE p = None
  BY <1>1 DEF Pass
<1>2. CASE p # None
  <2>1. PICK b \in Operation : p = <<b>>
    BY <1>2 DEF Pending
  <2>2. Transformable(a, b)
    BY <1>2, <2>1 DEF CanPass
  <2>3. PICK t : t = Transform(a, b)
    OBVIOUS
  <2>4. Pass(a, p).incoming = t.aPrime /\ Pass(a, p).pending = <<t.bPrime>>
    BY <1>2, <2>1, <2>3 DEF Pass
  <2>5. /\ t.aPrime \in Operation /\ t.bPrime \in Operation
        /\ BaseLen(t.aPrime) = TargetLen(b) /\ TargetLen(t.aPrime) = TargetLen(t.bPrime)
    BY <2>2, <2>3, SameTarget
  <2>6. QED
    BY <1>2, <2>1, <2>4, <2>5
<1>3. QED
  BY <1>1, <1>2

\* Passing an edit over a pending edit of the same text: both fit, and lead to the
\* same text.
LEMMA PassFits ==
  ASSUME NEW a, NEW x, Fits(a, x), NEW p, p # None => Fits(p[1], x)
  PROVE  LET after == IF p = None THEN x ELSE Apply(p[1], x)
             r == Pass(a, p)
         IN  /\ CanPass(a, p)
             /\ Fits(r.incoming, after)
             /\ p # None => /\ Fits(r.pending[1], Apply(a, x))
                            /\ Apply(r.pending[1], Apply(a, x)) = Apply(r.incoming, after)
<1>1. CASE p = None
  BY <1>1 DEF Pass, CanPass
<1>2. CASE p # None
  <2>1. PICK b : b = p[1]
    OBVIOUS
  <2>2. Fits(b, x)
    BY <1>2, <2>1
  <2>3. PICK t : t = Transform(a, b)
    OBVIOUS
  <2>4. /\ Transformable(a, b)
        /\ Fits(t.aPrime, Apply(b, x)) /\ Fits(t.bPrime, Apply(a, x))
        /\ Apply(t.bPrime, Apply(a, x)) = Apply(t.aPrime, Apply(b, x))
    <3>1. Fits(a, x) /\ Fits(b, x)
      BY <2>2
    <3>2. /\ Transformable(a, b)
          /\ Fits(Transform(a, b).aPrime, Apply(b, x))
          /\ Fits(Transform(a, b).bPrime, Apply(a, x))
          /\ Apply(Transform(a, b).bPrime, Apply(a, x))
               = Apply(Transform(a, b).aPrime, Apply(b, x))
      BY <3>1, ExchangeFits
    <3>3. QED
      BY <2>3, <3>2
  <2>5. PICK r : r = Pass(a, p)
    OBVIOUS
  <2>6. r.incoming = t.aPrime /\ r.pending[1] = t.bPrime
    BY <1>2, <2>1, <2>3, <2>5 DEF Pass
  <2>7. CanPass(a, p)
    BY <2>1, <2>4 DEF CanPass
  <2>8. QED
    BY <1>2, <2>1, <2>4, <2>5, <2>6, <2>7
<1>3. QED
  BY <1>1, <1>2

InFlight(s) == IF s.unconfirmed = None THEN None ELSE <<s.unconfirmed[1].operation>>

\* The edit of another client, passed over the request in flight, is one of what the
\* client shows without its buffer; and the request, rebased once more, does on the
\* server's new text what it did.
LEMMA FirstPass ==
  ASSUME NEW L, NEW k, Committed(L, k), NEW s, Store(L, s), OnTrack(L, s),
         NEW m, Told(L, m), m.version = s.version + 1,
         s.unconfirmed # None => s.unconfirmed[1].base = s.version,
         NEW n, n.version = m.version, n.unconfirmed = s.unconfirmed
  PROVE  LET first == Pass(m.operation, InFlight(s)).incoming
         IN  /\ CanPass(m.operation, InFlight(s))
             /\ Fits(first, Mine(L, s))
             /\ Mine(L, n) = Apply(first, Mine(L, s))
<1>1. PICK a, v, x, w : /\ a = m.operation /\ v = s.version /\ x = TextOf(L, v)
                        /\ w = m.version
  OBVIOUS
<1>2. /\ v \in Nat /\ w = v + 1 /\ w \in 1..Len(L) /\ v \in 0..Len(L) /\ v < Len(L)
      /\ w - 1 = v /\ Len(L) \in Nat
  BY <1>1, LogTexts DEF Store, Told
<1>3. L[w].operation = a
  BY <1>1 DEF Told
<1>4. Fits(a, x) /\ TextOf(L, w) = Apply(a, x)
  <2>1. /\ Fits(L[w].operation, TextOf(L, w - 1))
        /\ TextOf(L, w) = Apply(L[w].operation, TextOf(L, w - 1))
    BY <1>2, LogTexts
  <2>2. QED
    BY <1>1, <1>2, <1>3, <2>1
<1>5. CASE s.unconfirmed = None
  <2>1. InFlight(s) = None /\ Mine(L, s) = x /\ Mine(L, n) = TextOf(L, w)
    BY <1>1, <1>5 DEF InFlight, Mine
  <2>2. Pass(a, None).incoming = a /\ CanPass(a, None)
    BY DEF Pass, CanPass
  <2>3. QED
    BY <1>1, <1>4, <2>1, <2>2
<1>6. CASE s.unconfirmed # None
  <2>1. PICK u, o, p : /\ u = s.unconfirmed[1] /\ o = s.unconfirmed[1].operation /\ p = <<o>>
    OBVIOUS
  <2>2. Fits(o, x) /\ u.base = v
    BY <1>1, <1>6, <2>1 DEF OnTrack
  <2>3. InFlight(s) = p /\ p # None /\ p[1] = o
    BY <1>6, <2>1 DEF InFlight, None
  <2>4. Mine(L, s) = Apply(o, x)
    <3>1. RebaseOver(SubSeq(L, v + 1, v), o) = <<o>>
      BY <1>2, <2>2, OverFew DEF Fits
    <3>2. QED
      BY <1>1, <1>6, <2>1, <2>2, <3>1 DEF Mine
  <2>5. PICK r : r = Pass(a, p)
    OBVIOUS
  <2>6. /\ CanPass(a, p) /\ Fits(r.incoming, Apply(o, x))
        /\ Apply(r.pending[1], Apply(a, x)) = Apply(r.incoming, Apply(o, x))
    BY <1>4, <2>2, <2>3, <2>5, PassFits
  <2>7. Mine(L, n) = Apply(r.pending[1], TextOf(L, w))
    <3>1. RebaseOver(SubSeq(L, v + 1, v + 1), o) = RebaseStep(<<o>>, L[v + 1])
      BY <1>2, <2>2, OverFew DEF Fits
    <3>2. Transformable(a, o)
      BY <2>3, <2>6 DEF CanPass
    <3>3. RebaseStep(<<o>>, L[v + 1]) = <<Transform(a, o).bPrime>>
      BY <1>2, <1>3, <3>2 DEF RebaseStep
    <3>4. r.pending[1] = Transform(a, o).bPrime
      BY <2>3, <2>5 DEF Pass
    <3>5. RebaseOver(SubSeq(L, u.base + 1, n.version), o)[1] = r.pending[1]
      BY <1>1, <1>2, <2>2, <3>1, <3>3, <3>4
    <3>6. QED
      BY <1>1, <1>6, <2>1, <3>5 DEF Mine
  <2>8. QED
    BY <1>1, <1>4, <2>3, <2>4, <2>5, <2>6, <2>7
<1>7. QED
  BY <1>5, <1>6

\* The edit of another client.
LEMMA ForeignServed ==
  ASSUME NEW L, NEW k, Committed(L, k),
         NEW c \in Client, NEW s, NEW q, NEW t, NEW ms, NEW lost, Served(L, c, s, q, t, ms, lost),
         ms # <<>>, Head(ms).type = "text_edit", ~IsAck(c, s, Head(ms)),
         Head(ms).version > s.version, NEW late,
         c \notin late => /\ c \notin lost /\ Head(ms).version = s.version + 1
                          /\ s.unconfirmed # None => s.unconfirmed[1].base = s.version
  PROVE  /\ Served(L, c, Integrated(s, Head(ms)), q, t, Tail(ms), late)
         /\ c \notin late => Integrated(s, Head(ms)).version = Head(ms).version
<1>1. PICK m, r, n, a : /\ m = Head(ms) /\ r = Tail(ms) /\ n = Integrated(s, m)
                        /\ a = m.operation
  OBVIOUS
<1>2. Store(L, s) /\ DOMAIN s = StoreFields /\ s.version \in Nat /\ s.content \in Text
  BY DEF Served, Store
<1>3. Told(L, m) /\ Messages(L, r) /\ Once(c, s, q, t, r)
  BY <1>1, TakenFirst DEF Sendable
<1>4. m.author # c \/ (s.unconfirmed # None => m.id # s.sent)
  BY <1>1, <1>2, RequestId DEF IsAck
<1>5. ~Answers(c, m) /\ NotLost(c, s, q, t, r, lost)
  <2>1. Answers(c, m) => m.author = c /\ s.unconfirmed # None /\ m.id = s.sent
    BY <1>1, TakenFirst DEF Answers
  <2>2. QED
    BY <1>1, <1>4, <2>1, TakenFirst
<1>6. a \in Operation /\ Len(L) \in Nat /\ m.version \in 1..Len(L)
  <2>1. m.version \in 1..Len(L) /\ L[m.version].operation = a
    BY <1>1, <1>3 DEF Told
  <2>2. QED
    BY <2>1, LogTexts DEF Fits
<1>7. InFlight(s) \in Pending /\ s.buffer \in Pending
  BY <1>2 DEF InFlight, Pending, Store
<1>8. PICK ch \in Char : ch = c
  BY ClientsTypeThemselves
<1>9. PICK first, second : /\ first = Pass(a, InFlight(s)).incoming
                           /\ second = Pass(first, s.buffer)
  OBVIOUS
<1> DEFINE Fitting == /\ CanPass(a, InFlight(s)) /\ CanPass(first, s.buffer)
                      /\ Applicable(second.incoming, s.content)
<1>10. n = IF Fitting
           THEN [s EXCEPT !.content = Apply(second.incoming, @),
                          !.buffer = second.pending, !.version = m.version]
           ELSE s
  BY <1>1, <1>9 DEF Integrated, InFlight
<1>11. ASSUME Fitting
       PROVE  /\ DOMAIN n = StoreFields /\ n.content = Apply(second.incoming, s.content)
              /\ n.version = m.version /\ n.buffer = second.pending
              /\ n.unconfirmed = s.unconfirmed /\ n.sent = s.sent
  BY <1>2, <1>10, <1>11 DEF StoreFields
<1>12. n.unconfirmed = s.unconfirmed /\ n.sent = s.sent /\ (n.version = s.version \/ n.version = m.version)
  BY <1>10, <1>11
<1>13. Store(L, n)
  <2>1. CASE ~Fitting
    BY <1>2, <1>10, <2>1
  <2>2. CASE Fitting
    <3>1. first \in Operation
      BY <1>6, <1>7, <1>8, <1>9, <2>2, PassFacts
    <3>2. /\ second.incoming \in Operation
          /\ s.buffer = None => second.pending = None
          /\ s.buffer # None => \E o \in Operation :
               /\ second.pending = <<o>> /\ TargetLen(o) = TargetLen(second.incoming)
      BY <1>7, <1>8, <1>9, <2>2, <3>1, PassFacts
    <3>3. n.content \in Text /\ Len(n.content) = TargetLen(second.incoming)
      BY <1>2, <1>11, <2>2, <3>2, ApplyType
    <3>4. n.buffer # None => /\ n.buffer = <<n.buffer[1]>> /\ n.buffer[1] \in Operation
                             /\ TargetLen(n.buffer[1]) = Len(n.content)
      BY <1>11, <2>2, <3>2, <3>3
    <3>5. n.version \in 0..Len(L) /\ n.sent \in Nat
      BY <1>2, <1>6, <1>11, <2>2 DEF Store
    <3>6. n.unconfirmed # None =>
            LET u == n.unconfirmed[1]
            IN  /\ n.unconfirmed = <<EditRequest(n.sent, u.base, u.operation)>>
                /\ u.base \in 0..n.version /\ u.operation \in Operation
      <4>1. 0..s.version \subseteq 0..m.version
        BY <1>1, <1>2, <1>6
      <4>2. QED
        BY <1>2, <1>11, <2>2, <4>1 DEF Store
    <3>7. QED
      BY <1>11, <2>2, <3>3, <3>4, <3>5, <3>6 DEF Store
  <2>3. QED
    BY <2>1, <2>2
<1>14. Once(c, n, q, t, r)
  BY <1>3, <1>12 DEF Once
<1>15. NotLost(c, n, q, t, r, late)
  BY <1>5, <1>12 DEF NotLost
<1>16. Commits(L, c, n, late)
  <2>1. ASSUME NEW v \in 1..Len(L), L[v].author = c, n.unconfirmed # None, L[v].id = n.sent,
               c \notin late
        PROVE  v > n.version
    <3>1. v > s.version
      BY <1>12, <2>1 DEF Served, Commits
    <3>2. v # m.version
      BY <1>3, <1>4, <1>12, <2>1 DEF Told
    <3>3. m.version = s.version + 1
      BY <1>1, <2>1
    <3>4. QED
      BY <1>2, <1>6, <1>12, <3>1, <3>2, <3>3
  <2>2. QED
    BY <1>12, <2>1 DEF Served, Commits
<1>17. ASSUME c \notin late PROVE OnTrack(L, n) /\ n.version = m.version
  <2>1. PICK x : x = Mine(L, s)
    OBVIOUS
  <2>2. /\ OnTrack(L, s) /\ m.version = s.version + 1
        /\ s.unconfirmed # None => s.unconfirmed[1].base = s.version
    BY <1>1, <1>17 DEF Served
  <2>3. PICK g : g = [s EXCEPT !.version = m.version]
    OBVIOUS
  <2>4. g.version = m.version /\ g.unconfirmed = s.unconfirmed
    BY <1>2, <2>3 DEF StoreFields
  <2>5. CanPass(a, InFlight(s)) /\ Fits(first, x) /\ Mine(L, g) = Apply(first, x)
    BY <1>1, <1>2, <1>3, <1>9, <2>1, <2>2, <2>4, FirstPass
  <2>6. /\ s.buffer # None => Fits(s.buffer[1], x)
        /\ s.content = IF s.buffer = None THEN x ELSE Apply(s.buffer[1], x)
    BY <2>1, <2>2 DEF OnTrack
  <2>7. /\ CanPass(first, s.buffer) /\ Fits(second.incoming, s.content)
        /\ s.buffer # None =>
             /\ Fits(second.pending[1], Apply(first, x))
             /\ Apply(second.pending[1], Apply(first, x)) = Apply(second.incoming, s.content)
    BY <1>9, <2>5, <2>6, PassFits
  <2>8. Fitting
    BY <2>5, <2>7 DEF Fits
  <2>9. Mine(L, n) = Apply(first, x)
    BY <1>11, <2>4, <2>5, <2>8 DEF Mine
  <2>10. s.unconfirmed # None =>
           Fits(s.unconfirmed[1].operation, TextOf(L, s.unconfirmed[1].base))
    BY <2>2 DEF OnTrack
  <2>11. CASE s.buffer = None
    <3>1. second.incoming = first /\ second.pending = None
      BY <1>9, <2>11 DEF Pass
    <3>2. QED
      BY <1>11, <2>6, <2>8, <2>9, <2>10, <2>11, <3>1 DEF OnTrack
  <2>12. CASE s.buffer # None
    <3>1. second.pending # None
      BY <1>9, <2>12 DEF Pass, None
    <3>2. QED
      BY <1>11, <2>7, <2>8, <2>9, <2>10, <2>12, <3>1 DEF OnTrack
  <2>13. QED
    BY <1>11, <2>8, <2>11, <2>12
<1>18. Task(L, c, t)
  BY DEF Served
<1>19. QED
  BY <1>1, <1>3, <1>13, <1>14, <1>15, <1>16, <1>17, <1>18 DEF Served

----------------------------------------------------------------------------
(* What the server does. *)

\* The edits a cell remembers since a version are those of the log.
LEMMA UnseenIsLog ==
  ASSUME NEW L, NEW k, Committed(L, k), NEW b \in 0..Len(L), ~TooOld(k, b),
         NEW o \in Operation
  PROVE  Rebased(k, b, o) = RebaseOver(SubSeq(L, b + 1, Len(L)), o)
<1>1. PICK h, n, m, w : /\ h = k.history /\ n = Len(k.history) /\ m = b - k.base + 1
                        /\ w = k.base
  OBVIOUS
<1>2. /\ w \in Nat /\ n \in Nat /\ IsSequence(h) /\ n = Len(h) /\ Len(L) = w + n
      /\ \A i \in 1..n : IsEdit(h[i])
      /\ k.version = w + n
  BY <1>1 DEF Committed, WellKept, IsSequence
<1>3. b \in Nat /\ w <= b /\ b <= w + n /\ b \in 0..Len(L) /\ Len(L) \in b..Len(L)
  BY <1>1, <1>2 DEF TooOld
<1>4. m \in 1..n + 1 /\ n - m + 1 = Len(L) - b
  <2>1. m = b - w + 1
    BY <1>1
  <2>2. w \in Nat /\ n \in Nat /\ Len(L) = w + n
    BY <1>2
  <2>3. b \in Nat /\ w <= b /\ b <= w + n
    BY <1>3
  <2>4. QED
    BY <2>1, <2>2, <2>3
<1>5. PICK p, q : p = SubSeq(h, m, n) /\ q = SubSeq(L, b + 1, Len(L))
  OBVIOUS
<1>6. IsSequence(p) /\ Len(p) = n - m + 1 /\ \A i \in 1..n - m + 1 : p[i] = h[m + i - 1]
  <2>1. /\ IsSequence(SubSeq(h, m, Len(h))) /\ Len(SubSeq(h, m, Len(h))) = Len(h) - m + 1
        /\ \A i \in 1..Len(h) - m + 1 : SubSeq(h, m, Len(h))[i] = h[m + i - 1]
    BY <1>2, <1>4, SubSeqOfSequence
  <2>2. QED
    BY <1>2, <1>5, <2>1
<1>7. IsSequence(q) /\ Len(q) = Len(L) - b /\ \A i \in 1..Len(L) - b : q[i] = L[b + i]
  BY <1>3, <1>5, LogTrail
<1>8. ASSUME NEW i \in 1..Len(p) PROVE IsEdit(p[i]) /\ p[i].operation = q[i].operation
  <2>1. i \in 1..n - m + 1 /\ i \in 1..Len(L) - b
    BY <1>4, <1>6
  <2>2. p[i] = h[m + i - 1] /\ m + i - 1 \in 1..n /\ m + i - 1 = b + i - w
    <3>1. p[i] = h[m + i - 1]
      BY <1>6, <2>1
    <3>2. m = b - w + 1
      BY <1>1
    <3>3. m + i - 1 = b + i - w
      BY <1>2, <1>3, <2>1, <3>2
    <3>4. m + i - 1 \in 1..n
      BY <1>2, <1>3, <1>4, <2>1, <3>2
    <3>5. QED
      BY <3>1, <3>3, <3>4
  <2>3. b + i \in w + 1..w + n /\ b + i \in Int
    BY <1>2, <1>3, <2>1
  <2>4. EditAt(k, b + i).operation = L[b + i].operation
    <3>1. PICK v : v = b + i
      OBVIOUS
    <3>2. v \in k.base + 1..k.version
      BY <1>1, <1>2, <2>3, <3>1
    <3>3. EditAt(k, v).operation = L[v].operation
      BY <3>2 DEF Committed
    <3>4. QED
      BY <3>1, <3>3
  <2>5. EditAt(k, b + i) = h[b + i - w]
    <3>1. PICK v : v = b + i
      OBVIOUS
    <3>2. EditAt(k, v) = k.history[v - k.base]
      BY DEF EditAt
    <3>3. v - k.base = b + i - w
      <4>1. k.base = w
        BY <1>1
      <4>2. v - w = b + i - w
        BY <1>2, <1>3, <2>1, <2>3, <3>1
      <4>3. QED
        BY <4>1, <4>2
    <3>4. EditAt(k, v) = h[b + i - w]
      BY <1>1, <3>2, <3>3
    <3>5. QED
      BY <3>1, <3>4
  <2>6. q[i] = L[b + i]
    BY <1>7, <2>1
  <2>7. QED
    BY <1>2, <2>2, <2>4, <2>5, <2>6
<1>9. RebaseOver(p, o) = RebaseOver(q, o)
  BY <1>4, <1>6, <1>7, <1>8, SameEdits
<1>10. QED
  BY <1>1, <1>5, <1>9 DEF Rebased, Unseen

\* What an edit of a text there was becomes is accepted, as long as the edits since
\* are remembered.
LEMMA FittingAccepted ==
  ASSUME NEW L, NEW k, Committed(L, k), NEW b \in 0..Len(L), ~TooOld(k, b),
         NEW o, Fits(o, TextOf(L, b))
  PROVE  Accepts(k, b, o)
<1>1. o \in Operation /\ Len(L) \in b..Len(L) /\ k.content = TextOf(L, Len(L))
  BY LogTexts DEF Fits, Committed
<1>2. PICK r \in Operation : /\ RebaseOver(SubSeq(L, b + 1, Len(L)), o) = <<r>>
                             /\ Fits(r, TextOf(L, Len(L)))
  BY <1>1, OverCommitted
<1>3. Rebased(k, b, o) = <<r>> /\ Applicable(r, k.content)
  BY <1>1, <1>2, UnseenIsLog DEF Fits
<1>4. QED
  BY <1>3 DEF Accepts

\* An accepted edit, committed.
LEMMA EditCommitted ==
  ASSUME NEW L, NEW k, Committed(L, k), NEW b \in 0..Len(L), NEW o \in Operation,
         Accepts(k, b, o), NEW c, NEW e, e.operation = Rebased(k, b, o)[1],
         e.text = Edited(k, b, o, c).content
  PROVE  /\ GrownLog(L, Append(L, e)) /\ Committed(Append(L, e), Edited(k, b, o, c))
         /\ Len(Append(L, e)) = Len(L) + 1 /\ Append(L, e)[Len(L) + 1] = e
         /\ Edited(k, b, o, c).version = Len(L) + 1
         /\ RebaseOver(SubSeq(L, b + 1, Len(L)), o) = <<e.operation>>
<1>1. PICK M, d, n, r : /\ M = Append(L, e) /\ d = Edited(k, b, o, c) /\ n = Len(L)
                        /\ r = e.operation
  OBVIOUS
<1>2. /\ IsSequence(L) /\ n \in Nat /\ k.version = n /\ WellKept(k)
      /\ k.content = TextOf(L, n) /\ k.content \in Text /\ k.base \in Nat
  BY <1>1, LogTexts DEF Committed, WellKept
<1>3. /\ IsSequence(M) /\ Len(M) = n + 1 /\ M[n + 1] = e
      /\ \A v \in 1..n : M[v] = L[v]
  BY <1>1, <1>2, AppendIsSequence
<1>4. GrownLog(L, M)
  BY <1>1, <1>2, <1>3 DEF GrownLog
<1>5. ~TooOld(k, b) /\ Rebased(k, b, o) # <<>> /\ Applicable(Rebased(k, b, o)[1], k.content)
  BY DEF Accepts
<1>6. Rebased(k, b, o) = <<r>> /\ r \in Operation
      /\ RebaseOver(SubSeq(L, b + 1, n), o) = <<r>>
  <2>1. Rebased(k, b, o) = RebaseOver(SubSeq(L, b + 1, Len(L)), o)
    BY <1>5, UnseenIsLog
  <2>2. PICK p : p = SubSeq(L, b + 1, Len(L))
    OBVIOUS
  <2>3. IsSequence(p) /\ \A i \in 1..Len(p) : IsEdit(p[i])
    <3>1. Len(L) \in b..Len(L) /\ b \in 0..Len(L)
      BY <1>1, <1>2
    <3>2. QED
      BY <2>2, <3>1, LogTrail
  <2>4. PICK h : Transformed(p, o, h)
    BY <2>3, RebaseRun
  <2>5. RebaseOver(p, o) \in Perhaps
    BY <2>3, <2>4 DEF Transformed, IsSequence
  <2>6. PICK x \in Operation : Rebased(k, b, o) = <<x>>
    BY <1>5, <2>1, <2>2, <2>5 DEF Perhaps
  <2>7. r = x
    BY <1>1, <2>6
  <2>8. QED
    BY <1>1, <2>1, <2>6, <2>7
<1>7. Fits(r, k.content)
  BY <1>2, <1>5, <1>6, ApplyType DEF Fits
<1>8. /\ WellKept(d) /\ d.version = n + 1 /\ d.base \in k.base..k.base + 1
      /\ d.content = Apply(r, k.content)
      /\ \A v \in d.base + 1..k.version : EditAt(d, v) = EditAt(k, v)
      /\ d.version > d.base => EditAt(d, d.version).operation = r
  <2>1. Rebased(k, b, o)[1] = r
    BY <1>6
  <2>2. QED
    BY <1>1, <1>2, <1>7, <2>1, EditedKeeps
<1>9. \A v \in 0..n : TextOf(M, v) = TextOf(L, v)
  BY <1>1, <1>4, GrownTells
<1>10. e.text = Apply(r, k.content) /\ TextOf(M, n + 1) = e.text
  BY <1>1, <1>2, <1>3, <1>8 DEF TextOf
<1>11. ASSUME NEW v \in 1..Len(M)
       PROVE  /\ Fits(M[v].operation, TextOf(M, v - 1))
              /\ M[v].text = Apply(M[v].operation, TextOf(M, v - 1))
  <2>1. CASE v \in 1..n
    <3>1. v - 1 \in 0..n
      BY <1>2, <2>1
    <3>2. /\ Fits(L[v].operation, TextOf(L, v - 1))
          /\ L[v].text = Apply(L[v].operation, TextOf(L, v - 1))
      BY <1>1, <2>1 DEF Committed
    <3>3. QED
      BY <1>3, <1>9, <2>1, <3>1, <3>2
  <2>2. CASE v = n + 1
    <3>1. v - 1 = n /\ n \in 0..n
      BY <1>2, <2>2
    <3>2. TextOf(M, v - 1) = k.content
      BY <1>2, <1>9, <3>1
    <3>3. QED
      BY <1>1, <1>3, <1>7, <1>10, <2>2, <3>2
  <2>3. QED
    BY <1>2, <1>3, <2>1, <2>2
<1>12. ASSUME NEW v \in d.base + 1..d.version PROVE EditAt(d, v).operation = M[v].operation
  <2>1. d.base \in Nat /\ v \in Nat
    BY <1>2, <1>8
  <2>2. CASE v = n + 1
    BY <1>1, <1>3, <1>8, <2>1, <2>2
  <2>3. CASE v # n + 1
    <3>1. v \in d.base + 1..k.version /\ v \in k.base + 1..k.version /\ v \in 1..n
      BY <1>2, <1>8, <2>1, <2>3
    <3>2. EditAt(k, v).operation = L[v].operation
      BY <3>1 DEF Committed
    <3>3. QED
      BY <1>3, <1>8, <3>1, <3>2
  <2>4. QED
    BY <2>2, <2>3
<1>13. d.content = TextOf(M, d.version)
  BY <1>8, <1>10
<1>14. Committed(M, d)
  BY <1>3, <1>8, <1>11, <1>12, <1>13 DEF Committed
<1>15. QED
  BY <1>1, <1>3, <1>4, <1>6, <1>8, <1>14

\* What was committed for a request stays so when more is committed.
LEMMA GrownCommits ==
  ASSUME NEW L, NEW M, GrownLog(L, M), Len(M) = Len(L) + 1,
         NEW c, NEW s, Store(L, s), NEW lost, Commits(L, c, s, lost),
         LET e == M[Len(L) + 1]
         IN  e.author = c =>
               /\ s.unconfirmed # None /\ e.id = s.sent
               /\ RebaseOver(SubSeq(L, s.unconfirmed[1].base + 1, Len(L)),
                             s.unconfirmed[1].operation) = <<e.operation>>
  PROVE  Commits(M, c, s, lost)
<1>1. PICK n : n = Len(L)
  OBVIOUS
<1>2. /\ n \in Nat /\ Len(M) = n + 1 /\ \A v \in 1..n : M[v] = L[v]
      /\ s.version \in 0..n /\ s.sent \in Nat
      /\ s.unconfirmed # None => s.unconfirmed[1].base \in 0..s.version
  BY <1>1 DEF GrownLog, IsSequence, Store
<1>3. PICK u, b : u = s.unconfirmed[1] /\ b = s.unconfirmed[1].base
  OBVIOUS
<1>4. ASSUME NEW v \in 1..Len(M), M[v].author = c
      PROVE  /\ M[v].id \in 0..s.sent
             /\ s.unconfirmed # None /\ M[v].id = s.sent =>
                  /\ v > b /\ (c \notin lost => v > s.version)
                  /\ RebaseOver(SubSeq(M, b + 1, v - 1), u.operation) = <<M[v].operation>>
  <2>1. CASE v \in 1..n
    <3>1. /\ L[v].id \in 0..s.sent
          /\ s.unconfirmed # None /\ L[v].id = s.sent =>
               /\ v > b /\ (c \notin lost => v > s.version)
               /\ RebaseOver(SubSeq(L, b + 1, v - 1), u.operation) = <<L[v].operation>>
      BY <1>1, <1>2, <1>3, <1>4, <2>1 DEF Commits
    <3>2. ASSUME s.unconfirmed # None, v > b
          PROVE  SubSeq(M, b + 1, v - 1) = SubSeq(L, b + 1, v - 1)
      <4>1. b \in 0..n /\ v - 1 \in b..n
        BY <1>2, <1>3, <2>1, <3>2
      <4>2. QED
        BY <1>1, <4>1, GrownPart
    <3>3. QED
      BY <1>2, <2>1, <3>1, <3>2
  <2>2. CASE v = n + 1
    <3>1. /\ s.unconfirmed # None /\ M[v].id = s.sent
          /\ RebaseOver(SubSeq(L, b + 1, n), u.operation) = <<M[v].operation>>
      BY <1>1, <1>3, <1>4, <2>2
    <3>2. b \in 0..n /\ n \in b..n /\ v > b /\ v > s.version /\ v - 1 = n
      BY <1>2, <1>3, <2>2, <3>1
    <3>3. SubSeq(M, b + 1, v - 1) = SubSeq(L, b + 1, n)
      BY <1>1, <3>2, GrownPart
    <3>4. s.sent \in 0..s.sent
      BY <1>2
    <3>5. QED
      BY <3>1, <3>2, <3>3, <3>4
  <2>3. QED
    BY <1>2, <2>1, <2>2
<1>5. QED
  BY <1>3, <1>4 DEF Commits

\* To a client that did not make it, an edit that is committed makes no difference yet.
LEMMA OtherServed ==
  ASSUME NEW L, NEW M, GrownLog(L, M), Len(M) = Len(L) + 1,
         NEW d, NEW s, NEW q, NEW t, NEW ms, NEW lost, Served(L, d, s, q, t, ms, lost),
         M[Len(L) + 1].author # d
  PROVE  Served(M, d, s, q, t, ms, lost)
<1>1. Store(L, s) /\ Commits(L, d, s, lost)
  BY DEF Served
<1>2. Commits(M, d, s, lost)
  BY <1>1, GrownCommits
<1>3. Task(M, d, t) /\ Messages(M, ms) /\ Store(M, s)
  BY GrownTells DEF Served
<1>4. d \notin lost => OnTrack(M, s)
  BY <1>1, GrownOnTrack DEF Served
<1>5. QED
  BY <1>2, <1>3, <1>4 DEF Served

\* A request that is on its way is the one in flight.
LEMMA RequestIs ==
  ASSUME NEW L, NEW c, NEW s, NEW q, NEW t, NEW ms, NEW lost, Served(L, c, s, q, t, ms, lost),
         q # None
  PROVE  LET u == s.unconfirmed[1]
         IN  /\ s.unconfirmed # None /\ q = s.unconfirmed /\ Tail(q) = None /\ Head(q) = u
             /\ u.id = s.sent /\ u.base \in 0..s.version /\ u.operation \in Operation
             /\ s.version \in 0..Len(L) /\ Len(q) = 1
             /\ ~Handled(c, t) /\ \A n \in 1..Len(ms) : ~Answers(c, ms[n])
<1>1. q = s.unconfirmed /\ ~Handled(c, t) /\ \A n \in 1..Len(ms) : ~Answers(c, ms[n])
  BY DEF Served, Once
<1>2. Store(L, s) /\ s.unconfirmed # None
  BY <1>1 DEF Served
<1>3. PICK u : u = s.unconfirmed[1]
  OBVIOUS
<1>4. /\ u.base \in 0..s.version /\ u.operation \in Operation /\ s.version \in 0..Len(L)
      /\ \E x : q = <<x>>
  BY <1>1, <1>2, <1>3 DEF Store
<1>5. PICK x : q = <<x>>
  BY <1>4
<1>6. Tail(q) = None /\ Head(q) = u /\ Len(q) = 1
  BY <1>1, <1>3, <1>5 DEF None
<1>7. u.id = s.sent
  BY <1>2, <1>3, RequestId
<1>8. QED
  BY <1>1, <1>2, <1>3, <1>4, <1>6, <1>7

\* A request that is committed is on its way to everybody, its author among them.
LEMMA CommitServed ==
  ASSUME NEW L, NEW M, GrownLog(L, M), Len(M) = Len(L) + 1,
         NEW c \in Client, NEW s, NEW q, NEW t, NEW ms, NEW lost,
         Served(L, c, s, q, t, ms, lost), q # None,
         NEW e, M[Len(L) + 1] = e, e.author = c, e.id = Head(q).id,
         RebaseOver(SubSeq(L, Head(q).base + 1, Len(L)), Head(q).operation) = <<e.operation>>
  PROVE  Served(M, c, s, None,
                Broadcasting(TextEdit(c, e.id, Len(L) + 1, e.operation), Client), ms, lost)
<1>1. PICK u, m, x : /\ u = s.unconfirmed[1]
                     /\ m = TextEdit(c, e.id, Len(L) + 1, e.operation)
                     /\ x = Broadcasting(m, Client)
  OBVIOUS
<1>2. /\ s.unconfirmed # None /\ Head(q) = u /\ u.id = s.sent
      /\ \A n \in 1..Len(ms) : ~Answers(c, ms[n])
  BY <1>1, RequestIs
<1>3. Store(L, s) /\ Commits(L, c, s, lost) /\ Len(L) \in Nat
  BY DEF Served, GrownLog, IsSequence
<1>4. Commits(M, c, s, lost)
  BY <1>1, <1>2, <1>3, GrownCommits
<1>5. /\ m.type = "text_edit" /\ m.author = c /\ m.id = s.sent /\ m.version = Len(L) + 1
      /\ m.operation = e.operation
      /\ x.at = "broadcast" /\ x.message = m /\ x.rest = Client
  BY <1>1, <1>2 DEF TextEdit, Broadcasting
<1>6. Told(M, m)
  BY <1>2, <1>3, <1>5 DEF Told
<1>7. Task(M, c, x)
  BY <1>1, <1>5, <1>6 DEF Task
<1>8. Handled(c, x)
  BY <1>5 DEF Handled
<1>9. Once(c, s, None, x, ms) /\ NotLost(c, s, None, x, ms, lost)
  BY <1>2, <1>5, <1>8 DEF Once, NotLost
<1>10. Messages(M, ms) /\ Store(M, s)
  BY GrownTells DEF Served
<1>11. c \notin lost => OnTrack(M, s)
  BY <1>3, GrownOnTrack DEF Served
<1>12. QED
  BY <1>1, <1>4, <1>7, <1>9, <1>10, <1>11 DEF Served

\* A request that is too old is handled in two steps.
LEMMA ReadServed ==
  ASSUME NEW L, NEW c, NEW s, NEW q, NEW t, NEW ms, NEW lost,
         Served(L, c, s, q, t, ms, lost), q # None, NEW text \in Text
  PROVE  Served(L, c, s, None, ReadingVersion(text), ms, lost)
<1>1. PICK x : x = ReadingVersion(text)
  OBVIOUS
<1>2. s.unconfirmed # None /\ \A n \in 1..Len(ms) : ~Answers(c, ms[n])
  BY RequestIs
<1>3. x.at = "resync" /\ x.content = text
  BY <1>1 DEF ReadingVersion
<1>4. Task(L, c, x) /\ Handled(c, x)
  BY <1>3 DEF Task, Handled
<1>5. Once(c, s, None, x, ms) /\ NotLost(c, s, None, x, ms, lost)
  BY <1>2, <1>3, <1>4 DEF Once, NotLost
<1>6. QED
  BY <1>1, <1>4, <1>5 DEF Served

\* A channel with one message more.
LEMMA OneMessageMore ==
  ASSUME NEW L, NEW ms, Messages(L, ms), NEW m, Sendable(L, m)
  PROVE  /\ Messages(L, Append(ms, m)) /\ Len(ms) \in Nat
         /\ Len(Append(ms, m)) = Len(ms) + 1 /\ Append(ms, m)[Len(ms) + 1] = m
         /\ \A n \in 1..Len(ms) : Append(ms, m)[n] = ms[n]
         /\ \A n \in 1..Len(Append(ms, m)) : n \in 1..Len(ms) \/ n = Len(ms) + 1
<1>1. PICK r, k : r = Append(ms, m) /\ k = Len(ms)
  OBVIOUS
<1>2. /\ IsSequence(r) /\ Len(r) = k + 1 /\ r[k + 1] = m /\ k \in Nat
      /\ \A n \in 1..k : r[n] = ms[n]
  BY <1>1, AppendIsSequence DEF Messages, IsSequence
<1>3. \A n \in 1..k + 1 : n \in 1..k \/ n = k + 1
  BY <1>2
<1>4. \A n \in 1..k : Sendable(L, ms[n])
  BY <1>1 DEF Messages
<1>5. Messages(L, r)
  BY <1>2, <1>3, <1>4 DEF Messages
<1>6. QED
  BY <1>1, <1>2, <1>3, <1>5

\* A request is answered.
LEMMA AnswerServed ==
  ASSUME NEW L, NEW c, NEW s, NEW q, NEW t, NEW ms, NEW lost,
         Served(L, c, s, q, t, ms, lost), q # None \/ Handled(c, t),
         NEW x, Task(L, c, x), ~Handled(c, x),
         NEW m, Sendable(L, m), Answers(c, m), m.type = "text_edit" => m.id = s.sent
  PROVE  Served(L, c, s, None, x, Append(ms, m), lost)
<1>1. PICK r, k : r = Append(ms, m) /\ k = Len(ms)
  OBVIOUS
<1>2. s.unconfirmed # None /\ \A n \in 1..k : ~Answers(c, ms[n])
  <2>1. CASE q # None
    BY <1>1, <2>1, RequestIs
  <2>2. CASE Handled(c, t)
    BY <1>1, <2>2 DEF Served, Once
  <2>3. QED
    BY <2>1, <2>2
<1>3. /\ Messages(L, r) /\ k \in Nat /\ Len(r) = k + 1 /\ r[k + 1] = m
      /\ \A n \in 1..k : r[n] = ms[n]
      /\ \A n \in 1..Len(r) : n \in 1..k \/ n = k + 1
  BY <1>1, OneMessageMore DEF Served
<1>4. \A n \in 1..Len(r) : Answers(c, r[n]) => n = k + 1 /\ r[n] = m
  BY <1>2, <1>3
<1>5. Once(c, s, None, x, r)
  BY <1>2, <1>4 DEF Once, Handled
<1>6. k + 1 \in 1..Len(r)
  BY <1>3
<1>7. NotLost(c, s, None, x, r, lost)
  BY <1>3, <1>6 DEF NotLost
<1>8. QED
  BY <1>1, <1>3, <1>5, <1>7 DEF Served

\* The edit of another is sent.
LEMMA ForwardServed ==
  ASSUME NEW L, NEW d, NEW s, NEW q, NEW t, NEW ms, NEW lost,
         Served(L, d, s, q, t, ms, lost), NEW m, Sendable(L, m), ~Answers(d, m)
  PROVE  Served(L, d, s, q, t, Append(ms, m), lost)
<1>1. PICK r, k : r = Append(ms, m) /\ k = Len(ms)
  OBVIOUS
<1>2. /\ Messages(L, r) /\ k \in Nat /\ Len(r) = k + 1 /\ r[k + 1] = m
      /\ \A n \in 1..k : r[n] = ms[n]
      /\ \A n \in 1..Len(r) : n \in 1..k \/ n = k + 1
  BY <1>1, OneMessageMore DEF Served
<1>3. \A n \in 1..Len(r) : Answers(d, r[n]) => n \in 1..k /\ r[n] = ms[n]
  BY <1>2
<1>4. Once(d, s, q, t, ms) /\ NotLost(d, s, q, t, ms, lost)
  BY DEF Served
<1>5. Once(d, s, q, t, r)
  BY <1>1, <1>3, <1>4 DEF Once
<1>6. \A n \in 1..k : n \in 1..Len(r) /\ r[n] = ms[n]
  BY <1>2
<1>7. NotLost(d, s, q, t, r, lost)
  BY <1>1, <1>4, <1>6 DEF NotLost
<1>8. QED
  BY <1>1, <1>2, <1>5, <1>7 DEF Served

\* A task goes on sending to others.
LEMMA TaskServed ==
  ASSUME NEW L, NEW c, NEW s, NEW q, NEW t, NEW ms, NEW lost,
         Served(L, c, s, q, t, ms, lost), NEW x, Task(L, c, x), Handled(c, x) <=> Handled(c, t),
         x.at = "broadcast" /\ c \in x.rest =>
           t.at = "broadcast" /\ c \in t.rest /\ x.message = t.message
  PROVE  Served(L, c, s, q, x, ms, lost)
<1>1. Once(c, s, q, t, ms) /\ NotLost(c, s, q, t, ms, lost)
  BY DEF Served
<1>2. Once(c, s, q, x, ms) /\ NotLost(c, s, q, x, ms, lost)
  BY <1>1 DEF Once, NotLost
<1>3. QED
  BY <1>2 DEF Served

----------------------------------------------------------------------------
(* Edits on their way. *)

\* The first message is taken: a version the client has not seen is still on its way.
LEMMA FirstDelivered ==
  ASSUME NEW L, Len(L) \in Nat, NEW c, NEW s, s.version \in Nat, NEW T, NEW ms, Messages(L, ms),
         ms # <<>>, NEW lost, Delivery(L, c, s, T, ms, lost), NEW n, n.version \in Nat, NEW late,
         c \notin late =>
           \/ /\ Head(ms).type = "cell_resync"
              /\ n.version = Head(ms).version
           \/ /\ c \notin lost /\ s.version <= n.version
              /\ Head(ms).type = "text_edit" => Head(ms).version <= n.version
  PROVE  Delivery(L, c, n, T, Tail(ms), late)
<1>0. /\ IsSequence(ms)
      /\ \A i \in 1..Len(ms) : ms[i].type \in {"text_edit", "cell_resync"} =>
           ms[i].version \in Nat
  BY DEF Messages, Sendable, Told
<1>1. /\ Len(ms) \in Nat /\ Len(ms) > 0 /\ Head(ms) = ms[1]
      /\ IsSequence(Tail(ms)) /\ Len(Tail(ms)) = Len(ms) - 1
      /\ \A i \in 1..Len(ms) - 1 : Tail(ms)[i] = ms[i + 1]
  BY <1>0, HeadOfSequence, TailIsSequence
<1>2. PICK x : x = Tail(ms)
  OBVIOUS
<1>3. ASSUME NEW v \in Nat, NEW a \in 1..Len(ms), OnItsWay(c, T, ms, v, a)
      PROVE  OnItsWay(c, T, x, v, a - 1)
  <2>1. CASE \E k \in a + 1..Len(ms) : ms[k].type = "text_edit" /\ ms[k].version = v
    <3>1. PICK k \in a + 1..Len(ms) : ms[k].type = "text_edit" /\ ms[k].version = v
      BY <2>1
    <3>2. k - 1 \in (a - 1) + 1..Len(x) /\ k - 1 \in 1..Len(ms) - 1 /\ (k - 1) + 1 = k
      BY <1>1, <1>2
    <3>3. x[k - 1] = ms[k]
      <4>1. x[k - 1] = ms[(k - 1) + 1]
        BY <1>1, <1>2, <3>2
      <4>2. QED
        BY <3>2, <4>1
    <3>4. QED
      BY <3>1, <3>2, <3>3 DEF OnItsWay
  <2>2. QED
    BY <1>3, <2>1 DEF OnItsWay
<1>4. ASSUME c \notin late, NEW v \in n.version + 1..Len(L)
      PROVE  OnItsWay(c, T, x, v, 0)
  <2>1. CASE Head(ms).type = "cell_resync" /\ n.version = Head(ms).version
    <3>1. v \in ms[1].version + 1..Len(L) /\ 1 \in 1..Len(ms) /\ v \in Nat
      BY <1>1, <1>4, <2>1
    <3>2. OnItsWay(c, T, ms, v, 1)
      BY <1>1, <2>1, <3>1 DEF Delivery
    <3>3. OnItsWay(c, T, x, v, 1 - 1)
      BY <1>3, <3>1, <3>2
    <3>4. QED
      BY <3>3
  <2>2. CASE /\ c \notin lost /\ s.version <= n.version
             /\ Head(ms).type = "text_edit" => Head(ms).version <= n.version
    <3>1. /\ v \in s.version + 1..Len(L) /\ v \in Nat /\ v > n.version
          /\ Head(ms).type = "text_edit" => Head(ms).version \in Nat
      BY <1>0, <1>1, <2>2, <1>4
    <3>2. OnItsWay(c, T, ms, v, 0)
      BY <2>2, <3>1 DEF Delivery
    <3>3. CASE \E k \in 0 + 1..Len(ms) : ms[k].type = "text_edit" /\ ms[k].version = v
      <4>1. PICK k \in 0 + 1..Len(ms) : ms[k].type = "text_edit" /\ ms[k].version = v
        BY <3>3
      <4>2. k # 1
        BY <1>1, <2>2, <3>1, <4>1
      <4>3. 1 \in 1..Len(ms) /\ k \in 1 + 1..Len(ms)
        BY <1>1, <4>1, <4>2
      <4>4. OnItsWay(c, T, ms, v, 1)
        BY <4>1, <4>3 DEF OnItsWay
      <4>5. OnItsWay(c, T, x, v, 1 - 1)
        BY <1>3, <3>1, <4>3, <4>4
      <4>6. QED
        BY <4>5
    <3>4. QED
      BY <3>2, <3>3 DEF OnItsWay
  <2>3. QED
    BY <1>4, <2>1, <2>2
<1>5. ASSUME NEW i \in 1..Len(x), x[i].type = "cell_resync", NEW v \in x[i].version + 1..Len(L),
             v \in Nat
      PROVE  OnItsWay(c, T, x, v, i)
  <2>1. i \in 1..Len(ms) - 1 /\ i + 1 \in 1..Len(ms) /\ i \in Int
    BY <1>1, <1>2
  <2>2. x[i] = ms[i + 1]
    BY <1>1, <1>2, <2>1
  <2>3. PICK j : j = i + 1
    OBVIOUS
  <2>4. OnItsWay(c, T, ms, v, j)
    BY <1>5, <2>1, <2>2, <2>3 DEF Delivery
  <2>5. OnItsWay(c, T, x, v, j - 1)
    BY <1>3, <1>5, <2>1, <2>3, <2>4
  <2>6. j - 1 = i
    BY <2>1, <2>3
  <2>7. QED
    BY <2>5, <2>6
<1>6. ASSUME NEW i \in 1..Len(x), x[i].type = "cell_resync", NEW v \in x[i].version + 1..Len(L)
      PROVE  OnItsWay(c, T, x, v, i)
  <2>1. i \in 1..Len(ms) - 1 /\ i + 1 \in 1..Len(ms) /\ x[i] = ms[i + 1]
    BY <1>1, <1>2
  <2>2. x[i].version \in Nat
    BY <1>0, <1>6, <2>1
  <2>3. v \in Nat
    BY <1>6, <2>2
  <2>4. QED
    BY <1>5, <1>6, <2>3
<1>7. QED
  BY <1>2, <1>4, <1>6 DEF Delivery

\* A task still has to send v to c.
HasToSend(c, T, v) == \E d \in Client : T[d].at = "broadcast" /\ c \in T[d].rest /\ T[d].message.version = v

\* Of the edits that tasks had to send to c none is lost: it is still to be sent, or
\* at the end of c's channel.
PassedOn(c, T, U, ms, qs) ==
  \A v \in Nat : HasToSend(c, T, v) =>
    \/ HasToSend(c, U, v)
    \/ \E k \in Len(ms) + 1..Len(qs) : qs[k].type = "text_edit" /\ qs[k].version = v

Lengthened(L, ms, qs) ==
  /\ Messages(L, ms) /\ Messages(L, qs) /\ Len(ms) \in Nat /\ Len(qs) \in Nat /\ Len(ms) <= Len(qs)
  /\ \A k \in 1..Len(ms) : qs[k] = ms[k]
  /\ \A k \in Len(ms) + 1..Len(qs) : qs[k].type = "cell_resync" => qs[k].version = Len(L)

\* Whatever tasks and channels do, an edit not yet seen stays on its way, and what is
\* committed sets out.
LEMMA DeliveryGoes ==
  ASSUME NEW L, NEW M, Len(L) \in Nat, Len(M) \in Nat,
         NEW c, NEW s, NEW n, n.version = s.version, s.version \in Nat,
         NEW T, NEW U, NEW ms, NEW qs, Lengthened(M, ms, qs), NEW lost,
         \A k \in 1..Len(ms) : ms[k].type = "cell_resync" => ms[k].version \in Nat,
         Delivery(L, c, s, T, ms, lost), PassedOn(c, T, U, ms, qs),
         \A v \in Len(L) + 1..Len(M) : HasToSend(c, U, v)
  PROVE  Delivery(M, c, n, U, qs, lost)
<1>1. ASSUME NEW v \in Nat, NEW a \in 0..Len(ms), v <= Len(M), v <= Len(L) => OnItsWay(c, T, ms, v, a)
      PROVE  OnItsWay(c, U, qs, v, a)
  <2>1. CASE v > Len(L)
    <3>1. HasToSend(c, U, v)
      BY <1>1, <2>1
    <3>2. QED
      BY <3>1 DEF HasToSend, OnItsWay
  <2>2. CASE v <= Len(L)
    <3>1. CASE \E k \in a + 1..Len(ms) : ms[k].type = "text_edit" /\ ms[k].version = v
      <4>1. PICK k \in a + 1..Len(ms) : ms[k].type = "text_edit" /\ ms[k].version = v
        BY <3>1
      <4>2. k \in 1..Len(ms) /\ k \in a + 1..Len(qs)
        BY <1>1, <4>1 DEF Lengthened
      <4>3. qs[k] = ms[k]
        BY <4>2 DEF Lengthened
      <4>4. QED
        BY <4>1, <4>2, <4>3 DEF OnItsWay
    <3>2. CASE HasToSend(c, T, v)
      <4>1. CASE HasToSend(c, U, v)
        BY <4>1 DEF HasToSend, OnItsWay
      <4>2. CASE \E k \in Len(ms) + 1..Len(qs) : qs[k].type = "text_edit" /\ qs[k].version = v
        <5>1. PICK k \in Len(ms) + 1..Len(qs) : qs[k].type = "text_edit" /\ qs[k].version = v
          BY <4>2
        <5>2. k \in a + 1..Len(qs)
          BY <1>1, <5>1 DEF Lengthened
        <5>3. QED
          BY <5>1, <5>2 DEF OnItsWay
      <4>3. QED
        BY <1>1, <3>2, <4>1, <4>2 DEF PassedOn
    <3>3. OnItsWay(c, T, ms, v, a)
      BY <1>1, <2>2
    <3>4. QED
      BY <3>1, <3>2, <3>3 DEF OnItsWay, HasToSend
  <2>3. QED
    BY <1>1, <2>1, <2>2
<1>2. ASSUME c \notin lost, NEW v \in n.version + 1..Len(M)
      PROVE  OnItsWay(c, U, qs, v, 0)
  <2>1. v \in Nat /\ v <= Len(M) /\ v > s.version
    BY <1>2
  <2>2. v <= Len(L) => OnItsWay(c, T, ms, v, 0)
    BY <1>2, <2>1 DEF Delivery
  <2>3. 0 \in 0..Len(ms)
    BY DEF Lengthened
  <2>4. QED
    BY <1>1, <2>1, <2>2, <2>3
<1>3. ASSUME NEW i \in 1..Len(qs), qs[i].type = "cell_resync", NEW v \in qs[i].version + 1..Len(M)
      PROVE  OnItsWay(c, U, qs, v, i)
  <2>1. Len(ms) \in Nat /\ Len(qs) \in Nat
    BY DEF Lengthened
  <2>2. CASE i \in 1..Len(ms)
    <3>1. qs[i] = ms[i]
      BY <2>2 DEF Lengthened
    <3>2. ms[i].version \in Nat
      BY <1>3, <2>2, <3>1
    <3>3. v \in Nat /\ v <= Len(M) /\ v > ms[i].version
      BY <1>3, <3>1, <3>2
    <3>4. v <= Len(L) => OnItsWay(c, T, ms, v, i)
      BY <1>3, <2>2, <3>1, <3>2, <3>3 DEF Delivery
    <3>5. i \in 0..Len(ms)
      BY <2>1, <2>2
    <3>6. QED
      BY <1>1, <3>3, <3>4, <3>5
  <2>3. CASE i \in Len(ms) + 1..Len(qs)
    <3>1. qs[i].version = Len(M)
      BY <1>3, <2>3 DEF Lengthened
    <3>2. QED
      BY <1>3, <3>1
  <2>4. QED
    BY <2>1, <2>2, <2>3
<1>4. QED
  BY <1>2, <1>3 DEF Delivery

\* A channel as it is; a channel with one message more.
LEMMA LengthenedNot ==
  ASSUME NEW L, NEW ms, Messages(L, ms)
  PROVE  Lengthened(L, ms, ms)
<1>1. Len(ms) \in Nat
  BY DEF Messages, IsSequence
<1>2. \A k \in Len(ms) + 1..Len(ms) : FALSE
  BY <1>1
<1>3. QED
  BY <1>1, <1>2 DEF Lengthened

LEMMA LengthenedByOne ==
  ASSUME NEW L, NEW ms, Messages(L, ms), NEW m, Sendable(L, m),
         m.type = "cell_resync" => m.version = Len(L)
  PROVE  Lengthened(L, ms, Append(ms, m))
<1>1. PICK qs : qs = Append(ms, m)
  OBVIOUS
<1>2. /\ Messages(L, qs) /\ Len(ms) \in Nat
      /\ Len(qs) = Len(ms) + 1 /\ qs[Len(ms) + 1] = m
      /\ \A n \in 1..Len(ms) : qs[n] = ms[n]
  BY <1>1, OneMessageMore
<1>3. \A k \in Len(ms) + 1..Len(qs) : k = Len(ms) + 1
  BY <1>2
<1>4. \A k \in Len(ms) + 1..Len(qs) : qs[k].type = "cell_resync" => qs[k].version = Len(L)
  BY <1>2, <1>3
<1>5. QED
  BY <1>1, <1>2, <1>4 DEF Lengthened

\* What is said of a client depends on the clients led astray by whether it is one.
LEMMA SameLost ==
  ASSUME NEW L, NEW c, NEW s, NEW q, NEW t, NEW T, NEW ms, NEW lost, NEW late,
         c \in late <=> c \in lost
  PROVE  /\ Served(L, c, s, q, t, ms, lost) => Served(L, c, s, q, t, ms, late)
         /\ Delivery(L, c, s, T, ms, lost) => Delivery(L, c, s, T, ms, late)
<1>1. Delivery(L, c, s, T, ms, lost) => Delivery(L, c, s, T, ms, late)
  BY DEF Delivery
<1>2. NotLost(c, s, q, t, ms, lost) => NotLost(c, s, q, t, ms, late)
  BY DEF NotLost
<1>3. Commits(L, c, s, lost) => Commits(L, c, s, late)
  BY DEF Commits
<1>4. QED
  BY <1>1, <1>2, <1>3 DEF Served

\* ... and on its store by the version.
LEMMA SameVersion ==
  ASSUME NEW L, NEW c, NEW s, NEW n, NEW T, NEW ms, NEW lost, n.version = s.version,
         Delivery(L, c, s, T, ms, lost)
  PROVE  Delivery(L, c, n, T, ms, lost)
BY DEF Delivery

----------------------------------------------------------------------------
(* The steps. *)

\* What a client's turn leaves of the invariant.
LEMMA ClientMoves ==
  ASSUME TextSyncInv, NEW c \in Client, NEW n, NEW q, NEW ms, NEW late,
         client' = [client EXCEPT ![c] = n], toServer' = [toServer EXCEPT ![c] = q],
         toClient' = [toClient EXCEPT ![c] = ms], astray' = late,
         cell' = cell, task' = task, log' = log, typed' \in 0..MaxTyped,
         late \subseteq Client, \A d \in Client : d # c => (d \in late <=> d \in astray),
         Served(log, c, n, q, task[c], ms, late), Delivery(log, c, n, task, ms, late)
  PROVE  TextSyncInv'
<1>1. FunctionsInv'
  BY DEF TextSyncInv, FunctionsInv
<1>2. Committed(log, cell)'
  BY DEF TextSyncInv
<1>3. ASSUME NEW d \in Client PROVE ServedInv(d)'
  <2>1. CASE d = c
    <3>1. /\ client'[c] = n /\ toServer'[c] = q /\ toClient'[c] = ms
      BY DEF TextSyncInv, FunctionsInv
    <3>2. QED
      BY <2>1, <3>1 DEF ServedInv
  <2>2. CASE d # c
    <3>1. client'[d] = client[d] /\ toServer'[d] = toServer[d] /\ toClient'[d] = toClient[d]
      BY <2>2 DEF TextSyncInv, FunctionsInv
    <3>2. ServedInv(d) /\ (d \in late <=> d \in astray)
      BY <2>2 DEF TextSyncInv
    <3>3. /\ Served(log, d, client[d], toServer[d], task[d], toClient[d], late)
          /\ Delivery(log, d, client[d], task, toClient[d], late)
      BY <3>2, SameLost DEF ServedInv
    <3>4. QED
      BY <3>1, <3>3 DEF ServedInv
  <2>3. QED
    BY <2>1, <2>2
<1>4. QED
  BY <1>1, <1>2, <1>3 DEF TextSyncInv

LEMMA InitText ==
  ASSUME Init
  PROVE  TextSyncInv
<1>1. /\ log = <<>> /\ Len(log) = 0 /\ IsSequence(log) /\ IsSequence(<<>>) /\ Len(<<>>) = 0
  BY DEF Init, IsSequence
<1>2. Committed(log, cell)
  <2>1. cell.content = InitialText /\ cell.version = 0 /\ cell.base = 0 /\ cell.history = <<>>
        /\ DOMAIN cell = Fields
    BY DEF Init, NewCell, Fields
  <2>2. WellKept(cell)
    BY <1>1, <2>1, TextAssumption DEF WellKept
  <2>3. QED
    BY <1>1, <2>1, <2>2 DEF Committed, TextOf
<1>3. FunctionsInv
  BY BoundsAssumption DEF Init, FunctionsInv
<1>4. ASSUME NEW c \in Client PROVE ServedInv(c)
  <2>1. PICK s : s = client[c]
    OBVIOUS
  <2>2. /\ DOMAIN s = StoreFields
        /\ s.content = InitialText /\ s.version = 0 /\ s.buffer = None
        /\ s.unconfirmed = None /\ s.sent = 0
    BY <2>1 DEF Init, StoreFields
  <2>3. task[c] = Idle /\ toServer[c] = None /\ toClient[c] = None /\ astray = {}
    BY DEF Init, None
  <2>4. Task(log, c, Idle)
    BY DEF Task, Idle
  <2>5. Messages(log, None)
    BY <1>1 DEF Messages, None
  <2>6. Store(log, s)
    BY <1>1, <2>2, TextAssumption DEF Store
  <2>7. \A n \in 1..Len(None) : FALSE
    BY <1>1 DEF None
  <2>8. ~Handled(c, Idle) /\ Idle.at = "idle"
    BY DEF Handled, Idle
  <2>9. Once(c, s, None, Idle, None)
    BY <2>2, <2>7, <2>8 DEF Once
  <2>10. NotLost(c, s, None, Idle, None, astray)
    BY <2>2 DEF NotLost
  <2>11. Commits(log, c, s, astray)
    BY <1>1 DEF Commits
  <2>12. OnTrack(log, s)
    BY <2>2 DEF OnTrack, Mine, TextOf
  <2>13. Served(log, c, s, None, Idle, None, astray)
    BY <2>4, <2>5, <2>6, <2>9, <2>10, <2>11, <2>12 DEF Served
  <2>14. Delivery(log, c, s, task, None, astray)
    BY <1>1, <2>2, <2>7 DEF Delivery
  <2>15. QED
    BY <2>1, <2>3, <2>13, <2>14 DEF ServedInv
<1>5. QED
  BY <1>2, <1>3, <1>4 DEF TextSyncInv

\* What a user makes of a text is a text.
LEMMA ChangedIsText ==
  ASSUME NEW c \in Client, NEW text \in Text, NEW new \in Changed(c, text)
  PROVE  new \in Text
<1>1. c \in Char
  BY ClientsTypeThemselves
<1>2. <<c>> \in Text /\ <<>> \in Text
  BY <1>1 DEF Text
<1>3. \A p \in Nat : SubSeq(text, 1, p) \in Text \/ p > Len(text)
  BY DEF Text
<1>4. ASSUME NEW p \in 0..Len(text), new = SubSeq(text, 1, p) \o <<c>> \o SubSeq(text, p + 1 + 0, Len(text))
      PROVE  new \in Text
  <2>1. Len(text) \in Nat /\ p \in Nat
    BY DEF Text
  <2>2. SubSeq(text, 1, p) \in Text
    BY <1>3, <2>1
  <2>3. SubSeq(text, p + 1 + 0, Len(text)) \in Text
    BY <2>1 DEF Text
  <2>4. QED
    BY <1>2, <1>4, <2>2, <2>3 DEF Text
<1>5. ASSUME NEW p \in 1..Len(text), NEW t \in {<<>>, <<c>>},
             new = SubSeq(text, 1, p - 1) \o t \o SubSeq(text, p + 1, Len(text))
      PROVE  new \in Text
  <2>1. Len(text) \in Nat /\ p \in Nat /\ p - 1 \in Nat /\ p - 1 <= Len(text)
    BY DEF Text
  <2>2. SubSeq(text, 1, p - 1) \in Text
    BY <1>3, <2>1
  <2>3. SubSeq(text, p + 1, Len(text)) \in Text
    BY <2>1 DEF Text
  <2>4. t \in Text
    BY <1>2
  <2>5. QED
    BY <1>5, <2>2, <2>3, <2>4 DEF Text
<1> DEFINE Insertion(p, d) == SubSeq(text, 1, p) \o <<c>> \o SubSeq(text, p + 1 + d, Len(text))
           Replacement(p, t) == SubSeq(text, 1, p - 1) \o t \o SubSeq(text, p + 1, Len(text))
<1>6. Changed(c, text) = {Insertion(p, d) : p \in 0..Len(text), d \in {0}}
                         \cup {Replacement(p, t) : p \in 1..Len(text), t \in {<<>>, <<c>>}}
  BY DEF Changed
<1>7. \A p \in 0..Len(text) : new = Insertion(p, 0) => new \in Text
  BY <1>4
<1>8. \A p \in 1..Len(text), t \in {<<>>, <<c>>} : new = Replacement(p, t) => new \in Text
  BY <1>5
<1> HIDE DEF Insertion, Replacement
<1>9. QED
  BY <1>6, <1>7, <1>8

LEMMA TypeKeepsText ==
  ASSUME TextSyncInv, NEW c \in Client, Type(c)
  PROVE  TextSyncInv'
<1>1. PICK s, q, ms : s = client[c] /\ q = toServer[c] /\ ms = toClient[c]
  OBVIOUS
<1>2. PICK new \in Changed(c, client[c].content) :
        client' = [client EXCEPT ![c] = LocalTextEdit(@, ComputeDiff(@.content, new))]
  BY DEF Type
<1>3. Served(log, c, s, q, task[c], ms, astray) /\ Delivery(log, c, s, task, ms, astray)
      /\ Committed(log, cell)
  BY <1>1 DEF TextSyncInv, ServedInv
<1>4. new \in Text
  <2>1. s.content \in Text
    BY <1>3 DEF Served, Store
  <2>2. QED
    BY <1>1, <1>2, <2>1, ChangedIsText
<1>5. PICK n : n = LocalTextEdit(s, ComputeDiff(s.content, new))
  OBVIOUS
<1>6. Served(log, c, n, q, task[c], ms, astray)
  <2>1. Served(log, c, LocalTextEdit(s, ComputeDiff(s.content, new)), q, task[c], ms, astray)
    BY <1>3, <1>4, TypedServed
  <2>2. QED
    BY <1>5, <2>1
<1>7. n.version = s.version
  BY <1>3, <1>5 DEF LocalTextEdit, Served, Store, StoreFields
<1>8. Delivery(log, c, n, task, ms, astray)
  BY <1>3, <1>7, SameVersion
<1>9. client' = [client EXCEPT ![c] = n]
  BY <1>1, <1>2, <1>5 DEF TextSyncInv, FunctionsInv
<1>10. toServer' = [toServer EXCEPT ![c] = q] /\ toClient' = [toClient EXCEPT ![c] = ms]
  BY <1>1 DEF TextSyncInv, FunctionsInv, Type
<1>11. /\ cell' = cell /\ task' = task /\ log' = log /\ astray' = astray
       /\ astray \subseteq Client /\ typed' \in 0..MaxTyped
  BY BoundsAssumption DEF TextSyncInv, FunctionsInv, Type, serverVars
<1>12. QED
  BY <1>6, <1>8, <1>9, <1>10, <1>11, ClientMoves

LEMMA FlushKeepsText ==
  ASSUME TextSyncInv, NEW c \in Client, Flush(c)
  PROVE  TextSyncInv'
<1>1. PICK s, ms, n : s = client[c] /\ ms = toClient[c] /\ n = Flushed(s)
  OBVIOUS
<1>2. Served(log, c, s, toServer[c], task[c], ms, astray) /\ Delivery(log, c, s, task, ms, astray)
      /\ Committed(log, cell) /\ MayFlush(s)
  BY <1>1 DEF TextSyncInv, ServedInv, Flush
<1>3. toServer[c] = None
  BY <1>2 DEF Served, Once, MayFlush
<1>4. /\ Served(log, c, n, n.unconfirmed, task[c], ms, astray)
      /\ n.version = s.version /\ n.unconfirmed = Append(None, n.unconfirmed[1])
  <2>1. /\ Served(log, c, Flushed(s), Flushed(s).unconfirmed, task[c], ms, astray)
        /\ Flushed(s).version = s.version
        /\ Flushed(s).unconfirmed = Append(None, Flushed(s).unconfirmed[1])
    BY <1>2, <1>3, FlushServed
  <2>2. QED
    BY <1>1, <2>1
<1>5. Delivery(log, c, n, task, ms, astray)
  BY <1>2, <1>4, SameVersion
<1>6. /\ client' = [client EXCEPT ![c] = n]
      /\ toServer' = [toServer EXCEPT ![c] = n.unconfirmed]
  <2>1. /\ client' = [client EXCEPT ![c] = Flushed(@)]
        /\ toServer' = [toServer EXCEPT ![c] = Append(@, Flushed(client[c]).unconfirmed[1])]
    BY DEF Flush
  <2>2. client' = [client EXCEPT ![c] = n]
    BY <1>1, <2>1 DEF TextSyncInv, FunctionsInv
  <2>3. toServer' = [toServer EXCEPT ![c] = Append(None, n.unconfirmed[1])]
    BY <1>1, <1>3, <2>1 DEF TextSyncInv, FunctionsInv
  <2>4. QED
    BY <1>4, <2>2, <2>3
<1>7. toClient' = [toClient EXCEPT ![c] = ms]
  BY <1>1 DEF TextSyncInv, FunctionsInv, Flush
<1>8. /\ cell' = cell /\ task' = task /\ log' = log /\ astray' = astray
      /\ astray \subseteq Client /\ typed' \in 0..MaxTyped
  BY DEF TextSyncInv, FunctionsInv, Flush, serverVars
<1>9. QED
  BY <1>4, <1>5, <1>6, <1>7, <1>8, ClientMoves

\* The client's store becomes n, and q is on its way from it.
Goes(c, n, q) == client' = [client EXCEPT ![c] = n] /\ toServer' = [toServer EXCEPT ![c] = q]

\* attemptFlush after an answer: the client may go on with what it has buffered.
LEMMA AttemptServed ==
  ASSUME FunctionsInv, Committed(log, cell), NEW c \in Client, NEW s, NEW ms, NEW late,
         toServer[c] = None, Served(log, c, s, None, task[c], ms, late), AttemptFlush(c, s)
  PROVE  \E n, q : /\ Goes(c, n, q)
                   /\ Served(log, c, n, q, task[c], ms, late) /\ n.version = s.version
<1>1. CASE /\ MayFlush(s)
           /\ client' = [client EXCEPT ![c] = Flushed(s)]
           /\ toServer' = [toServer EXCEPT ![c] = Append(@, Flushed(s).unconfirmed[1])]
  <2>1. PICK n : n = Flushed(s)
    OBVIOUS
  <2>2. /\ Served(log, c, Flushed(s), Flushed(s).unconfirmed, task[c], ms, late)
        /\ Flushed(s).version = s.version
        /\ Flushed(s).unconfirmed = Append(None, Flushed(s).unconfirmed[1])
    BY <1>1, FlushServed
  <2>3. toServer' = [toServer EXCEPT ![c] = n.unconfirmed]
    <3>1. toServer' = [toServer EXCEPT ![c] = Append(None, n.unconfirmed[1])]
      BY <1>1, <2>1 DEF FunctionsInv
    <3>2. QED
      BY <2>1, <2>2, <3>1
  <2>4. QED
    BY <1>1, <2>1, <2>2, <2>3 DEF Goes
<1>2. CASE client' = [client EXCEPT ![c] = s] /\ UNCHANGED toServer
  <2>1. toServer' = [toServer EXCEPT ![c] = None]
    BY <1>2 DEF FunctionsInv
  <2>2. QED
    BY <1>2, <2>1 DEF Goes
<1>3. QED
  BY <1>1, <1>2 DEF AttemptFlush

\* A client takes the next message from its channel.
LEMMA ReceiveKeepsText ==
  ASSUME TextSyncInv, NEW c \in Client, Receive(c)
  PROVE  TextSyncInv'
<1>1. PICK s, q, t, ms, m, rest, late :
        /\ s = client[c] /\ q = toServer[c] /\ t = task[c] /\ ms = toClient[c]
        /\ m = Head(ms) /\ rest = Tail(ms) /\ late = astray'
  OBVIOUS
<1>2. /\ Served(log, c, s, q, t, ms, astray) /\ Delivery(log, c, s, task, ms, astray)
      /\ Committed(log, cell) /\ FunctionsInv /\ ms # <<>>
  BY <1>1 DEF TextSyncInv, ServedInv, Receive
<1>3. /\ late = IF LeadsAstray(c, m) THEN astray \cup {c}
                ELSE IF m.type = "cell_resync" THEN astray \ {c} ELSE astray
      /\ toClient' = [toClient EXCEPT ![c] = rest]
      /\ cell' = cell /\ task' = task /\ log' = log /\ typed' = typed
  BY <1>1, <1>2 DEF Receive, serverVars, FunctionsInv
<1>4. late \subseteq Client /\ \A d \in Client : d # c => (d \in late <=> d \in astray)
  BY <1>2, <1>3 DEF FunctionsInv
<1>5. ASSUME NEW n, NEW p, client' = [client EXCEPT ![c] = n], toServer' = [toServer EXCEPT ![c] = p],
             Served(log, c, n, p, t, rest, late), Delivery(log, c, n, task, rest, late)
      PROVE  TextSyncInv'
  <2>1. typed' \in 0..MaxTyped
    BY <1>2, <1>3 DEF FunctionsInv
  <2>2. QED
    BY <1>1, <1>3, <1>4, <1>5, <2>1, ClientMoves
<1>6. /\ Len(log) \in Nat /\ s.version \in Nat /\ Messages(log, ms) /\ Store(log, s)
      /\ Sendable(log, m)
  <2>1. Sendable(log, Head(ms))
    BY <1>2, TakenFirst
  <2>2. QED
    BY <1>1, <1>2, <2>1, LogTexts DEF Served, Store
<1>7. ASSUME NEW n, n.version \in Nat,
             c \notin late =>
               \/ m.type = "cell_resync" /\ n.version = m.version
               \/ /\ c \notin astray /\ s.version <= n.version
                  /\ m.type = "text_edit" => m.version <= n.version
      PROVE  Delivery(log, c, n, task, rest, late)
  BY <1>1, <1>2, <1>6, <1>7, FirstDelivered
<1>8. ASSUME NEW x, x.version \in Nat, toServer[c] = None,
             Served(log, c, x, None, t, rest, late), AttemptFlush(c, x),
             c \notin late =>
               \/ m.type = "cell_resync" /\ x.version = m.version
               \/ /\ c \notin astray /\ s.version <= x.version
                  /\ m.type = "text_edit" => m.version <= x.version
      PROVE  TextSyncInv'
  <2>1. PICK n, p : /\ Goes(c, n, p)
                    /\ Served(log, c, n, p, task[c], rest, late) /\ n.version = x.version
    <3>1. Served(log, c, x, None, task[c], rest, late)
      BY <1>1, <1>8
    <3>2. FunctionsInv /\ Committed(log, cell) /\ toServer[c] = None /\ AttemptFlush(c, x)
      BY <1>2, <1>8
    <3>3. QED
      BY <3>1, <3>2, AttemptServed
  <2>2. Delivery(log, c, n, task, rest, late)
    BY <1>7, <1>8, <2>1
  <2>3. QED
    BY <1>1, <1>5, <2>1, <2>2 DEF Goes
<1>9. CASE m.type = "text_edit"
  <2>1. /\ ReceiveTextEdit(c, m) /\ m.version \in 1..Len(log)
        /\ c \notin late => c \notin astray /\ ~LeadsAstray(c, m)
    BY <1>1, <1>3, <1>6, <1>9 DEF Receive, ReceiveCellResync, ReceiveFailure, Sendable, Told
  <2>2. c \notin late => \/ m.version <= s.version
                         \/ /\ m.version = s.version + 1
                            /\ ~IsAck(c, s, m) /\ s.unconfirmed # None =>
                                 s.unconfirmed[1].base = s.version
    <3>1. LeadsAstray(c, m) <=>
            /\ m.version > s.version
            /\ \/ m.version # s.version + 1
               \/ /\ ~IsAck(c, s, m)
                  /\ s.unconfirmed # None
                  /\ s.unconfirmed[1].base # s.version
      BY <1>1, <1>9 DEF LeadsAstray
    <3>2. QED
      BY <1>6, <2>1, <3>1
  <2>3. CASE m.version <= s.version /\ UNCHANGED <<client, toServer>>
    <3>1. Served(log, c, s, q, t, rest, astray)
      BY <1>1, <1>2, <1>9, <2>3, StaleServed
    <3>2. late = astray \/ late = astray \cup {c}
      BY <1>3, <1>9
    <3>3. ~LeadsAstray(c, m)
      BY <1>1, <1>6, <1>9, <2>1, <2>3 DEF LeadsAstray
    <3>4. late = astray
      BY <1>3, <1>9, <3>3
    <3>5. Delivery(log, c, s, task, rest, late)
      BY <1>6, <1>7, <2>3, <3>4
    <3>6. client' = [client EXCEPT ![c] = s] /\ toServer' = [toServer EXCEPT ![c] = q]
      BY <1>1, <1>2, <2>3 DEF FunctionsInv
    <3>7. QED
      BY <1>5, <3>1, <3>4, <3>5, <3>6
  <2>4. CASE m.version > s.version /\ IsAck(c, s, m) /\ AttemptFlush(c, Acknowledged(s, m))
    <3>1. c \notin late => c \notin astray /\ m.version = s.version + 1
      BY <1>6, <2>1, <2>2, <2>4
    <3>2. q = None /\ Served(log, c, Acknowledged(s, m), None, t, rest, late)
      BY <1>1, <1>2, <1>9, <2>4, <3>1, AckServed
    <3>3. Acknowledged(s, m).version = m.version
      BY <1>6 DEF Acknowledged, Store, StoreFields
    <3>4. QED
      BY <1>1, <1>6, <1>8, <2>1, <2>4, <3>1, <3>2, <3>3
  <2>5. CASE /\ m.version > s.version /\ ~IsAck(c, s, m)
             /\ client' = [client EXCEPT ![c] = Integrated(@, m)] /\ UNCHANGED toServer
    <3>1. c \notin late => /\ c \notin astray /\ m.version = s.version + 1
                           /\ s.unconfirmed # None => s.unconfirmed[1].base = s.version
      BY <1>6, <2>1, <2>2, <2>5
    <3>2. PICK n : n = Integrated(s, m)
      OBVIOUS
    <3>3. /\ Served(log, c, n, q, t, rest, late)
          /\ c \notin late => n.version = m.version
      <4>1. /\ Served(log, c, Integrated(s, Head(ms)), q, t, Tail(ms), late)
            /\ c \notin late => Integrated(s, Head(ms)).version = Head(ms).version
        BY <1>1, <1>2, <1>9, <2>5, <3>1, ForeignServed
      <4>2. QED
        BY <1>1, <3>2, <4>1
    <3>4. n.version \in Nat
      BY <1>6, <3>3 DEF Served, Store
    <3>5. Delivery(log, c, n, task, rest, late)
      BY <1>6, <1>7, <2>1, <2>5, <3>1, <3>3, <3>4
    <3>6. client' = [client EXCEPT ![c] = n] /\ toServer' = [toServer EXCEPT ![c] = q]
      BY <1>1, <1>2, <2>5, <3>2 DEF FunctionsInv
    <3>7. QED
      BY <1>5, <3>3, <3>5, <3>6
  <2>6. QED
    BY <1>1, <2>1, <2>3, <2>4, <2>5 DEF ReceiveTextEdit
<1>10. CASE m.type = "cell_resync"
  <2>1. /\ AttemptFlush(c, Resynced(s, m)) /\ m.version \in 0..Len(log)
    BY <1>1, <1>6, <1>10 DEF Receive, ReceiveCellResync, ReceiveTextEdit, ReceiveFailure, Sendable
  <2>2. c \notin late => m.content = TextOf(log, m.version)
    BY <1>1, <1>3, <1>10 DEF LeadsAstray, TextAt, TextOf
  <2>3. q = None /\ Served(log, c, Resynced(s, m), None, t, rest, late)
    BY <1>1, <1>2, <1>10, <2>2, ResyncServed
  <2>4. Resynced(s, m).version = m.version
    BY <1>6 DEF Resynced, Store, StoreFields
  <2>5. QED
    BY <1>1, <1>6, <1>8, <1>10, <2>1, <2>3, <2>4
<1>11. CASE m.type = "text_operation_failed"
  <2>1. AttemptFlush(c, [s EXCEPT !.unconfirmed = None]) /\ c \in late
    BY <1>1, <1>3, <1>11
       DEF Receive, ReceiveCellResync, ReceiveTextEdit, ReceiveFailure, LeadsAstray
  <2>2. q = None /\ Served(log, c, [s EXCEPT !.unconfirmed = None], None, t, rest, late)
    BY <1>1, <1>2, <1>11, <2>1, FailureServed
  <2>3. [s EXCEPT !.unconfirmed = None].version = s.version
    BY <1>6 DEF Store, StoreFields
  <2>4. QED
    BY <1>1, <1>6, <1>8, <2>1, <2>2, <2>3
<1>12. QED
  BY <1>6, <1>9, <1>10, <1>11 DEF Sendable

\* The server's turn changes no store.
LEMMA ServerMoves ==
  ASSUME TextSyncInv, client' = client, astray' = astray, typed' = typed,
         NEW T, task' = T, T = [d \in Client |-> T[d]],
         NEW Q, toServer' = Q, Q = [d \in Client |-> Q[d]],
         NEW C, toClient' = C, C = [d \in Client |-> C[d]],
         Committed(log', cell'),
         \A d \in Client : /\ Served(log', d, client[d], Q[d], T[d], C[d], astray)
                           /\ Delivery(log', d, client[d], T, C[d], astray)
  PROVE  TextSyncInv'
<1>1. FunctionsInv'
  BY DEF TextSyncInv, FunctionsInv
<1>2. ASSUME NEW d \in Client PROVE ServedInv(d)'
  BY DEF ServedInv
<1>3. QED
  BY <1>1, <1>2 DEF TextSyncInv

\* A task that was not sending does not lose an edit.
LEMMA NobodyStops ==
  ASSUME NEW T, NEW U, NEW c, T[c].at # "broadcast", \A d \in Client : d # c => U[d] = T[d],
         NEW d, NEW ms
  PROVE  PassedOn(d, T, U, ms, ms)
BY DEF PassedOn, HasToSend

\* The next request of c, taken from its channel.
LEMMA TakenRequest ==
  ASSUME TextSyncInv, NEW c \in Client, Takes(c)
  PROVE  LET r == Head(toServer[c])
         IN  /\ toServer[c] # None /\ task[c] = Idle /\ task[c].at = "idle"
             /\ toServer' = [toServer EXCEPT ![c] = None]
             /\ r.base \in 0..Len(log) /\ r.operation \in Operation /\ r.id = client[c].sent
<1>1. /\ Served(log, c, client[c], toServer[c], task[c], toClient[c], astray)
      /\ toServer[c] # None /\ task[c] = Idle /\ Committed(log, cell)
      /\ toServer' = [toServer EXCEPT ![c] = Tail(@)]
  BY DEF TextSyncInv, ServedInv, Takes, None
<1>2. PICK q, u, s : q = toServer[c] /\ u = client[c].unconfirmed[1] /\ s = client[c]
  OBVIOUS
<1>3. /\ Tail(q) = None /\ Head(q) = u
      /\ u.id = s.sent /\ u.base \in 0..s.version /\ u.operation \in Operation
      /\ s.version \in 0..Len(log)
  <2>1. LET v == client[c].unconfirmed[1]
        IN  /\ Tail(toServer[c]) = None /\ Head(toServer[c]) = v
            /\ v.id = client[c].sent /\ v.base \in 0..client[c].version /\ v.operation \in Operation
            /\ client[c].version \in 0..Len(log)
    BY <1>1, RequestIs
  <2>2. QED
    BY <1>2, <2>1
<1>4. Len(log) \in Nat
  BY <1>1, LogTexts
<1>5. Idle.at = "idle"
  BY DEF Idle
<1>6. toServer' = [toServer EXCEPT ![c] = None]
  BY <1>1, <1>2, <1>3 DEF TextSyncInv, FunctionsInv
<1>7. u.base \in 0..Len(log)
  BY <1>3, <1>4
<1>8. QED
  BY <1>1, <1>2, <1>3, <1>5, <1>6, <1>7

LEMMA CommitKeepsText ==
  ASSUME TextSyncInv, NEW c \in Client, Commit(c)
  PROVE  TextSyncInv'
<1>1. PICK r, e, M : /\ r = Head(toServer[c])
                     /\ e = [author |-> c, id |-> r.id, base |-> r.base,
                             operation |-> Rebased(cell, r.base, r.operation)[1],
                             text |-> Edited(cell, r.base, r.operation, c).content]
                     /\ M = Append(log, e)
  OBVIOUS
<1>2. /\ toServer[c] # None /\ task[c] = Idle /\ task[c].at = "idle"
      /\ toServer' = [toServer EXCEPT ![c] = None]
      /\ r.base \in 0..Len(log) /\ r.operation \in Operation /\ r.id = client[c].sent
  BY <1>1, TakenRequest DEF Commit
<1>3. /\ Accepts(cell, r.base, r.operation) /\ cell' = Edited(cell, r.base, r.operation, c)
      /\ log' = M
      /\ task' = [task EXCEPT ![c] =
           Broadcasting(TextEdit(c, r.id, Edited(cell, r.base, r.operation, c).version,
                                 Rebased(cell, r.base, r.operation)[1]), Client)]
      /\ toClient' = toClient /\ client' = client /\ typed' = typed /\ astray' = astray
  BY <1>1 DEF Commit, SetTask
<1>4. Committed(log, cell) /\ Len(log) \in Nat /\ FunctionsInv
  BY LogTexts DEF TextSyncInv
<1>5. /\ e.operation = Rebased(cell, r.base, r.operation)[1] /\ e.author = c /\ e.id = r.id
      /\ e.text = Edited(cell, r.base, r.operation, c).content
  BY <1>1
<1>6. /\ GrownLog(log, M) /\ Committed(M, cell')
      /\ Len(M) = Len(log) + 1 /\ M[Len(log) + 1] = e
      /\ Edited(cell, r.base, r.operation, c).version = Len(log) + 1
      /\ RebaseOver(SubSeq(log, r.base + 1, Len(log)), r.operation) = <<e.operation>>
  <2>1. /\ GrownLog(log, Append(log, e))
        /\ Committed(Append(log, e), Edited(cell, r.base, r.operation, c))
        /\ Len(Append(log, e)) = Len(log) + 1 /\ Append(log, e)[Len(log) + 1] = e
        /\ Edited(cell, r.base, r.operation, c).version = Len(log) + 1
        /\ RebaseOver(SubSeq(log, r.base + 1, Len(log)), r.operation) = <<e.operation>>
    <3>1. /\ Committed(log, cell) /\ r.base \in 0..Len(log) /\ r.operation \in Operation
          /\ Accepts(cell, r.base, r.operation)
          /\ e.operation = Rebased(cell, r.base, r.operation)[1]
          /\ e.text = Edited(cell, r.base, r.operation, c).content
      BY <1>2, <1>3, <1>4, <1>5
    <3>2. PICK b, o : b = r.base /\ o = r.operation
      OBVIOUS
    <3>3. /\ b \in 0..Len(log) /\ o \in Operation
          /\ Accepts(cell, b, o)
          /\ e.operation = Rebased(cell, b, o)[1]
          /\ e.text = Edited(cell, b, o, c).content
      BY <3>1, <3>2
    <3>4. /\ GrownLog(log, Append(log, e))
          /\ Committed(Append(log, e), Edited(cell, b, o, c))
          /\ Len(Append(log, e)) = Len(log) + 1 /\ Append(log, e)[Len(log) + 1] = e
          /\ Edited(cell, b, o, c).version = Len(log) + 1
          /\ RebaseOver(SubSeq(log, b + 1, Len(log)), o) = <<e.operation>>
      BY <3>1, <3>3, EditCommitted
    <3>5. QED
      BY <3>2, <3>4
  <2>2. QED
    BY <1>1, <1>3, <2>1
<1>7. PICK x, T : /\ x = Broadcasting(TextEdit(c, e.id, Len(log) + 1, e.operation), Client)
                  /\ T = task'
  OBVIOUS
<1>8. T = [task EXCEPT ![c] = x]
  BY <1>3, <1>5, <1>6, <1>7
<1>9. T[c] = x /\ T = [d \in Client |-> T[d]] /\ \A d \in Client : d # c => T[d] = task[d]
  BY <1>4, <1>8 DEF FunctionsInv
<1>10. PICK Q : Q = toServer'
  OBVIOUS
<1>11. Q[c] = None /\ Q = [d \in Client |-> Q[d]] /\ \A d \in Client : d # c => Q[d] = toServer[d]
  BY <1>2, <1>4, <1>10 DEF FunctionsInv
<1>12. ASSUME NEW d \in Client
       PROVE  Served(M, d, client[d], Q[d], T[d], toClient[d], astray)
  <2>1. Served(log, d, client[d], toServer[d], task[d], toClient[d], astray)
    BY DEF TextSyncInv, ServedInv
  <2>2. CASE d = c
    <3>1. RebaseOver(SubSeq(log, Head(toServer[c]).base + 1, Len(log)),
                     Head(toServer[c]).operation) = <<e.operation>>
      BY <1>1, <1>6
    <3>2. Served(M, c, client[c], None,
                 Broadcasting(TextEdit(c, e.id, Len(log) + 1, e.operation), Client),
                 toClient[c], astray)
      <4>1. e.id = Head(toServer[c]).id
        BY <1>1, <1>5
      <4>2. QED
        BY <1>2, <1>5, <1>6, <2>1, <2>2, <3>1, <4>1, CommitServed
    <3>3. QED
      BY <1>7, <1>9, <1>11, <2>2, <3>2
  <2>3. CASE d # c
    <3>1. Served(M, d, client[d], toServer[d], task[d], toClient[d], astray)
      BY <1>5, <1>6, <2>1, <2>3, OtherServed
    <3>2. QED
      BY <1>9, <1>11, <2>3, <3>1
  <2>4. QED
    BY <2>2, <2>3
<1>13. ASSUME NEW d \in Client
       PROVE  Delivery(M, d, client[d], T, toClient[d], astray)
  <2>1. /\ Served(log, d, client[d], toServer[d], task[d], toClient[d], astray)
        /\ Delivery(log, d, client[d], task, toClient[d], astray)
    BY DEF TextSyncInv, ServedInv
  <2>2. client[d].version \in Nat
    BY <1>4, <2>1 DEF Served, Store
  <2>3. Lengthened(M, toClient[d], toClient[d])
    BY <1>12, LengthenedNot DEF Served
  <2>4. \A k \in 1..Len(toClient[d]) :
          toClient[d][k].type = "cell_resync" => toClient[d][k].version \in Nat
    BY <1>4, <2>1 DEF Served, Messages, Sendable
  <2>5. PassedOn(d, task, T, toClient[d], toClient[d])
    BY <1>2, <1>9, NobodyStops
  <2>6. \A v \in Len(log) + 1..Len(M) : HasToSend(d, T, v)
    <3>1. \A v \in Len(log) + 1..Len(M) : v = Len(log) + 1
      BY <1>4, <1>6
    <3>2. x.at = "broadcast" /\ x.rest = Client /\ x.message.version = Len(log) + 1
      BY <1>7 DEF Broadcasting, TextEdit
    <3>3. HasToSend(d, T, Len(log) + 1)
      BY <1>9, <3>2 DEF HasToSend
    <3>4. QED
      BY <3>1, <3>3
  <2>7. Len(M) \in Nat
    BY <1>4, <1>6
  <2>8. QED
    BY <1>4, <2>1, <2>2, <2>3, <2>4, <2>5, <2>6, <2>7, DeliveryGoes
<1>14. toClient = [d \in Client |-> toClient[d]]
  BY <1>4 DEF FunctionsInv
<1>15. QED
  BY <1>3, <1>6, <1>7, <1>9, <1>10, <1>11, <1>12, <1>13, <1>14, ServerMoves

LEMMA ReadContentKeepsText ==
  ASSUME TextSyncInv, NEW c \in Client, ReadContent(c)
  PROVE  TextSyncInv'
<1>1. /\ toServer[c] # None /\ task[c] = Idle /\ task[c].at = "idle"
      /\ toServer' = [toServer EXCEPT ![c] = None]
  BY TakenRequest DEF ReadContent
<1>2. /\ task' = [task EXCEPT ![c] = ReadingVersion(cell.content)]
      /\ cell' = cell /\ log' = log
      /\ toClient' = toClient /\ client' = client /\ typed' = typed /\ astray' = astray
  <2>1. /\ SetTask(c, ReadingVersion(cell.content))
        /\ UNCHANGED <<cell, toClient, client, typed, log, astray>>
    BY DEF ReadContent
  <2>2. QED
    BY <2>1 DEF SetTask
<1>3. Committed(log, cell) /\ Len(log) \in Nat /\ FunctionsInv /\ cell.content \in Text
  BY LogTexts DEF TextSyncInv, Committed, WellKept
<1>4. PICK x, T, Q : x = ReadingVersion(cell.content) /\ T = task' /\ Q = toServer'
  OBVIOUS
<1>5. T[c] = x /\ T = [d \in Client |-> T[d]] /\ \A d \in Client : d # c => T[d] = task[d]
  BY <1>2, <1>3, <1>4 DEF FunctionsInv
<1>6. Q[c] = None /\ Q = [d \in Client |-> Q[d]] /\ \A d \in Client : d # c => Q[d] = toServer[d]
  BY <1>1, <1>3, <1>4 DEF FunctionsInv
<1>7. ASSUME NEW d \in Client
      PROVE  Served(log, d, client[d], Q[d], T[d], toClient[d], astray)
  <2>1. Served(log, d, client[d], toServer[d], task[d], toClient[d], astray)
    BY DEF TextSyncInv, ServedInv
  <2>2. CASE d = c
    <3>1. Served(log, c, client[c], None, ReadingVersion(cell.content), toClient[c], astray)
      BY <1>1, <1>3, <2>1, <2>2, ReadServed
    <3>2. QED
      BY <1>4, <1>5, <1>6, <2>2, <3>1
  <2>3. CASE d # c
    BY <1>5, <1>6, <2>1, <2>3
  <2>4. QED
    BY <2>2, <2>3
<1>8. ASSUME NEW d \in Client
      PROVE  Delivery(log, d, client[d], T, toClient[d], astray)
  <2>1. /\ Served(log, d, client[d], toServer[d], task[d], toClient[d], astray)
        /\ Delivery(log, d, client[d], task, toClient[d], astray)
    BY DEF TextSyncInv, ServedInv
  <2>2. client[d].version \in Nat
    BY <1>3, <2>1 DEF Served, Store
  <2>3. Lengthened(log, toClient[d], toClient[d])
    BY <2>1, LengthenedNot DEF Served
  <2>4. \A k \in 1..Len(toClient[d]) :
          toClient[d][k].type = "cell_resync" => toClient[d][k].version \in Nat
    BY <1>3, <2>1 DEF Served, Messages, Sendable
  <2>5. PassedOn(d, task, T, toClient[d], toClient[d])
    BY <1>1, <1>5, NobodyStops
  <2>6. \A v \in Len(log) + 1..Len(log) : HasToSend(d, T, v)
    BY <1>3
  <2>7. QED
    BY <1>3, <2>1, <2>2, <2>3, <2>4, <2>5, <2>6, DeliveryGoes
<1>9. toClient = [d \in Client |-> toClient[d]]
  BY <1>3 DEF FunctionsInv
<1>10. QED
  BY <1>2, <1>3, <1>4, <1>5, <1>6, <1>7, <1>8, <1>9, ServerMoves

\* What a sending task has to send.
LEMMA SendingTask ==
  ASSUME NEW L, NEW c, NEW t, Task(L, c, t), t.at = "broadcast", NEW d \in t.rest,
         NEW x, x = IF t.rest = {d} THEN Idle ELSE [t EXCEPT !.rest = @ \ {d}]
  PROVE  /\ Task(L, c, x) /\ Sendable(L, t.message)
         /\ t.message.type = "text_edit" /\ t.message.author = c
         /\ t.rest = {d} => x.at = "idle"
         /\ t.rest # {d} => /\ x.at = "broadcast" /\ x.rest = t.rest \ {d}
                            /\ x.message = t.message
<1>1. /\ t = Broadcasting(t.message, t.rest) /\ t.rest \subseteq Client
      /\ t.message.type = "text_edit" /\ t.message.author = c /\ Told(L, t.message)
  BY DEF Task
<1>2. Sendable(L, t.message)
  BY <1>1 DEF Sendable
<1>3. CASE t.rest = {d}
  <2>1. x = Idle /\ Idle.at = "idle"
    BY <1>3 DEF Idle
  <2>2. Task(L, c, x)
    BY <2>1 DEF Task
  <2>3. QED
    BY <1>1, <1>2, <1>3, <2>1, <2>2
<1>4. CASE t.rest # {d}
  <2>1. PICK y : y = t.rest \ {d}
    OBVIOUS
  <2>2. x = Broadcasting(t.message, y)
    <3>1. x = [t EXCEPT !.rest = y]
      BY <1>4, <2>1
    <3>2. QED
      BY <1>1, <3>1 DEF Broadcasting
  <2>3. x.at = "broadcast" /\ x.rest = y /\ x.message = t.message
    BY <2>2 DEF Broadcasting
  <2>4. Task(L, c, x)
    BY <1>1, <2>1, <2>2, <2>3 DEF Task
  <2>5. QED
    BY <1>1, <1>2, <1>4, <2>1, <2>3, <2>4
<1>5. QED
  BY <1>3, <1>4

LEMMA SendKeepsText ==
  ASSUME TextSyncInv, NEW c \in Client, Send(c)
  PROVE  TextSyncInv'
<1>1. FunctionsInv /\ Committed(log, cell) /\ Len(log) \in Nat
  BY LogTexts DEF TextSyncInv
<1>2. PICK d \in task[c].rest :
        /\ toClient' = [toClient EXCEPT ![d] = Append(@, task[c].message)]
        /\ task' = [task EXCEPT ![c] = IF task[c].rest = {d} THEN Idle
                                       ELSE [task[c] EXCEPT !.rest = @ \ {d}]]
  BY DEF Send, Deliver, SetTask
<1>3. /\ task[c].at = "broadcast" /\ cell' = cell /\ toServer' = toServer /\ client' = client
      /\ typed' = typed /\ log' = log /\ astray' = astray
  BY DEF Send
<1>4. PICK t, x, m, T, C :
        /\ t = task[c] /\ m = t.message /\ T = task' /\ C = toClient'
        /\ x = IF t.rest = {d} THEN Idle ELSE [t EXCEPT !.rest = @ \ {d}]
  OBVIOUS
<1>5. ASSUME NEW e \in Client
      PROVE  /\ Served(log, e, client[e], toServer[e], task[e], toClient[e], astray)
             /\ Delivery(log, e, client[e], task, toClient[e], astray)
  BY DEF TextSyncInv, ServedInv
<1>6. /\ Task(log, c, t) /\ t.at = "broadcast" /\ d \in t.rest /\ d \in Client
  <2>1. Task(log, c, t)
    BY <1>4, <1>5 DEF Served
  <2>2. QED
    BY <1>2, <1>3, <1>4, <2>1 DEF Task
<1>7. /\ Task(log, c, x) /\ Sendable(log, m) /\ m.type = "text_edit" /\ m.author = c
      /\ t.rest = {d} => x.at = "idle"
      /\ t.rest # {d} => x.at = "broadcast" /\ x.rest = t.rest \ {d} /\ x.message = m
  <2>1. /\ Task(log, c, x) /\ Sendable(log, t.message)
        /\ t.message.type = "text_edit" /\ t.message.author = c
        /\ t.rest = {d} => x.at = "idle"
        /\ t.rest # {d} => x.at = "broadcast" /\ x.rest = t.rest \ {d} /\ x.message = t.message
    BY <1>4, <1>6, SendingTask
  <2>2. QED
    BY <1>4, <2>1
<1>8. /\ T = [task EXCEPT ![c] = x]
      /\ C = [toClient EXCEPT ![d] = Append(toClient[d], m)]
  BY <1>1, <1>2, <1>4 DEF FunctionsInv
<1>9. T[c] = x /\ T = [e \in Client |-> T[e]] /\ \A e \in Client : e # c => T[e] = task[e]
  BY <1>1, <1>8 DEF FunctionsInv
<1>10. /\ C[d] = Append(toClient[d], m) /\ C = [e \in Client |-> C[e]]
       /\ \A e \in Client : e # d => C[e] = toClient[e]
  BY <1>1, <1>6, <1>8 DEF FunctionsInv
<1>11. ASSUME NEW e \in Client
       PROVE  Served(log, e, client[e], toServer[e], T[e], C[e], astray)
  <2>1. CASE e = d /\ e = c
    <3>1. c \in t.rest /\ Handled(c, t) /\ ~Handled(c, x)
      BY <1>6, <1>7, <2>1 DEF Handled
    <3>2. Served(log, c, client[c], toServer[c], t, toClient[c], astray)
      BY <1>4, <1>5
    <3>3. toServer[c] = None /\ m.id = client[c].sent
      BY <1>4, <1>6, <3>1, <3>2 DEF Served, Once
    <3>4. Answers(c, m)
      BY <1>7 DEF Answers
    <3>5. Served(log, c, client[c], None, x, Append(toClient[c], m), astray)
      BY <1>7, <3>1, <3>2, <3>3, <3>4, AnswerServed
    <3>6. QED
      BY <1>9, <1>10, <2>1, <3>3, <3>5
  <2>2. CASE e = d /\ e # c
    <3>1. ~Answers(d, m)
      BY <1>7, <2>2 DEF Answers
    <3>2. Served(log, d, client[d], toServer[d], task[d], Append(toClient[d], m), astray)
      BY <1>5, <1>6, <1>7, <3>1, ForwardServed
    <3>3. QED
      BY <1>9, <1>10, <2>2, <3>2
  <2>3. CASE e # d /\ e = c
    <3>1. Handled(c, x) <=> Handled(c, t)
      BY <1>6, <1>7, <2>3 DEF Handled
    <3>2. x.at = "broadcast" /\ c \in x.rest =>
            t.at = "broadcast" /\ c \in t.rest /\ x.message = t.message
      BY <1>4, <1>6, <1>7
    <3>3. Served(log, c, client[c], toServer[c], t, toClient[c], astray)
      BY <1>4, <1>5
    <3>4. Served(log, c, client[c], toServer[c], x, toClient[c], astray)
      BY <1>7, <3>1, <3>2, <3>3, TaskServed
    <3>5. QED
      BY <1>9, <1>10, <2>3, <3>4
  <2>4. CASE e # d /\ e # c
    BY <1>5, <1>9, <1>10, <2>4
  <2>5. QED
    BY <2>1, <2>2, <2>3, <2>4
<1>12. ASSUME NEW e \in Client
       PROVE  Delivery(log, e, client[e], T, C[e], astray)
  <2>1. client[e].version \in Nat /\ Messages(log, toClient[e])
    BY <1>1, <1>5 DEF Served, Store
  <2>2. Lengthened(log, toClient[e], C[e])
    <3>1. m.type # "cell_resync"
      BY <1>7
    <3>2. CASE e = d
      <4>1. Lengthened(log, toClient[d], Append(toClient[d], m))
        BY <1>7, <2>1, <3>1, <3>2, LengthenedByOne
      <4>2. QED
        BY <1>10, <3>2, <4>1
    <3>3. CASE e # d
      BY <1>10, <2>1, <3>3, LengthenedNot
    <3>4. QED
      BY <3>2, <3>3
  <2>3. \A k \in 1..Len(toClient[e]) :
          toClient[e][k].type = "cell_resync" => toClient[e][k].version \in Nat
    BY <1>1, <2>1 DEF Messages, Sendable
  <2>4. PassedOn(e, task, T, toClient[e], C[e])
    <3>1. SUFFICES ASSUME NEW v \in Nat, HasToSend(e, task, v)
                   PROVE  \/ HasToSend(e, T, v)
                          \/ \E k \in Len(toClient[e]) + 1..Len(C[e]) :
                               C[e][k].type = "text_edit" /\ C[e][k].version = v
      BY DEF PassedOn
    <3>2. PICK g \in Client : task[g].at = "broadcast" /\ e \in task[g].rest
                              /\ task[g].message.version = v
      BY <3>1 DEF HasToSend
    <3>3. CASE g # c
      BY <1>9, <3>2, <3>3 DEF HasToSend
    <3>4. CASE g = c /\ e = d
      <4>1. /\ Len(toClient[d]) \in Nat /\ Len(C[d]) = Len(toClient[d]) + 1
            /\ C[d][Len(toClient[d]) + 1] = m
        <5>1. /\ Len(toClient[d]) \in Nat
              /\ Len(Append(toClient[d], m)) = Len(toClient[d]) + 1
              /\ Append(toClient[d], m)[Len(toClient[d]) + 1] = m
          BY <1>7, <2>1, <3>4, OneMessageMore
        <5>2. QED
          BY <1>10, <5>1
      <4>2. m.type = "text_edit" /\ m.version = v
        BY <1>4, <1>7, <3>2, <3>4
      <4>3. Len(toClient[d]) + 1 \in Len(toClient[d]) + 1..Len(C[d])
        BY <4>1
      <4>4. QED
        BY <3>4, <4>1, <4>2, <4>3
    <3>5. CASE g = c /\ e # d
      <4>1. t.rest # {d} /\ e \in t.rest
        BY <1>4, <3>2, <3>5
      <4>2. T[c].at = "broadcast" /\ e \in T[c].rest /\ T[c].message.version = v
        BY <1>4, <1>7, <1>9, <3>2, <3>5, <4>1
      <4>3. QED
        BY <4>2 DEF HasToSend
    <3>6. QED
      BY <3>3, <3>4, <3>5
  <2>5. \A v \in Len(log) + 1..Len(log) : HasToSend(e, T, v)
    BY <1>1
  <2>6. QED
    BY <1>1, <1>5, <2>1, <2>2, <2>3, <2>4, <2>5, DeliveryGoes
<1>13. toServer = [e \in Client |-> toServer[e]]
  BY <1>1 DEF FunctionsInv
<1>14. QED
  BY <1>1, <1>3, <1>4, <1>9, <1>10, <1>11, <1>12, <1>13, ServerMoves

\* The task of c becomes x, and m sets out to c.
Answered(c, x, m) ==
  /\ task' = [task EXCEPT ![c] = x] /\ toServer' = [toServer EXCEPT ![c] = None]
  /\ toClient' = [toClient EXCEPT ![c] = Append(toClient[c], m)]

\* The answer to a request goes to the one who made it.
LEMMA AnswerGoes ==
  ASSUME TextSyncInv, NEW c \in Client, NEW x, NEW m,
         toServer[c] # None \/ Handled(c, task[c]), task[c].at # "broadcast",
         Task(log, c, x), ~Handled(c, x), x.at # "broadcast",
         Sendable(log, m), Answers(c, m), m.type # "text_edit",
         m.type = "cell_resync" => m.version = Len(log),
         Answered(c, x, m), cell' = cell, log' = log, client' = client, typed' = typed, astray' = astray
  PROVE  TextSyncInv'
<1>1. FunctionsInv /\ Committed(log, cell) /\ Len(log) \in Nat
  BY LogTexts DEF TextSyncInv
<1>2. PICK T, Q, C : T = task' /\ Q = toServer' /\ C = toClient'
  OBVIOUS
<1>3. T[c] = x /\ T = [e \in Client |-> T[e]] /\ \A e \in Client : e # c => T[e] = task[e]
  BY <1>1, <1>2 DEF FunctionsInv, Answered
<1>4. Q[c] = None /\ Q = [e \in Client |-> Q[e]] /\ \A e \in Client : e # c => Q[e] = toServer[e]
  BY <1>1, <1>2 DEF FunctionsInv, Answered
<1>5. /\ C[c] = Append(toClient[c], m) /\ C = [e \in Client |-> C[e]]
      /\ \A e \in Client : e # c => C[e] = toClient[e]
  BY <1>1, <1>2 DEF FunctionsInv, Answered
<1>6. ASSUME NEW e \in Client
      PROVE  /\ Served(log, e, client[e], toServer[e], task[e], toClient[e], astray)
             /\ Delivery(log, e, client[e], task, toClient[e], astray)
  BY DEF TextSyncInv, ServedInv
<1>7. ASSUME NEW e \in Client
      PROVE  Served(log, e, client[e], Q[e], T[e], C[e], astray)
  <2>1. CASE e = c
    <3>1. Served(log, c, client[c], None, x, Append(toClient[c], m), astray)
      BY <1>6, AnswerServed
    <3>2. QED
      BY <1>3, <1>4, <1>5, <2>1, <3>1
  <2>2. CASE e # c
    BY <1>3, <1>4, <1>5, <1>6, <2>2
  <2>3. QED
    BY <2>1, <2>2
<1>8. ASSUME NEW e \in Client
      PROVE  Delivery(log, e, client[e], T, C[e], astray)
  <2>1. client[e].version \in Nat /\ Messages(log, toClient[e])
    BY <1>1, <1>6 DEF Served, Store
  <2>2. Lengthened(log, toClient[e], C[e])
    <3>1. CASE e = c
      <4>1. Lengthened(log, toClient[c], Append(toClient[c], m))
        BY <2>1, <3>1, LengthenedByOne
      <4>2. QED
        BY <1>5, <3>1, <4>1
    <3>2. CASE e # c
      BY <1>5, <2>1, <3>2, LengthenedNot
    <3>3. QED
      BY <3>1, <3>2
  <2>3. \A k \in 1..Len(toClient[e]) :
          toClient[e][k].type = "cell_resync" => toClient[e][k].version \in Nat
    BY <1>1, <2>1 DEF Messages, Sendable
  <2>4. PassedOn(e, task, T, toClient[e], C[e])
    BY <1>3 DEF PassedOn, HasToSend
  <2>5. \A v \in Len(log) + 1..Len(log) : HasToSend(e, T, v)
    BY <1>1
  <2>6. QED
    BY <1>1, <1>6, <2>1, <2>2, <2>3, <2>4, <2>5, DeliveryGoes
<1>9. /\ Committed(log', cell')
      /\ \A e \in Client : /\ Served(log', e, client[e], Q[e], T[e], C[e], astray)
                           /\ Delivery(log', e, client[e], T, C[e], astray)
  BY <1>1, <1>7, <1>8
<1>10. QED
  BY <1>2, <1>3, <1>4, <1>5, <1>9, ServerMoves

LEMMA SendResyncKeepsText ==
  ASSUME TextSyncInv, NEW c \in Client, SendResync(c)
  PROVE  TextSyncInv'
<1>1. /\ FunctionsInv /\ Committed(log, cell) /\ Len(log) \in Nat
      /\ Served(log, c, client[c], toServer[c], task[c], toClient[c], astray)
  BY LogTexts DEF TextSyncInv, ServedInv
<1>2. PICK m : m = CellResync(task[c].content, cell.version)
  OBVIOUS
<1>3. /\ task[c].at = "resync"
      /\ toClient' = [toClient EXCEPT ![c] = Append(toClient[c], m)]
      /\ task' = [task EXCEPT ![c] = Idle]
      /\ cell' = cell /\ toServer' = toServer /\ client' = client /\ typed' = typed
      /\ log' = log /\ astray' = astray
  BY <1>1, <1>2 DEF SendResync, Deliver, SetTask, FunctionsInv
<1>4. /\ m.type = "cell_resync" /\ m.content = task[c].content /\ m.version = cell.version
  BY <1>2 DEF CellResync
<1>5. Sendable(log, m) /\ m.version = Len(log) /\ Answers(c, m)
  <2>1. cell.version = Len(log) /\ task[c].content \in Text
    BY <1>1, <1>3 DEF Committed, Served, Task
  <2>2. QED
    BY <1>1, <1>4, <2>1 DEF Sendable, Answers
<1>6. Handled(c, task[c]) /\ toServer[c] = None
  BY <1>1, <1>3 DEF Handled, Served, Once
<1>7. Task(log, c, Idle) /\ ~Handled(c, Idle) /\ Idle.at # "broadcast"
  BY DEF Task, Idle, Handled
<1>8. toServer' = [toServer EXCEPT ![c] = None]
  BY <1>1, <1>3, <1>6 DEF FunctionsInv
<1>9. QED
  BY <1>3, <1>4, <1>5, <1>6, <1>7, <1>8, AnswerGoes DEF Answered

LEMMA FailKeepsText ==
  ASSUME TextSyncInv, NEW c \in Client, Fail(c)
  PROVE  TextSyncInv'
<1>1. /\ FunctionsInv
      /\ Served(log, c, client[c], toServer[c], task[c], toClient[c], astray)
  BY DEF TextSyncInv, ServedInv
<1>2. /\ toServer[c] # None /\ task[c] = Idle
      /\ toServer' = [toServer EXCEPT ![c] = None]
  BY TakenRequest DEF Fail
<1>3. /\ toClient' = [toClient EXCEPT ![c] = Append(toClient[c], TextOperationFailed)]
      /\ cell' = cell /\ task' = task /\ client' = client /\ typed' = typed
      /\ log' = log /\ astray' = astray
  BY <1>1 DEF Fail, Deliver, FunctionsInv, serverVars
<1>4. /\ TextOperationFailed.type = "text_operation_failed"
      /\ Sendable(log, TextOperationFailed) /\ Answers(c, TextOperationFailed)
  BY DEF TextOperationFailed, Sendable, Answers
<1>5. Task(log, c, Idle) /\ ~Handled(c, Idle) /\ Idle.at # "broadcast"
  BY DEF Task, Idle, Handled
<1>6. task' = [task EXCEPT ![c] = Idle]
  BY <1>1, <1>2, <1>3 DEF FunctionsInv
<1>7. QED
  BY <1>2, <1>3, <1>4, <1>5, <1>6, AnswerGoes DEF Answered

\* The log, what each client holds of it, its request and what is on its way to it
\* fit together through every step of clients and server (useTextSync.ts,
\* notebookEngine.ts, receiveServerTextOperation; handler/notebook.rs,
\* handle_text_edit; broadcast.rs; resolver.rs:236-274).
THEOREM TextSyncInvariance == Spec => []TextSyncInv
<1>1. Init => TextSyncInv
  BY InitText
<1>2. TextSyncInv /\ [Next]_vars => TextSyncInv'
  <2>1. SUFFICES ASSUME TextSyncInv, [Next]_vars PROVE TextSyncInv'
    OBVIOUS
  <2>2. ASSUME NEW c \in Client, Type(c) PROVE TextSyncInv'
    BY <2>1, <2>2, TypeKeepsText
  <2>3. ASSUME NEW c \in Client, Flush(c) PROVE TextSyncInv'
    BY <2>1, <2>3, FlushKeepsText
  <2>4. ASSUME NEW c \in Client, Receive(c) PROVE TextSyncInv'
    BY <2>1, <2>4, ReceiveKeepsText
  <2>5. ASSUME NEW c \in Client, Handle(c) PROVE TextSyncInv'
    <3>1. CASE Commit(c)
      BY <2>1, <3>1, CommitKeepsText
    <3>2. CASE Send(c)
      BY <2>1, <3>2, SendKeepsText
    <3>3. CASE ReadContent(c)
      BY <2>1, <3>3, ReadContentKeepsText
    <3>4. CASE SendResync(c)
      BY <2>1, <3>4, SendResyncKeepsText
    <3>5. CASE Fail(c)
      BY <2>1, <3>5, FailKeepsText
    <3>6. QED
      BY <2>5, <3>1, <3>2, <3>3, <3>4, <3>5 DEF Handle
  <2>6. CASE UNCHANGED vars
    <3>1. /\ cell' = cell /\ task' = task /\ toServer' = toServer /\ toClient' = toClient
          /\ client' = client /\ typed' = typed /\ log' = log /\ astray' = astray
      BY <2>6 DEF vars
    <3>2. FunctionsInv'
      BY <2>1, <3>1 DEF TextSyncInv, FunctionsInv
    <3>3. \A c \in Client : ServedInv(c)'
      BY <2>1, <3>1 DEF TextSyncInv, ServedInv
    <3>4. QED
      BY <2>1, <3>1, <3>2, <3>3 DEF TextSyncInv
  <2>7. QED
    BY <2>1, <2>2, <2>3, <2>4, <2>5, <2>6 DEF Next
<1>3. QED
  BY <1>1, <1>2, PTL DEF Spec

\* To retain every character is to do nothing.
LEMMA RetainAll ==
  ASSUME NEW text \in Text
  PROVE  /\ Applicable(Times(Retain, Len(text)), text)
         /\ Apply(Times(Retain, Len(text)), text) = text
<1> DEFINE P == {t \in Text : /\ Times(Retain, Len(t)) \in Operation
                              /\ Applicable(Times(Retain, Len(t)), t)
                              /\ Apply(Times(Retain, Len(t)), t) = t}
<1>1. Retain \in Component
  BY ComponentKinds
<1>2. <<>> \in P
  <2>1. Times(Retain, 0) = <<>>
    BY <1>1, TimesFacts
  <2>2. /\ <<>> \in Text /\ <<>> \in Operation /\ Len(<<>>) = 0
        /\ Applicable(<<>>, <<>>) /\ Apply(<<>>, <<>>) = <<>>
    BY EmptyOnes, FitsCons, ApplyCons
  <2>3. QED
    BY <2>1, <2>2
<1>3. ASSUME NEW s \in P, NEW ch \in Char PROVE <<ch>> \o s \in P
  <2>1. PICK n, o, t : n = Len(s) /\ o = Times(Retain, n) /\ t = <<ch>> \o s
    OBVIOUS
  <2>2. s \in Text /\ n \in Nat /\ o \in Operation /\ Applicable(o, s) /\ Apply(o, s) = s
    BY <2>1, TextCases
  <2>3. t \in Text /\ Len(t) = n + 1
    BY <2>1, <2>2, ConsOfText
  <2>4. Times(Retain, n + 1) = <<Retain>> \o o
    BY <1>1, <2>1, <2>2, TimesFacts
  <2>5. PICK r : r = <<Retain>> \o o
    OBVIOUS
  <2>6. r \in Operation
    BY <1>1, <2>2, <2>5, ConsOfOperation
  <2>7. Applicable(r, t)
    BY <2>1, <2>2, <2>5, FitsCons
  <2>8. Apply(r, t) = t
    <3>1. s \in Text /\ o \in Operation
      BY <2>2
    <3>2. Apply(<<Retain>> \o o, <<ch>> \o s) = <<ch>> \o Apply(o, s)
      BY ONLY <3>1, ch \in Char, ApplyCons
    <3>3. QED
      BY <2>1, <2>2, <2>5, <3>2
  <2>9. Times(Retain, Len(t)) = r
    BY <2>3, <2>4, <2>5
  <2>10. t \in P
    BY <2>3, <2>6, <2>7, <2>8, <2>9
  <2>11. QED
    BY <2>1, <2>10
<1>4. P = Seq(Char)
  <2> HIDE DEF P
  <2>1. P \in SUBSET Seq(Char)
    BY DEF P, Text
  <2>2. QED
    BY <1>2, <1>3, <2>1, SequenceInduction
<1>5. text \in P
  BY <1>4 DEF Text
<1>6. QED
  BY <1>5

\* Texts, versions and operations are what they should be, whatever the clients do:
\* no client is ahead of the server, and no rebase makes something that is no
\* operation (resolver.rs:236-274, notebookEngine.ts).
THEOREM TypeOKAlways == Spec => []TypeOK
<1>1. TextSyncInv => TypeOK
  <2>1. SUFFICES ASSUME TextSyncInv PROVE TypeOK
    OBVIOUS
  <2>2. cell.content \in Text /\ cell.version = Len(log) /\ Len(log) \in Nat
    BY <2>1, LogTexts DEF TextSyncInv, Committed, WellKept
  <2>3. DOMAIN task = Client /\ typed \in 0..MaxTyped /\ astray \subseteq Client
    BY <2>1 DEF TextSyncInv, FunctionsInv
  <2>4. ASSUME NEW c \in Client
        PROVE  /\ task[c].at \in {"idle", "broadcast", "resync"}
               /\ client[c].content \in Text
               /\ client[c].version \in 0..cell.version
               /\ client[c].buffer \in Seq(Operation) /\ Len(client[c].buffer) <= 1
               /\ client[c].unconfirmed = None
                    \/ client[c].unconfirmed[1].operation \in Operation
               /\ Len(toServer[c]) <= 1
    <3>1. Served(log, c, client[c], toServer[c], task[c], toClient[c], astray)
      BY <2>1 DEF TextSyncInv, ServedInv
    <3>2. Store(log, client[c]) /\ task[c].at \in {"idle", "broadcast", "resync"}
      BY <3>1 DEF Served, Task
    <3>3. client[c].content \in Text /\ client[c].version \in 0..cell.version
      BY <2>2, <3>2 DEF Store
    <3>4. client[c].buffer \in Seq(Operation) /\ Len(client[c].buffer) <= 1
      <4>1. PICK b : b = client[c].buffer
        OBVIOUS
      <4>2. b = None \/ \E o \in Operation : b = <<o>>
        BY <3>2, <4>1 DEF Store
      <4>3. None \in Seq(Operation) /\ Len(None) = 0
        BY DEF None
      <4>4. \A o \in Operation : <<o>> \in Seq(Operation) /\ Len(<<o>>) = 1
        OBVIOUS
      <4>5. CASE b = None
        BY <4>1, <4>3, <4>5
      <4>6. CASE b # None
        <5>1. PICK o \in Operation : b = <<o>>
          BY <4>2, <4>6
        <5>2. b \in Seq(Operation) /\ Len(b) = 1
          BY <4>4, <5>1
        <5>3. QED
          BY <4>1, <5>2
      <4>7. QED
        BY <4>5, <4>6
    <3>5. client[c].unconfirmed = None \/ client[c].unconfirmed[1].operation \in Operation
      BY <3>2 DEF Store
    <3>6. Len(toServer[c]) <= 1
      <4>1. toServer[c] # None => Len(toServer[c]) = 1
        BY <3>1, RequestIs
      <4>2. Len(None) = 0
        BY DEF None
      <4>3. PICK n : n = Len(toServer[c])
        OBVIOUS
      <4>4. n = 1 \/ n = 0
        BY <4>1, <4>2, <4>3
      <4>5. n <= 1
        BY <4>4
      <4>6. QED
        BY <4>3, <4>5
    <3>7. QED
      BY <3>2, <3>3, <3>4, <3>5, <3>6
  <2>5. QED
    BY <2>2, <2>3, <2>4 DEF TypeOK
<1>2. QED
  BY <1>1, TextSyncInvariance, PTL

\* A client that has missed nothing shows the server's text of its version with its
\* own edits on top, the one in flight and those it buffers, whatever the others
\* have typed (notebookEngine.ts, receiveServerTextOperation).
THEOREM ClientOnServerTextAlways == Spec => []ClientOnServerText
<1>1. TextSyncInv => ClientOnServerText
  <2>1. SUFFICES ASSUME TextSyncInv, NEW c \in Client \ astray
                 PROVE  LET s == client[c]
                            server == TextAt(s.version)
                            mine == InFlightNow(c)
                            seen == Apply(mine[1], server)
                        IN  /\ mine # <<>> /\ Applicable(mine[1], server)
                            /\ IF s.buffer = None THEN s.content = seen
                               ELSE /\ Applicable(s.buffer[1], seen)
                                    /\ s.content = Apply(s.buffer[1], seen)
    BY DEF ClientOnServerText
  <2>2. PICK s, x, mine : s = client[c] /\ x = TextAt(s.version) /\ mine = InFlightNow(c)
    OBVIOUS
  <2>3. Served(log, c, s, toServer[c], task[c], toClient[c], astray) /\ Committed(log, cell)
    BY <2>1, <2>2 DEF TextSyncInv, ServedInv
  <2>4. OnTrack(log, s) /\ Store(log, s) /\ s.version \in 0..Len(log) /\ Len(log) \in Nat
    BY <2>1, <2>3, LogTexts DEF Served, Store
  <2>5. x = TextOf(log, s.version) /\ x \in Text
    BY <2>2, <2>3, <2>4, LogTexts DEF TextAt, TextOf
  <2>6. \E r : mine = <<r>> /\ Applicable(r, x) /\ Apply(r, x) = Mine(log, s)
    <3>1. CASE s.unconfirmed = None
      <4>1. mine = <<Times(Retain, Len(x))>>
        BY <2>2, <3>1 DEF InFlightNow
      <4>2. Applicable(Times(Retain, Len(x)), x) /\ Apply(Times(Retain, Len(x)), x) = x
        BY <2>5, RetainAll
      <4>3. Mine(log, s) = x
        BY <2>5, <3>1 DEF Mine
      <4>4. QED
        BY <4>1, <4>2, <4>3
    <3>2. CASE s.unconfirmed # None
      <4>1. PICK u : u = s.unconfirmed[1]
        OBVIOUS
      <4>2. /\ u.base \in 0..s.version /\ Fits(u.operation, TextOf(log, u.base))
        BY <2>4, <3>2, <4>1 DEF Store, OnTrack
      <4>3. u.base \in 0..Len(log) /\ s.version \in u.base..Len(log)
        BY <2>4, <4>2
      <4>4. PICK r \in Operation : /\ RebaseOver(SubSeq(log, u.base + 1, s.version), u.operation) = <<r>>
                                   /\ Fits(r, x)
        BY <2>3, <2>5, <4>2, <4>3, OverCommitted
      <4>5. mine = RebaseOver(SubSeq(log, u.base + 1, s.version), u.operation)
        BY <2>2, <3>2, <4>1 DEF InFlightNow
      <4>6. Mine(log, s) = Apply(RebaseOver(SubSeq(log, u.base + 1, s.version), u.operation)[1],
                                 TextOf(log, s.version))
        BY <3>2, <4>1 DEF Mine
      <4>7. Mine(log, s) = Apply(r, x)
        BY <2>5, <4>4, <4>6
      <4>8. QED
        BY <4>4, <4>5, <4>7 DEF Fits
    <3>3. QED
      BY <3>1, <3>2
  <2>7. PICK r : mine = <<r>> /\ Applicable(r, x) /\ Apply(r, x) = Mine(log, s)
    BY <2>6
  <2>8. mine # <<>> /\ mine[1] = r
    BY <2>7
  <2>9. IF s.buffer = None THEN s.content = Mine(log, s)
        ELSE /\ Applicable(s.buffer[1], Mine(log, s))
             /\ s.content = Apply(s.buffer[1], Mine(log, s))
    BY <2>4 DEF OnTrack, Fits
  <2>10. QED
    BY <2>2, <2>7, <2>8, <2>9
<1>2. QED
  BY <1>1, TextSyncInvariance, PTL

\* What such a client has sent can be transformed over whatever has been committed
\* since, unless the history has forgotten it (resolver.rs:244-262).
THEOREM RequestsFitAlways == Spec => []RequestsFit
<1>1. TextSyncInv => RequestsFit
  <2>1. SUFFICES ASSUME TextSyncInv, NEW c \in Client \ astray, toServer[c] # <<>>
                 PROVE  LET r == Head(toServer[c])
                        IN  TooOld(cell, r.base) \/ Accepts(cell, r.base, r.operation)
    BY DEF RequestsFit
  <2>2. PICK r, s : r = Head(toServer[c]) /\ s = client[c]
    OBVIOUS
  <2>3. /\ Served(log, c, s, toServer[c], task[c], toClient[c], astray) /\ Committed(log, cell)
        /\ toServer[c] # None
    BY <2>1, <2>2 DEF TextSyncInv, ServedInv, None
  <2>4. s.unconfirmed # None /\ r = s.unconfirmed[1] /\ r.base \in 0..s.version
        /\ s.version \in 0..Len(log)
    BY <2>2, <2>3, RequestIs
  <2>5. Fits(r.operation, TextOf(log, r.base))
    BY <2>1, <2>3, <2>4 DEF Served, OnTrack
  <2>6. Len(log) \in Nat
    BY <2>3, LogTexts
  <2>7. r.base \in 0..Len(log)
    BY <2>4, <2>6
  <2>8. ~TooOld(cell, r.base) => Accepts(cell, r.base, r.operation)
    BY <2>3, <2>5, <2>7, FittingAccepted
  <2>9. QED
    BY <2>2, <2>8
<1>2. QED
  BY <1>1, TextSyncInvariance, PTL

\* When nothing is on its way, the clients that have missed nothing show what the
\* server holds (docs/conflict-resolution.md; notebookEngine.ts, useTextSync.ts).
THEOREM TrackingClientsConvergeAlways == Spec => []TrackingClientsConverge
<1>1. TextSyncInv => TrackingClientsConverge
  <2>1. SUFFICES ASSUME TextSyncInv, Quiet, NEW c \in Client \ astray
                 PROVE  client[c].content = cell.content /\ client[c].version = cell.version
    BY DEF TrackingClientsConverge
  <2>2. PICK s : s = client[c]
    OBVIOUS
  <2>3. /\ Served(log, c, s, toServer[c], task[c], toClient[c], astray)
        /\ Delivery(log, c, s, task, toClient[c], astray) /\ Committed(log, cell)
    BY <2>1, <2>2 DEF TextSyncInv, ServedInv
  <2>4. /\ toServer[c] = None /\ toClient[c] = <<>> /\ s.buffer = None
        /\ \A d \in Client : task[d] = Idle /\ task[d].at = "idle"
    BY <2>1, <2>2 DEF Quiet, None, Idle
  <2>5. Len(toClient[c]) = 0
    BY <2>4
  <2>6. s.unconfirmed = None
    <3>1. ~Handled(c, task[c]) /\ \A n \in 1..Len(toClient[c]) : FALSE
      BY <2>4, <2>5 DEF Handled
    <3>2. QED
      BY <2>1, <2>3, <2>4, <3>1 DEF Served, NotLost
  <2>7. s.version = Len(log)
    <3>1. s.version \in 0..Len(log) /\ Len(log) \in Nat
      BY <2>3, LogTexts DEF Served, Store
    <3>2. ASSUME s.version < Len(log) PROVE FALSE
      <4>1. Len(log) \in s.version + 1..Len(log)
        BY <3>1, <3>2
      <4>2. OnItsWay(c, task, toClient[c], Len(log), 0)
        BY <2>1, <2>3, <4>1 DEF Delivery
      <4>3. QED
        BY <2>4, <2>5, <4>2 DEF OnItsWay
    <3>3. QED
      BY <3>1, <3>2
  <2>8. s.content = TextOf(log, s.version)
    BY <2>1, <2>3, <2>4, <2>6 DEF Served, OnTrack, Mine
  <2>9. QED
    BY <2>2, <2>3, <2>7, <2>8 DEF Committed
<1>2. QED
  BY <1>1, TextSyncInvariance, PTL

===============================================================================

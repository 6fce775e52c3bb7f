---------------------------- MODULE OrderSync_proofs ----------------------------
(***************************************************************************)
(* The safety properties of OrderSync, for any clients, cells and          *)
(* operations, however broadcasts overtake each other and whenever a       *)
(* client joins.                                                           *)
(*                                                                         *)
(* First EchoesMatchPending (IInv): what the operations make of a list     *)
(* does not matter to it.  Then the list alone (IndexedList), of which the *)
(* two maps mirror each other through any calls (Mirrored).  The rest      *)
(* brings both together (OrderInv): what the messages say of the lists,    *)
(* and what a client makes of them (ListsMirrored, ClientOnServerOrder,    *)
(* TrackingClientsConverge).                                               *)
(***************************************************************************)
EXTENDS OrderSync, IndexedList, SequenceFacts, WellFoundedInduction,
        FiniteSetTheorems

----------------------------------------------------------------------------
(* The inductive invariant.                                                *)

StoreFields ==
  {"session", "list", "cells", "pending", "version", "held", "seen", "astray"}

OperationTypes == {"cell_insert", "cell_delete", "cell_move"}

FormInv ==
  /\ order.version \in Nat
  /\ made \in [Client -> Nat]
  /\ client = [c \in Client |-> client[c]]
  /\ task = [c \in Client |-> task[c]]
  /\ toServer = [c \in Client |-> toServer[c]]
  /\ toClient = [c \in Client |-> toClient[c]]

StoreInv(c) ==
  /\ DOMAIN client[c] = StoreFields
  /\ client[c].session \in {"away", "joining", "joined"}
  /\ client[c].version \in 0..order.version
  /\ IsSequence(client[c].pending) /\ IsSequence(client[c].held)
  /\ IsSequence(toServer[c]) /\ IsSequence(toClient[c])

\* Who has not come yet has made nothing and is sent nothing.
AwayInv(c) ==
  client[c].session = "away" =>
    /\ client[c].list = EmptyList
    /\ client[c].pending = <<>> /\ client[c].held = <<>>
    /\ toServer[c] = <<>> /\ toClient[c] = <<>> /\ task[c].at = "idle"

HasAnswer(c) == task[c].at \in {"applied", "broadcast"}

\* The answer of c is still to be sent to c.
Sending(c) ==
  task[c].at = "applied" \/ (task[c].at = "broadcast" /\ c \in task[c].rest)

Reading(c) == task[c].at \in {"version", "state"}

TaskInv(c) ==
  /\ task[c].at \in {"idle", "applied", "broadcast", "version", "state"}
  /\ HasAnswer(c) =>
       /\ task[c].message.author = c
       /\ task[c].message.type \in OperationTypes
  /\ task[c].at = "broadcast" =>
       /\ DOMAIN task[c] = {"at", "message", "rest"}
       /\ \A d \in task[c].rest : d \in Client /\ Connected(d)
  /\ task[c].at = "state" => task[c].version \in 0..order.version

HasJoin(c) == toServer[c] # <<>> /\ toServer[c][1].type = "join"

\* Requests are numbered through, up to the last one made.
RequestsInv(c) ==
  \A i \in 1..Len(toServer[c]) :
    \/ i = 1 /\ HasJoin(c)
    \/ /\ toServer[c][i].type \in OperationTypes
       /\ toServer[c][i].id = <<c, made[c] - Len(toServer[c]) + i>>

States(c) == {i \in 1..Len(toClient[c]) : toClient[c][i].type = "full_state"}
Owns(c)   == {i \in 1..Len(toClient[c]) : IsOwn(c, toClient[c][i])}

\* A client that joins has asked to, and gets one state before any echo.
JoinInv(c) ==
  /\ client[c].session = "joining" => HasJoin(c) \/ Reading(c) \/ States(c) # {}
  /\ HasJoin(c) => task[c].at = "idle"
  /\ HasJoin(c) \/ Reading(c) =>
       client[c].session = "joining" /\ States(c) = {} /\ Owns(c) = {}
  /\ States(c) # {} => client[c].session = "joining"
  /\ \A i \in States(c) : /\ \A j \in States(c) : i = j
                          /\ \A j \in Owns(c) : i < j
  /\ \A i \in 1..Len(client[c].held) : client[c].held[i].author # c

NewerThan(c, v) ==
  /\ \A i \in Owns(c) : ~ (toClient[c][i].version <= v)
  /\ HasAnswer(c) => ~ (task[c].message.version <= v)

\* No echo is dropped as older than the state.
VersionsInv(c) ==
  /\ client[c].session = "joined" => NewerThan(c, client[c].version)
  /\ \A i \in States(c) : /\ toClient[c][i].version \in 0..order.version
                          /\ NewerThan(c, toClient[c][i].version)

\* The numbers of the last operation the server has taken, whose echo is on its
\* way, and whose echo has come.
Taken(c)  == made[c] - Len(toServer[c]) + IF HasJoin(c) THEN 1 ELSE 0
Echoed(c) == IF Sending(c) THEN Taken(c) - 1 ELSE Taken(c)
Settled(c)  == made[c] - Len(client[c].pending)

\* Echoes are numbered through.
EchoesInv(c) ==
  /\ Settled(c) \in Nat /\ Settled(c) <= Echoed(c)
  /\ \A k \in 1..Len(client[c].pending) : client[c].pending[k].id = <<c, Settled(c) + k>>
  /\ Sending(c) => task[c].message.id = <<c, Taken(c)>>
  /\ \A i \in Owns(c) : \E n \in Settled(c) + 1..Echoed(c) : toClient[c][i].id = <<c, n>>
  /\ \A i, j \in Owns(c) : i < j => toClient[c][i].id[2] < toClient[c][j].id[2]
  /\ \A n \in Settled(c) + 1..Echoed(c) : \E i \in Owns(c) : toClient[c][i].id = <<c, n>>

LocalInv(c) ==
  /\ StoreInv(c) /\ AwayInv(c) /\ TaskInv(c) /\ RequestsInv(c)
  /\ JoinInv(c) /\ VersionsInv(c) /\ EchoesInv(c)

IInv == FormInv /\ \A c \in Client : LocalInv(c)


----------------------------------------------------------------------------
(* The replay of what was held back.                                       *)

LEMMA LeastOf ==
  ASSUME NEW S \in SUBSET Nat, S # {}
  PROVE  \E m \in S : \A n \in S : m <= n
<1>1. PICK m \in S : \A n \in S : ~ (<<n, m>> \in OpToRel(<, Nat))
  BY WFMin, NatLessThanWellFounded
<1>2. \A n \in S : ~ (n < m)
  BY <1>1 DEF OpToRel
<1>3. \A n \in S : m <= n
  BY <1>2
<1>4. QED
  BY <1>3

Replaying(c, s, held, f, n) ==
  f = [k \in 0..n |-> IF k = 0 THEN s ELSE Noted(c, f[k - 1], held[k])]

LEMMA ReplayIsDefined ==
  ASSUME NEW c, NEW s, NEW held, NEW l \in Nat
  PROVE  \E f : Replaying(c, s, held, f, l)
<1> DEFINE bad == {n \in Nat : ~ \E f : Replaying(c, s, held, f, n)}
<1> SUFFICES ASSUME bad # {}
             PROVE  FALSE
  OBVIOUS
<1>1. PICK m \in bad : \A n \in bad : m <= n
  <2>1. bad \in SUBSET Nat
    OBVIOUS
  <2> HIDE DEF bad
  <2>2. QED
    BY <2>1, LeastOf
<1>2. CASE m = 0
  <2>1. PICK f : f = [k \in 0..0 |-> s]
    OBVIOUS
  <2>2. Replaying(c, s, held, f, 0)
    BY <2>1 DEF Replaying
  <2>3. QED
    BY <1>1, <1>2, <2>2
<1>3. CASE m # 0
  <2>1. m - 1 \in Nat /\ m \in Nat /\ ~ (m <= m - 1)
    BY <1>1, <1>3
  <2>2. m - 1 \notin bad
    BY <1>1, <2>1
  <2>3. PICK f : Replaying(c, s, held, f, m - 1)
    BY <2>1, <2>2
  <2>4. PICK g : g = [k \in 0..m |-> IF k = m THEN Noted(c, f[m - 1], held[m]) ELSE f[k]]
    OBVIOUS
  <2>5. \A k \in 0..m : g[k] = IF k = 0 THEN s ELSE Noted(c, g[k - 1], held[k])
    <3>1. \A k \in 0..m - 1 : f[k] = IF k = 0 THEN s ELSE Noted(c, f[k - 1], held[k])
      BY <2>3 DEF Replaying
    <3>2. \A k \in 0..m - 1 : g[k] = f[k] /\ (k # 0 => g[k - 1] = f[k - 1])
      BY <2>1, <2>4
    <3>3. g[m] = Noted(c, g[m - 1], held[m])
      BY <2>1, <2>4
    <3>4. QED
      BY <1>3, <2>1, <3>1, <3>2, <3>3
  <2>6. g = [k \in 0..m |-> g[k]]
    BY <2>4
  <2>7. Replaying(c, s, held, g, m)
    BY <2>5, <2>6 DEF Replaying
  <2>8. QED
    BY <1>1, <2>7
<1>4. QED
  BY <1>2, <1>3

\* Nothing but foreign messages was held back, so neither the pending operations
\* nor the version of the state change.
Like(s, t) ==
  /\ DOMAIN t = StoreFields
  /\ t.session = s.session /\ t.pending = s.pending
  /\ t.version = s.version /\ t.held = s.held

LEMMA NotedForeign ==
  ASSUME NEW c, NEW s, NEW m, DOMAIN s = StoreFields, m.author # c
  PROVE  Like(s, Noted(c, s, m))
<1>1. PICK u : u = Handled(c, s, m)
  OBVIOUS
<1>2. u = s \/ u = ForeignOperation(s, m)
  BY <1>1 DEF Handled
<1>3. Like(s, u)
  BY <1>2 DEF ForeignOperation, Like, StoreFields
<1>4. PICK a, b : Noted(c, s, m) = [u EXCEPT !.seen = a, !.astray = b]
  BY <1>1 DEF Noted
<1>5. QED
  BY <1>3, <1>4 DEF Like, StoreFields

LEMMA ReplayKeeps ==
  ASSUME NEW c, NEW s, NEW held, DOMAIN s = StoreFields, Len(held) \in Nat,
         \A i \in 1..Len(held) : held[i].author # c
  PROVE  Like(s, Replayed(c, s, held))
<1>1. PICK f : /\ f = [n \in 0..Len(held) |->
                         IF n = 0 THEN s ELSE Noted(c, f[n - 1], held[n])]
               /\ Replayed(c, s, held) = f[Len(held)]
  <2>1. PICK f : Replaying(c, s, held, f, Len(held))
    BY ReplayIsDefined
  <2>2. f = [n \in 0..Len(held) |-> IF n = 0 THEN s ELSE Noted(c, f[n - 1], held[n])]
    BY <2>1 DEF Replaying
  <2>3. QED
    BY <2>2 DEF Replayed
<1> DEFINE bad == {n \in 0..Len(held) : ~ Like(s, f[n])}
<1>2. bad \in SUBSET Nat
  OBVIOUS
<1>3. ASSUME bad # {}
      PROVE  FALSE
  <2>1. PICK m \in bad : \A n \in bad : m <= n
    <3> HIDE DEF bad
    <3>1. QED
      BY <1>2, <1>3, LeastOf
  <2>2. CASE m = 0
    <3>1. f[m] = s
      BY <1>1, <2>1, <2>2
    <3>2. QED
      BY <2>1, <3>1 DEF Like
  <2>3. CASE m # 0
    <3>1. m - 1 \in 0..Len(held) /\ m \in 1..Len(held) /\ ~ (m <= m - 1)
      BY <2>1, <2>3
    <3>2. Like(s, f[m - 1])
      BY <2>1, <3>1
    <3>3. f[m] = Noted(c, f[m - 1], held[m])
      BY <1>1, <2>3, <3>1
    <3>4. Like(f[m - 1], f[m])
      BY <3>1, <3>2, <3>3, NotedForeign DEF Like
    <3>5. Like(s, f[m])
      BY <3>2, <3>4 DEF Like
    <3>6. QED
      BY <2>1, <3>5
  <2>4. QED
    BY <2>2, <2>3
<1>4. Len(held) \in 0..Len(held)
  OBVIOUS
<1>5. Like(s, f[Len(held)])
  BY <1>3, <1>4
<1>6. QED
  BY <1>1, <1>5

----------------------------------------------------------------------------
(* What a step leaves alone.                                               *)

\* The server's messages to c stay what they are, but for foreign operations
\* behind them.
SameEchoes(c) ==
  /\ IsSequence(toClient'[c])
  /\ Owns(c)' = Owns(c) /\ States(c)' = States(c)
  /\ \A i \in Owns(c) \cup States(c) : toClient'[c][i] = toClient[c][i]

LEMMA UntouchedChannel ==
  ASSUME NEW c, IsSequence(toClient[c]), toClient'[c] = toClient[c]
  PROVE  SameEchoes(c)
BY DEF SameEchoes, Owns, States

LEMMA ForeignAppended ==
  ASSUME NEW c, IsSequence(toClient[c]), NEW m,
         m.type # "full_state", m.author # c,
         toClient'[c] = Append(toClient[c], m)
  PROVE  SameEchoes(c)
<1>1. PICK q, r : q = toClient[c] /\ r = toClient'[c]
  OBVIOUS
<1>2. /\ IsSequence(r) /\ Len(r) = Len(q) + 1 /\ Len(q) \in Nat
      /\ \A i \in 1..Len(q) : r[i] = q[i]
      /\ r[Len(q) + 1] = m
  <2>1. r = Append(q, m) /\ IsSequence(q)
    BY <1>1
  <2>2. QED
    BY <2>1, AppendIsSequence DEF IsSequence
<1>3. /\ \A i \in 1..Len(r) : IsOwn(c, r[i]) <=> i \in 1..Len(q) /\ IsOwn(c, q[i])
      /\ \A i \in 1..Len(r) : r[i].type = "full_state"
           <=> i \in 1..Len(q) /\ q[i].type = "full_state"
  BY <1>2 DEF IsOwn
<1>4. Owns(c)' = Owns(c) /\ States(c)' = States(c)
  <2>1. /\ {i \in 1..Len(r) : IsOwn(c, r[i])} = {i \in 1..Len(q) : IsOwn(c, q[i])}
        /\ {i \in 1..Len(r) : r[i].type = "full_state"}
             = {i \in 1..Len(q) : q[i].type = "full_state"}
    BY <1>2, <1>3
  <2>2. QED
    BY <1>1, <2>1 DEF Owns, States, IsOwn
<1>5. QED
  BY <1>1, <1>2, <1>4 DEF SameEchoes, Owns, States

Others(c) ==
  /\ client'[c] = client[c] /\ task'[c] = task[c]
  /\ toServer'[c] = toServer[c] /\ made'[c] = made[c]
  /\ SameEchoes(c)
  /\ client[c].session = "away" => toClient'[c] = toClient[c]
  /\ order'.version \in Nat /\ order.version <= order'.version
  /\ \A d \in Client : Connected(d) => Connected(d)'

LEMMA OthersKeep ==
  ASSUME NEW c \in Client, FormInv, LocalInv(c), Others(c)
  PROVE  LocalInv(c)'
<1> USE DEF Others
<1>1. StoreInv(c)'
  BY DEF LocalInv, StoreInv, FormInv, SameEchoes
<1>2. AwayInv(c)'
  BY DEF LocalInv, AwayInv
<1>3. TaskInv(c)'
  BY DEF LocalInv, TaskInv, FormInv, HasAnswer
<1>4. RequestsInv(c)'
  BY DEF LocalInv, RequestsInv, HasJoin
<1>5. JoinInv(c)'
  BY DEF LocalInv, JoinInv, HasJoin, Reading, SameEchoes
<1>6. VersionsInv(c)'
  BY DEF LocalInv, VersionsInv, NewerThan, HasAnswer, SameEchoes, FormInv
<1>7. EchoesInv(c)'
  <2>1. /\ Taken(c)' = Taken(c) /\ Settled(c)' = Settled(c) /\ Echoed(c)' = Echoed(c)
        /\ Sending(c)' <=> Sending(c)
    BY DEF Taken, Settled, Echoed, Sending, HasJoin
  <2>2. Owns(c)' = Owns(c) /\ \A i \in Owns(c) : toClient'[c][i] = toClient[c][i]
    BY DEF SameEchoes
  <2>3. EchoesInv(c)
    BY DEF LocalInv
  <2>4. Sending(c) => task'[c].message.id = <<c, Taken(c)>>
    BY <2>3 DEF EchoesInv
  <2>5. /\ \A i \in Owns(c) : \E n \in Settled(c) + 1..Echoed(c) : toClient'[c][i].id = <<c, n>>
        /\ \A i, j \in Owns(c) : i < j => toClient'[c][i].id[2] < toClient'[c][j].id[2]
        /\ \A n \in Settled(c) + 1..Echoed(c) : \E i \in Owns(c) : toClient'[c][i].id = <<c, n>>
    BY <2>2, <2>3 DEF EchoesInv
  <2>6. /\ Settled(c) \in Nat /\ Settled(c) <= Echoed(c)
        /\ \A k \in 1..Len(client'[c].pending) :
             client'[c].pending[k].id = <<c, Settled(c) + k>>
    BY <2>3 DEF EchoesInv
  <2>7. QED
    BY <2>1, <2>2, <2>4, <2>5, <2>6 DEF EchoesInv
<1>8. QED
  BY <1>1, <1>2, <1>3, <1>4, <1>5, <1>6, <1>7 DEF LocalInv

----------------------------------------------------------------------------
(* What the user of c does.                                                *)

\* Nothing of c but what an action is about.
ServerStays == order' = order /\ task' = task /\ toClient' = toClient

LEMMA ConnectKeeps ==
  ASSUME NEW c \in Client, FormInv, LocalInv(c), Connect(c)
  PROVE  LocalInv(c)' /\ Connected(c)'
<1>1. PICK s, q : s = client[c] /\ q = toServer'[c]
  OBVIOUS
<1>2. /\ q = <<Join>> /\ IsSequence(q) /\ Len(q) = 1 /\ q # <<>> /\ q[1].type = "join"
  <2>1. q = <<Join>>
    BY <1>1 DEF Connect, FormInv
  <2>2. QED
    BY <2>1 DEF IsSequence, Join
<1>3. /\ client'[c] = [s EXCEPT !.session = "joining"]
      /\ DOMAIN s = StoreFields
      /\ s.session = "away" /\ s.pending = <<>> /\ s.held = <<>>
      /\ toServer[c] = <<>> /\ toClient[c] = <<>> /\ task[c].at = "idle"
  BY <1>1 DEF Connect, Connected, FormInv, LocalInv, StoreInv, AwayInv
<1>4. /\ client'[c].session = "joining" /\ client'[c].pending = <<>>
      /\ client'[c].held = <<>> /\ client'[c].version = s.version
      /\ DOMAIN client'[c] = StoreFields
  BY <1>3 DEF StoreFields
<1>5. ServerStays /\ made' = made
  BY DEF Connect, ServerStays
<1> USE <1>1, <1>2, <1>3, <1>4, <1>5
<1>6. StoreInv(c)'
  BY DEF LocalInv, StoreInv, ServerStays
<1>7. AwayInv(c)'
  BY DEF AwayInv
<1>8. TaskInv(c)'
  BY DEF LocalInv, TaskInv, HasAnswer, ServerStays
<1>9. RequestsInv(c)'
  BY DEF RequestsInv, HasJoin
<1>10. Owns(c)' = {} /\ States(c)' = {} /\ Owns(c) = {} /\ States(c) = {}
  BY DEF Owns, States, ServerStays
<1>11. JoinInv(c)'
  BY <1>10 DEF JoinInv, HasJoin, Reading, ServerStays
<1>12. VersionsInv(c)'
  BY <1>10 DEF VersionsInv
<1>13. EchoesInv(c)'
  <2>1. /\ ~ Sending(c) /\ ~ Sending(c)' /\ ~ HasJoin(c) /\ HasJoin(c)'
    BY DEF Sending, HasJoin, ServerStays
  <2>2. /\ Taken(c)' = made[c] /\ Echoed(c)' = made[c] /\ Settled(c)' = made[c]
        /\ made[c] \in Nat
    BY <2>1 DEF Taken, Echoed, Settled, FormInv
  <2>3. QED
    BY <1>10, <2>1, <2>2 DEF EchoesInv
<1>14. Connected(c)'
  BY DEF Connected
<1>15. QED
  BY <1>6, <1>7, <1>8, <1>9, <1>11, <1>12, <1>13, <1>14 DEF LocalInv

LEMMA MakeKeeps ==
  ASSUME NEW c \in Client, FormInv, LocalInv(c), NEW op, Make(c, op),
         Connected(c), op.type \in OperationTypes, op.id = NewId(c)
  PROVE  LocalInv(c)' /\ Connected(c)'
<1>1. PICK s, p, q, p2, q2 :
        /\ s = client[c] /\ p = s.pending /\ q = toServer[c]
        /\ p2 = client'[c].pending /\ q2 = toServer'[c]
  OBVIOUS
<1>2. DOMAIN s = StoreFields /\ IsSequence(p) /\ IsSequence(q) /\ made[c] \in Nat
  BY <1>1 DEF FormInv, LocalInv, StoreInv
<1>3. PICK l, cells : client'[c] = [s EXCEPT !.list = l, !.cells = cells,
                                             !.pending = Append(p, op)]
  BY <1>1 DEF Make, FormInv
<1>4. /\ client'[c].session = s.session /\ client'[c].held = s.held
      /\ client'[c].version = s.version /\ DOMAIN client'[c] = StoreFields
      /\ p2 = Append(p, op)
  BY <1>1, <1>2, <1>3 DEF StoreFields
<1>5. /\ q2 = Append(q, op) /\ made'[c] = made[c] + 1 /\ ServerStays
  BY <1>1 DEF Make, FormInv, ServerStays
<1>6. /\ IsSequence(p2) /\ Len(p2) = Len(p) + 1 /\ Len(p) \in Nat
      /\ \A i \in 1..Len(p) : p2[i] = p[i]
      /\ p2[Len(p) + 1] = op
  BY <1>2, <1>4, AppendIsSequence DEF IsSequence
<1>7. /\ IsSequence(q2) /\ Len(q2) = Len(q) + 1 /\ Len(q) \in Nat
      /\ \A i \in 1..Len(q) : q2[i] = q[i]
      /\ q2[Len(q) + 1] = op
  BY <1>2, <1>5, AppendIsSequence DEF IsSequence
<1>8. op.id = <<c, made[c] + 1>> /\ op.type # "join"
  BY DEF NewId, OperationTypes
<1>9. q2 # <<>> /\ (q = <<>> <=> Len(q) = 0)
  <2>1. q2 # <<>>
    BY <1>7
  <2>2. q = <<>> <=> Len(q) = 0
    BY <1>2 DEF IsSequence
  <2>3. QED
    BY <2>1, <2>2
<1>10. HasJoin(c)' <=> HasJoin(c)
  BY <1>1, <1>7, <1>8, <1>9 DEF HasJoin
<1>11. StoreInv(c)'
  BY <1>1, <1>4, <1>5, <1>6, <1>7 DEF LocalInv, StoreInv, ServerStays
<1>12. AwayInv(c)' /\ Connected(c)'
  BY <1>1, <1>4 DEF AwayInv, Connected
<1>13. TaskInv(c)'
  <2>1. \A d \in Client : Connected(d) => Connected(d)'
    <3>1. \A d \in Client : d # c => client'[d] = client[d]
      BY DEF Make, FormInv
    <3>2. QED
      BY <1>1, <1>4, <3>1 DEF Connected
  <2>2. QED
    BY <2>1, <1>5 DEF LocalInv, TaskInv, HasAnswer, ServerStays
<1>14. RequestsInv(c)'
  <2> SUFFICES ASSUME NEW i \in 1..Len(q2)
               PROVE  \/ i = 1 /\ HasJoin(c)'
                      \/ /\ q2[i].type \in OperationTypes
                         /\ q2[i].id = <<c, made'[c] - Len(q2) + i>>
    BY <1>1 DEF RequestsInv
  <2>1. CASE i = Len(q) + 1
    <3>1. made'[c] - Len(q2) + i = made[c] + 1
      BY <1>2, <1>5, <1>7, <2>1
    <3>2. QED
      BY <1>7, <1>8, <2>1, <3>1
  <2>2. CASE i \in 1..Len(q)
    <3>1. made'[c] - Len(q2) + i = made[c] - Len(q) + i
      BY <1>2, <1>5, <1>7
    <3>2. QED
      BY <1>1, <1>7, <1>10, <2>2, <3>1 DEF LocalInv, RequestsInv
  <2>3. QED
    BY <1>7, <2>1, <2>2
<1>15. SameEchoes(c)
  BY <1>5, UntouchedChannel DEF LocalInv, StoreInv, ServerStays
<1>16. JoinInv(c)'
  BY <1>1, <1>4, <1>5, <1>10, <1>15
     DEF LocalInv, JoinInv, Reading, SameEchoes, ServerStays
<1>17. VersionsInv(c)'
  BY <1>1, <1>4, <1>5, <1>15
     DEF LocalInv, VersionsInv, NewerThan, HasAnswer, SameEchoes, ServerStays
<1>18. EchoesInv(c)'
  <2>1. Sending(c)' <=> Sending(c)
    BY <1>5 DEF Sending, ServerStays
  <2>2. /\ Taken(c)' = Taken(c) /\ Settled(c)' = Settled(c) /\ Echoed(c)' = Echoed(c)
    <3>1. Taken(c)' = Taken(c)
      <4>1. (IF HasJoin(c)' THEN 1 ELSE 0) = IF HasJoin(c) THEN 1 ELSE 0
        BY <1>10
      <4>2. PICK h \in {0, 1} : h = IF HasJoin(c) THEN 1 ELSE 0
        OBVIOUS
      <4>3. Taken(c) = made[c] - Len(q) + h
        BY <1>1, <4>2 DEF Taken
      <4>4. Taken(c)' = made'[c] - Len(q2) + h
        BY <1>1, <4>1, <4>2 DEF Taken
      <4>5. QED
        BY <1>2, <1>5, <1>7, <4>2, <4>3, <4>4
    <3>2. Settled(c)' = Settled(c)
      <4>1. Settled(c) = made[c] - Len(p) /\ Settled(c)' = made'[c] - Len(p2)
        BY <1>1 DEF Settled
      <4>2. QED
        BY <1>2, <1>5, <1>6, <4>1
    <3>3. Echoed(c)' = Echoed(c)
      BY <2>1, <3>1 DEF Echoed
    <3>4. QED
      BY <3>1, <3>2, <3>3
  <2>3. EchoesInv(c)
    BY DEF LocalInv
  <2>4. \A k \in 1..Len(p2) : p2[k].id = <<c, Settled(c) + k>>
    <3>1. \A k \in 1..Len(p) : p2[k].id = <<c, Settled(c) + k>>
      BY <1>1, <1>6, <2>3 DEF EchoesInv
    <3>2. Settled(c) + Len(p2) = made[c] + 1
      BY <1>1, <1>2, <1>6 DEF Settled
    <3>3. p2[Len(p2)].id = <<c, Settled(c) + Len(p2)>>
      BY <1>6, <1>8, <3>2
    <3>4. QED
      BY <1>6, <3>1, <3>3
  <2>5. QED
    BY <1>1, <1>5, <1>15, <2>1, <2>2, <2>3, <2>4 DEF EchoesInv, SameEchoes, ServerStays
<1>19. QED
  BY <1>11, <1>12, <1>13, <1>14, <1>16, <1>17, <1>18 DEF LocalInv

LEMMA ActKeeps ==
  ASSUME NEW c \in Client, FormInv, LocalInv(c), Act(c)
  PROVE  /\ LocalInv(c)' /\ Connected(c)' /\ UNCHANGED <<order, task, toClient>>
         /\ \A d \in Client : d # c => /\ client'[d] = client[d] /\ made'[d] = made[d]
                                       /\ toServer'[d] = toServer[d]
<1>1. CASE Connect(c)
  <2>1. LocalInv(c)' /\ Connected(c)'
    BY <1>1, ConnectKeeps
  <2>2. /\ UNCHANGED <<order, task, toClient>>
        /\ \A d \in Client : d # c => /\ client'[d] = client[d] /\ made'[d] = made[d]
                                      /\ toServer'[d] = toServer[d]
    BY <1>1 DEF Connect, FormInv
  <2>3. QED
    BY <2>1, <2>2
<1>2. CASE InsertCell(c) \/ DeleteCell(c) \/ MoveCell(c)
  <2>1. PICK op : Make(c, op) /\ op.type \in OperationTypes /\ op.id = NewId(c)
    <3>1. PICK kind, cell, i : /\ kind \in OperationTypes
                                 /\ Make(c, Operation(NewId(c), kind, cell, i))
      <4>1. CASE InsertCell(c)
        BY <4>1 DEF InsertCell, OperationTypes
      <4>2. CASE DeleteCell(c)
        BY <4>2 DEF DeleteCell, OperationTypes
      <4>3. CASE MoveCell(c)
        BY <4>3 DEF MoveCell, OperationTypes
      <4>4. QED
        BY <1>2, <4>1, <4>2, <4>3
    <3>2. PICK op : op = Operation(NewId(c), kind, cell, i)
      OBVIOUS
    <3>3. op.type = kind /\ op.id = NewId(c)
      BY <3>2 DEF Operation
    <3>4. QED
      BY <3>1, <3>2, <3>3
  <2>2. Connected(c)
    <3>1. CASE InsertCell(c)
      BY <3>1 DEF InsertCell
    <3>2. CASE DeleteCell(c) \/ MoveCell(c)
      <4>1. Ids(client[c].list) # {}
        BY <3>2 DEF DeleteCell, MoveCell
      <4>2. Ids(EmptyList) = {}
        BY DEF Ids, EmptyList
      <4>3. QED
        BY <4>1, <4>2 DEF LocalInv, AwayInv, Connected
    <3>3. QED
      BY <1>2, <3>1, <3>2
  <2>3. LocalInv(c)' /\ Connected(c)'
    BY <2>1, <2>2, MakeKeeps
  <2>4. /\ UNCHANGED <<order, task, toClient>>
        /\ \A d \in Client : d # c => /\ client'[d] = client[d] /\ made'[d] = made[d]
                                      /\ toServer'[d] = toServer[d]
    BY <2>1 DEF Make, FormInv
  <2>5. QED
    BY <2>3, <2>4
<1>3. QED
  BY <1>1, <1>2 DEF Act

----------------------------------------------------------------------------
(* What the server does for c.                                             *)

\* Behind the first request there are only operations.
LEMMA NextRequest ==
  ASSUME NEW c \in Client, FormInv, LocalInv(c), Takes(c)
  PROVE  /\ task[c].at = "idle" /\ Connected(c) /\ IsSequence(toServer'[c])
         /\ Len(toServer[c]) \in Nat /\ Len(toServer'[c]) = Len(toServer[c]) - 1
         /\ RequestsInv(c) => ~ HasJoin(c)'
         /\ made' = made => RequestsInv(c)'
<1>1. PICK q, r : q = toServer[c] /\ r = toServer'[c]
  OBVIOUS
<1>2. /\ IsSequence(q) /\ q # <<>> /\ r = Tail(q) /\ task[c] = Idle
  BY <1>1 DEF Takes, FormInv, LocalInv, StoreInv
<1>3. Len(q) > 0 /\ Len(q) \in Nat
  BY <1>2 DEF IsSequence
<1>4. /\ IsSequence(r) /\ Len(r) = Len(q) - 1
      /\ \A i \in 1..Len(q) - 1 : r[i] = q[i + 1]
  BY <1>2, <1>3, TailIsSequence
<1>5. \A i \in 2..Len(q) : /\ q[i].type \in OperationTypes
                           /\ q[i].id = <<c, made[c] - Len(q) + i>>
  BY <1>1, <1>3 DEF LocalInv, RequestsInv
<1>6. \A i \in 1..Len(r) : /\ r[i].type \in OperationTypes
                           /\ r[i].id = <<c, made[c] - Len(r) + i>>
  <2> SUFFICES ASSUME NEW i \in 1..Len(r)
               PROVE  /\ r[i].type \in OperationTypes
                      /\ r[i].id = <<c, made[c] - Len(r) + i>>
    OBVIOUS
  <2>1. i + 1 \in 2..Len(q) /\ r[i] = q[i + 1]
    BY <1>3, <1>4
  <2>2. made[c] - Len(q) + (i + 1) = made[c] - Len(r) + i
    BY <1>3, <1>4 DEF FormInv
  <2>3. QED
    BY <1>5, <2>1, <2>2
<1>7. ~ HasJoin(c)'
  <2>1. r # <<>> => Len(r) > 0
    BY <1>4 DEF IsSequence
  <2>2. r # <<>> => r[1].type # "join"
    BY <1>3, <1>4, <1>6, <2>1 DEF OperationTypes
  <2>3. QED
    BY <1>1, <2>2 DEF HasJoin
<1>8. made' = made => RequestsInv(c)'
  BY <1>1, <1>6 DEF RequestsInv
<1>9. task[c].at = "idle" /\ Connected(c)
  BY <1>1, <1>2 DEF Idle, LocalInv, AwayInv, Connected
<1>10. QED
  BY <1>1, <1>3, <1>4, <1>7, <1>8, <1>9


LEMMA ApplyKeeps ==
  ASSUME NEW c \in Client, FormInv, LocalInv(c), ApplyOperation(c)
  PROVE  LocalInv(c)'
<1>1. PICK q : q = toServer[c]
  OBVIOUS
<1>2. PICK op, t : /\ op = Head(q) /\ t = task'[c] /\ op.type # "join"
                   /\ order'.version = order.version + 1
                   /\ t = Applied(Confirmed(op, order.list, c, order'.version))
  BY <1>1 DEF ApplyOperation, OrderAfter, SetTask, FormInv
<1>3. /\ t.at = "applied" /\ t.message.author = c /\ t.message.id = op.id
      /\ t.message.type = op.type /\ t.message.version = order.version + 1
  BY <1>2 DEF Applied, Confirmed
<1>4. /\ Takes(c) /\ UNCHANGED <<toClient, client, made>> /\ order.version \in Nat
      /\ made[c] \in Nat
  BY DEF ApplyOperation, FormInv
<1>5. /\ task[c].at = "idle" /\ Connected(c) /\ IsSequence(toServer'[c])
      /\ Len(q) \in Nat /\ Len(toServer'[c]) = Len(q) - 1
      /\ ~ HasJoin(c)' /\ RequestsInv(c)'
  BY <1>1, <1>4, NextRequest DEF LocalInv
<1>6. /\ ~ HasJoin(c) /\ op.type \in OperationTypes
      /\ op.id = <<c, made[c] - Len(q) + 1>>
  <2>1. q # <<>> /\ op = q[1] /\ IsSequence(q)
    BY <1>1, <1>2, <1>4 DEF Takes, LocalInv, StoreInv
  <2>2. Len(q) > 0
    BY <2>1 DEF IsSequence
  <2>3. ~ HasJoin(c)
    BY <1>1, <1>2, <2>1 DEF HasJoin
  <2>4. QED
    BY <1>1, <1>5, <2>1, <2>2, <2>3 DEF LocalInv, RequestsInv
<1>7. StoreInv(c)'
  BY <1>2, <1>4, <1>5 DEF LocalInv, StoreInv
<1>8. AwayInv(c)'
  BY <1>4, <1>5 DEF AwayInv, Connected
<1>9. TaskInv(c)'
  BY <1>2, <1>3, <1>6 DEF TaskInv, HasAnswer
<1>10. SameEchoes(c)
  BY <1>4, UntouchedChannel DEF LocalInv, StoreInv
<1>11. JoinInv(c)'
  <2>1. JoinInv(c) /\ ~ HasJoin(c) /\ ~ HasJoin(c)'
    BY <1>5, <1>6 DEF LocalInv
  <2>2. ~ Reading(c) /\ ~ Reading(c)'
    BY <1>2, <1>3, <1>5 DEF Reading
  <2>3. QED
    BY <1>4, <1>10, <2>1, <2>2 DEF JoinInv, SameEchoes
<1>12. VersionsInv(c)'
  <2>1. ~ (order.version + 1 <= client[c].version)
    BY <1>4 DEF LocalInv, StoreInv
  <2>2. \A i \in States(c) : ~ (order.version + 1 <= toClient[c][i].version)
    BY <1>4 DEF LocalInv, VersionsInv
  <2>3. QED
    BY <1>2, <1>3, <1>4, <1>10, <2>1, <2>2
       DEF LocalInv, VersionsInv, NewerThan, HasAnswer, SameEchoes
<1>13. EchoesInv(c)'
  <2>1. Sending(c)' /\ ~ Sending(c)
    BY <1>2, <1>3, <1>5 DEF Sending
  <2>2. Taken(c) = made[c] - Len(q) /\ Taken(c)' = made[c] - Len(toServer'[c])
    <3>1. Taken(c) = made[c] - Len(q) + 0 /\ Taken(c)' = made'[c] - Len(toServer'[c]) + 0
      BY <1>1, <1>5, <1>6 DEF Taken
    <3>2. QED
      BY <1>4, <1>5, <3>1
  <2>3. /\ Taken(c)' = Taken(c) + 1 /\ Taken(c) \in Int /\ Settled(c)' = Settled(c)
    BY <1>4, <1>5, <2>2 DEF Settled
  <2>4. Echoed(c)' = Echoed(c)
    BY <2>1, <2>3 DEF Echoed
  <2>5. task'[c].message.id = <<c, Taken(c)'>>
    <3>1. made[c] - Len(q) + 1 = Taken(c)'
      BY <1>4, <1>5, <2>2
    <3>2. QED
      BY <1>2, <1>3, <1>6, <3>1
  <2>6. EchoesInv(c)
    BY DEF LocalInv
  <2>7. QED
    BY <1>4, <1>10, <2>1, <2>3, <2>4, <2>5, <2>6 DEF EchoesInv, SameEchoes
<1>14. QED
  BY <1>5, <1>7, <1>8, <1>9, <1>11, <1>12, <1>13 DEF LocalInv

\* An answer is passed on as it is.
LEMMA BeginBroadcastKeeps ==
  ASSUME NEW c \in Client, FormInv, LocalInv(c), BeginBroadcast(c)
  PROVE  LocalInv(c)'
<1>1. PICK t : t = task'[c] /\ t = Broadcasting(task[c].message, Recipients(c))
  BY DEF BeginBroadcast, SetTask, FormInv
<1>2. /\ t.at = "broadcast" /\ t.message = task[c].message /\ t.rest = Recipients(c)
      /\ DOMAIN t = {"at", "message", "rest"}
  BY <1>1 DEF Broadcasting
<1>3. task[c].at = "applied" /\ UNCHANGED <<order, toServer, toClient, client, made>>
  BY DEF BeginBroadcast
<1>4. c \in Recipients(c)
  BY <1>3 DEF LocalInv, AwayInv, Recipients, Connected
<1>5. SameEchoes(c)
  BY <1>3, UntouchedChannel DEF LocalInv, StoreInv
<1> USE <1>3
<1>6. StoreInv(c)' /\ AwayInv(c)' /\ RequestsInv(c)'
  <2>1. StoreInv(c)' /\ RequestsInv(c)'
    BY DEF LocalInv, StoreInv, RequestsInv, HasJoin
  <2>2. AwayInv(c)'
    BY DEF LocalInv, AwayInv
  <2>3. QED
    BY <2>1, <2>2
<1>7. TaskInv(c)'
  BY <1>1, <1>2 DEF LocalInv, TaskInv, HasAnswer, Recipients, Connected
<1>8. JoinInv(c)'
  <2>1. ~ HasJoin(c) /\ ~ HasJoin(c)' /\ ~ Reading(c) /\ ~ Reading(c)'
    BY <1>1, <1>2 DEF LocalInv, JoinInv, HasJoin, Reading
  <2>2. QED
    BY <1>5, <2>1 DEF LocalInv, JoinInv, SameEchoes
<1>9. VersionsInv(c)'
  BY <1>1, <1>2, <1>5 DEF LocalInv, VersionsInv, NewerThan, HasAnswer, SameEchoes
<1>10. EchoesInv(c)'
  <2>1. Sending(c) /\ Sending(c)'
    BY <1>1, <1>2, <1>4 DEF Sending
  <2>2. Taken(c)' = Taken(c) /\ Settled(c)' = Settled(c)
    BY DEF Taken, Settled, HasJoin
  <2>3. Echoed(c)' = Echoed(c)
    BY <2>1, <2>2 DEF Echoed
  <2>4. EchoesInv(c)
    BY DEF LocalInv
  <2>5. QED
    BY <1>1, <1>2, <1>5, <2>1, <2>2, <2>3, <2>4 DEF EchoesInv, SameEchoes
<1>11. QED
  BY <1>6, <1>7, <1>8, <1>9, <1>10 DEF LocalInv

\* The task of c after it has sent the answer to d.
Rest(c, d) == IF task[c].rest = {d} THEN Idle ELSE [task[c] EXCEPT !.rest = @ \ {d}]

LEMMA SentTo ==
  ASSUME NEW c \in Client, LocalInv(c), task[c].at = "broadcast", NEW d,
         NEW t, t = Rest(c, d)
  PROVE  /\ t.at \in {"idle", "broadcast"}
         /\ t.at = "broadcast" =>
              /\ t.message = task[c].message
              /\ t.rest = task[c].rest \ {d}
              /\ DOMAIN t = {"at", "message", "rest"}
         /\ t.at = "idle" => task[c].rest \subseteq {d}
<1>1. CASE task[c].rest = {d}
  BY <1>1 DEF Rest, Idle
<1>2. CASE task[c].rest # {d}
  <2>1. DOMAIN task[c] = {"at", "message", "rest"}
    BY DEF LocalInv, TaskInv
  <2>2. t = [task[c] EXCEPT !.rest = @ \ {d}]
    BY <1>2 DEF Rest
  <2>3. t.at = "broadcast" /\ t.message = task[c].message /\ t.rest = task[c].rest \ {d}
        /\ DOMAIN t = {"at", "message", "rest"}
    BY <2>1, <2>2
  <2>4. QED
    BY <2>3
<1>3. QED
  BY <1>1, <1>2

LEMMA SendToOtherKeeps ==
  ASSUME NEW c \in Client, FormInv, LocalInv(c), task[c].at = "broadcast", NEW d,
         d # c, task'[c] = Rest(c, d), toClient'[c] = toClient[c],
         UNCHANGED <<order, toServer, client, made>>
  PROVE  LocalInv(c)'
<1>1. PICK t : t = task'[c] /\ t = Rest(c, d)
  OBVIOUS
<1>2. /\ t.at \in {"idle", "broadcast"}
      /\ t.at = "broadcast" => /\ t.message = task[c].message
                               /\ t.rest = task[c].rest \ {d}
                               /\ DOMAIN t = {"at", "message", "rest"}
      /\ t.at = "idle" => task[c].rest \subseteq {d}
  BY <1>1, SentTo
<1>3. SameEchoes(c)
  BY UntouchedChannel DEF LocalInv, StoreInv
<1>4. StoreInv(c)' /\ RequestsInv(c)'
  BY DEF LocalInv, StoreInv, RequestsInv, HasJoin
<1>5. AwayInv(c)'
  BY DEF LocalInv, AwayInv
<1>6. TaskInv(c)'
  BY <1>1, <1>2 DEF LocalInv, TaskInv, HasAnswer, Connected
<1>7. JoinInv(c)'
  <2>1. ~ HasJoin(c) /\ ~ HasJoin(c)' /\ ~ Reading(c) /\ ~ Reading(c)'
    BY <1>1, <1>2 DEF LocalInv, JoinInv, HasJoin, Reading
  <2>2. QED
    BY <1>3, <2>1 DEF LocalInv, JoinInv, SameEchoes
<1>8. VersionsInv(c)'
  BY <1>1, <1>2, <1>3 DEF LocalInv, VersionsInv, NewerThan, HasAnswer, SameEchoes
<1>9. EchoesInv(c)'
  <2>1. Sending(c)' <=> Sending(c)
    BY <1>1, <1>2 DEF Sending
  <2>2. Taken(c)' = Taken(c) /\ Settled(c)' = Settled(c)
    BY DEF Taken, Settled, HasJoin
  <2>3. Echoed(c)' = Echoed(c)
    BY <2>1, <2>2 DEF Echoed
  <2>4. Sending(c)' => task'[c].message = task[c].message
    BY <1>1, <1>2 DEF Sending
  <2>5. EchoesInv(c)
    BY DEF LocalInv
  <2>6. QED
    BY <1>3, <2>1, <2>2, <2>3, <2>4, <2>5 DEF EchoesInv, SameEchoes
<1>10. QED
  BY <1>4, <1>5, <1>6, <1>7, <1>8, <1>9 DEF LocalInv

LEMMA SendBackKeeps ==
  ASSUME NEW c \in Client, FormInv, LocalInv(c), task[c].at = "broadcast",
         c \in task[c].rest, task'[c] = Rest(c, c),
         toClient'[c] = Append(toClient[c], task[c].message),
         UNCHANGED <<order, toServer, client, made>>
  PROVE  LocalInv(c)'
<1>1. PICK t : t = task'[c] /\ t = Rest(c, c)
  OBVIOUS
<1>2. /\ t.at \in {"idle", "broadcast"}
      /\ t.at = "broadcast" => /\ t.message = task[c].message
                               /\ t.rest = task[c].rest \ {c}
                               /\ DOMAIN t = {"at", "message", "rest"}
      /\ t.at = "idle" => task[c].rest \subseteq {c}
  BY <1>1, SentTo
<1>3. PICK q, r, m : q = toClient[c] /\ r = toClient'[c] /\ m = task[c].message
  OBVIOUS
<1>4. /\ IsSequence(r) /\ Len(r) = Len(q) + 1 /\ Len(q) \in Nat
      /\ \A i \in 1..Len(q) : r[i] = q[i]
      /\ r[Len(q) + 1] = m
  <2>1. r = Append(q, m) /\ IsSequence(q)
    BY <1>3 DEF LocalInv, StoreInv
  <2>2. QED
    BY <2>1, AppendIsSequence DEF IsSequence
<1>5. /\ IsOwn(c, m) /\ m.type \in OperationTypes /\ m.id = <<c, Taken(c)>>
      /\ Sending(c) /\ HasAnswer(c)
  BY <1>3 DEF LocalInv, TaskInv, HasAnswer, IsOwn, OperationTypes, EchoesInv, Sending
<1>6. /\ States(c)' = States(c) /\ Owns(c)' = Owns(c) \cup {Len(q) + 1}
      /\ Owns(c) \cup States(c) \subseteq 1..Len(q)
  <2>1. /\ {i \in 1..Len(r) : r[i].type = "full_state"}
             = {i \in 1..Len(q) : q[i].type = "full_state"}
        /\ {i \in 1..Len(r) : IsOwn(c, r[i])}
             = {i \in 1..Len(q) : IsOwn(c, q[i])} \cup {Len(q) + 1}
    BY <1>4, <1>5 DEF OperationTypes, IsOwn
  <2>2. QED
    BY <1>3, <2>1 DEF Owns, States, IsOwn
<1>7. StoreInv(c)' /\ RequestsInv(c)'
  BY <1>3, <1>4 DEF LocalInv, StoreInv, RequestsInv, HasJoin
<1>8. AwayInv(c)'
  BY DEF LocalInv, AwayInv
<1>9. TaskInv(c)'
  BY <1>1, <1>2 DEF LocalInv, TaskInv, HasAnswer, Connected
<1>10. JoinInv(c)'
  <2>1. ~ HasJoin(c) /\ ~ HasJoin(c)' /\ ~ Reading(c) /\ ~ Reading(c)'
    BY <1>1, <1>2 DEF LocalInv, JoinInv, HasJoin, Reading
  <2>2. \A i \in States(c) : i < Len(q) + 1
    BY <1>4, <1>6
  <2>3. QED
    BY <1>6, <2>1, <2>2 DEF LocalInv, JoinInv
<1>11. VersionsInv(c)'
  <2>1. ASSUME NEW v, NewerThan(c, v), v' = v
        PROVE  NewerThan(c, v)'
    BY <1>1, <1>2, <1>3, <1>4, <1>5, <1>6, <2>1 DEF NewerThan, HasAnswer
  <2>2. client'[c].session = "joined" => NewerThan(c, client[c].version)'
    BY <2>1 DEF LocalInv, VersionsInv
  <2>3. QED
    BY <1>3, <1>4, <1>6, <2>1, <2>2 DEF LocalInv, VersionsInv
<1>12. EchoesInv(c)'
  <2>1. ~ Sending(c)'
    BY <1>1, <1>2 DEF Sending
  <2>2. Taken(c)' = Taken(c) /\ Settled(c)' = Settled(c)
    BY DEF Taken, Settled, HasJoin
  <2>3. Taken(c) \in Int /\ Echoed(c)' = Taken(c) /\ Echoed(c) = Taken(c) - 1
    <3>1. Taken(c) \in Int
      BY DEF Taken, FormInv, LocalInv, StoreInv, IsSequence
    <3>2. QED
      BY <1>5, <2>1, <2>2, <3>1 DEF Echoed
  <2>4. EchoesInv(c)
    BY DEF LocalInv
  <2>5. PICK O, a, z : /\ O = Owns(c) /\ a = Settled(c) /\ z = Taken(c)
                       /\ a \in Nat /\ z \in Int /\ a <= z - 1
    BY <2>3, <2>4 DEF EchoesInv
  <2>6. /\ \A i \in O : i \in 1..Len(q) /\ i < Len(q) + 1 /\ r[i] = q[i]
        /\ r[Len(q) + 1].id = <<c, z>> /\ Owns(c)' = O \cup {Len(q) + 1}
    BY <1>3, <1>4, <1>5, <1>6, <2>5
  <2>7. /\ \A i \in O : \E n \in a + 1..z - 1 : r[i].id = <<c, n>>
        /\ \A i, j \in O : i < j => r[i].id[2] < r[j].id[2]
        /\ \A n \in a + 1..z - 1 : \E i \in O : r[i].id = <<c, n>>
    <3>1. PICK e : e = Echoed(c) /\ e = z - 1
      BY <2>3, <2>5
    <3>2. /\ \A i \in O : \E n \in a + 1..e : q[i].id = <<c, n>>
          /\ \A i, j \in O : i < j => q[i].id[2] < q[j].id[2]
          /\ \A n \in a + 1..e : \E i \in O : q[i].id = <<c, n>>
      BY <1>3, <2>4, <2>5, <3>1 DEF EchoesInv
    <3>3. QED
      BY <2>6, <3>1, <3>2
  <2>8. /\ \A i \in Owns(c)' : \E n \in a + 1..z : r[i].id = <<c, n>>
        /\ \A i, j \in Owns(c)' : i < j => r[i].id[2] < r[j].id[2]
        /\ \A n \in a + 1..z : \E i \in Owns(c)' : r[i].id = <<c, n>>
    <3>1. a + 1..z - 1 \subseteq a + 1..z /\ a + 1..z = (a + 1..z - 1) \cup {z}
      BY <2>5
    <3>2. \A i \in O : r[i].id[2] < z
      BY <2>5, <2>7
    <3>3. \A i \in Owns(c)' : \E n \in a + 1..z : r[i].id = <<c, n>>
      BY <2>6, <2>7, <3>1
    <3>4. \A i, j \in Owns(c)' : i < j => r[i].id[2] < r[j].id[2]
      <4>1. SUFFICES ASSUME NEW i \in O \cup {Len(q) + 1}, NEW j \in O \cup {Len(q) + 1},
                            i < j
                     PROVE  r[i].id[2] < r[j].id[2]
        BY <2>6
      <4>2. i \in O
        BY <1>4, <2>6, <4>1
      <4>3. CASE j \in O
        BY <2>7, <4>1, <4>2, <4>3
      <4>4. CASE j = Len(q) + 1
        BY <2>6, <3>2, <4>2, <4>4
      <4>5. QED
        BY <4>3, <4>4
    <3>5. \A n \in a + 1..z : \E i \in Owns(c)' : r[i].id = <<c, n>>
      BY <2>6, <2>7, <3>1
    <3>6. QED
      BY <3>3, <3>4, <3>5
  <2>9. /\ Settled(c) \in Nat /\ Settled(c) <= Taken(c)
        /\ \A k \in 1..Len(client'[c].pending) :
             client'[c].pending[k].id = <<c, Settled(c) + k>>
    BY <2>3, <2>4 DEF EchoesInv
  <2>10. QED
    BY <1>3, <2>1, <2>2, <2>3, <2>5, <2>8, <2>9 DEF EchoesInv
<1>13. QED
  BY <1>7, <1>8, <1>9, <1>10, <1>11, <1>12 DEF LocalInv

LEMMA ReadStateKeeps ==
  ASSUME NEW c \in Client, FormInv, LocalInv(c), ReadState(c)
  PROVE  LocalInv(c)'
<1>1. PICK q, r : q = toServer[c] /\ r = toServer'[c]
  OBVIOUS
<1>2. /\ Takes(c) /\ UNCHANGED <<order, toClient, client, made>>
      /\ task'[c] = ReadingVersion(order.list) /\ Head(q).type = "join"
  BY <1>1 DEF ReadState, SetTask, FormInv
<1>3. task'[c].at = "version"
  BY <1>2 DEF ReadingVersion
<1>4. /\ task[c].at = "idle" /\ Connected(c) /\ IsSequence(r)
      /\ Len(q) \in Nat /\ Len(r) = Len(q) - 1
      /\ ~ HasJoin(c)' /\ RequestsInv(c)'
  BY <1>1, <1>2, NextRequest DEF LocalInv
<1>5. HasJoin(c)
  <2>1. q # <<>> /\ q[1].type = "join"
    BY <1>1, <1>2 DEF Takes
  <2>2. QED
    BY <1>1, <2>1 DEF HasJoin
<1>6. SameEchoes(c)
  BY <1>2, UntouchedChannel DEF LocalInv, StoreInv
<1>7. StoreInv(c)'
  BY <1>1, <1>2, <1>4 DEF LocalInv, StoreInv
<1>8. AwayInv(c)' /\ TaskInv(c)'
  BY <1>2, <1>3, <1>4 DEF AwayInv, TaskInv, HasAnswer, Connected
<1>9. JoinInv(c)'
  <2>1. JoinInv(c) /\ HasJoin(c) /\ ~ HasJoin(c)' /\ Reading(c)'
    BY <1>3, <1>4, <1>5 DEF LocalInv, Reading
  <2>2. QED
    BY <1>2, <1>6, <2>1 DEF JoinInv, SameEchoes
<1>10. VersionsInv(c)'
  BY <1>2, <1>3, <1>6 DEF LocalInv, VersionsInv, NewerThan, HasAnswer, SameEchoes
<1>11. EchoesInv(c)'
  <2>1. ~ Sending(c)' /\ ~ Sending(c)
    BY <1>3, <1>4 DEF Sending
  <2>2. Taken(c) = made[c] - Len(q) + 1 /\ Taken(c)' = made'[c] - Len(r) + 0
    BY <1>1, <1>4, <1>5 DEF Taken
  <2>3. Taken(c)' = Taken(c) /\ Settled(c)' = Settled(c)
    BY <1>2, <1>4, <2>2 DEF Settled, FormInv
  <2>4. Echoed(c)' = Echoed(c)
    BY <2>1, <2>3 DEF Echoed
  <2>5. EchoesInv(c)
    BY DEF LocalInv
  <2>6. QED
    BY <1>2, <1>6, <2>1, <2>3, <2>4, <2>5 DEF EchoesInv, SameEchoes
<1>12. QED
  BY <1>4, <1>7, <1>8, <1>9, <1>10, <1>11 DEF LocalInv

LEMMA ReadVersionKeeps ==
  ASSUME NEW c \in Client, FormInv, LocalInv(c), ReadVersion(c)
  PROVE  LocalInv(c)'
<1>1. /\ task[c].at = "version" /\ UNCHANGED <<order, toServer, toClient, client, made>>
      /\ task'[c] = SendingState(task[c].list, order.version)
  BY DEF ReadVersion, SetTask, FormInv
<1>2. task'[c].at = "state" /\ task'[c].version = order.version
  BY <1>1 DEF SendingState
<1>3. SameEchoes(c)
  BY <1>1, UntouchedChannel DEF LocalInv, StoreInv
<1>4. StoreInv(c)' /\ RequestsInv(c)'
  BY <1>1 DEF LocalInv, StoreInv, RequestsInv, HasJoin
<1>5. AwayInv(c)' /\ TaskInv(c)'
  BY <1>1, <1>2 DEF LocalInv, AwayInv, TaskInv, HasAnswer, FormInv
<1>6. JoinInv(c)'
  <2>1. JoinInv(c) /\ ~ HasJoin(c) /\ ~ HasJoin(c)' /\ Reading(c) /\ Reading(c)'
    BY <1>1, <1>2 DEF LocalInv, JoinInv, HasJoin, Reading
  <2>2. QED
    BY <1>1, <1>3, <2>1 DEF JoinInv, SameEchoes
<1>7. VersionsInv(c)'
  BY <1>1, <1>2, <1>3 DEF LocalInv, VersionsInv, NewerThan, HasAnswer, SameEchoes
<1>8. EchoesInv(c)'
  <2>1. ~ Sending(c)' /\ ~ Sending(c)
    BY <1>1, <1>2 DEF Sending
  <2>2. Taken(c)' = Taken(c) /\ Settled(c)' = Settled(c)
    BY <1>1 DEF Taken, Settled, HasJoin
  <2>3. Echoed(c)' = Echoed(c)
    BY <2>1, <2>2 DEF Echoed
  <2>4. EchoesInv(c)
    BY DEF LocalInv
  <2>5. QED
    BY <1>1, <1>3, <2>1, <2>2, <2>3, <2>4 DEF EchoesInv, SameEchoes
<1>9. QED
  BY <1>4, <1>5, <1>6, <1>7, <1>8 DEF LocalInv

LEMMA SendStateKeeps ==
  ASSUME NEW c \in Client, FormInv, LocalInv(c), SendState(c)
  PROVE  LocalInv(c)'
<1>1. PICK q, r, m : /\ q = toClient[c] /\ r = toClient'[c]
                     /\ m = FullState(task[c].list, task[c].version)
  OBVIOUS
<1>2. /\ task[c].at = "state" /\ UNCHANGED <<order, toServer, client, made>>
      /\ task'[c].at = "idle" /\ r = Append(q, m)
  BY <1>1 DEF SendState, SetTask, Deliver, FormInv, Idle
<1>3. m.type = "full_state" /\ m.version \in 0..order.version
  BY <1>1, <1>2 DEF FullState, LocalInv, TaskInv
<1>4. /\ IsSequence(r) /\ Len(r) = Len(q) + 1 /\ Len(q) \in Nat
      /\ \A i \in 1..Len(q) : r[i] = q[i]
      /\ r[Len(q) + 1] = m
  <2>1. IsSequence(q)
    BY <1>1 DEF LocalInv, StoreInv
  <2>2. QED
    BY <1>2, <2>1, AppendIsSequence DEF IsSequence
<1>5. /\ JoinInv(c) /\ Reading(c) /\ States(c) = {} /\ Owns(c) = {}
      /\ client[c].session = "joining" /\ ~ HasJoin(c)
  BY <1>2 DEF LocalInv, JoinInv, Reading
<1>6. States(c)' = {Len(q) + 1} /\ Owns(c)' = {}
  <2>1. \A i \in 1..Len(q) : q[i].type # "full_state" /\ ~ IsOwn(c, q[i])
    BY <1>1, <1>5 DEF States, Owns
  <2>2. /\ {i \in 1..Len(r) : r[i].type = "full_state"} = {Len(q) + 1}
        /\ {i \in 1..Len(r) : IsOwn(c, r[i])} = {}
    BY <1>3, <1>4, <2>1 DEF IsOwn
  <2>3. QED
    BY <1>1, <2>2 DEF Owns, States, IsOwn
<1>7. StoreInv(c)' /\ RequestsInv(c)'
  BY <1>1, <1>2, <1>4 DEF LocalInv, StoreInv, RequestsInv, HasJoin
<1>8. AwayInv(c)' /\ TaskInv(c)'
  BY <1>2, <1>5 DEF AwayInv, TaskInv, HasAnswer
<1>9. JoinInv(c)'
  <2>1. ~ HasJoin(c)' /\ ~ Reading(c)'
    BY <1>2, <1>5 DEF HasJoin, Reading
  <2>2. QED
    BY <1>2, <1>5, <1>6, <2>1 DEF JoinInv
<1>10. VersionsInv(c)'
  BY <1>1, <1>2, <1>3, <1>4, <1>5, <1>6 DEF VersionsInv, NewerThan, HasAnswer
<1>11. EchoesInv(c)'
  <2>1. ~ Sending(c)' /\ ~ Sending(c)
    BY <1>2 DEF Sending
  <2>2. Taken(c)' = Taken(c) /\ Settled(c)' = Settled(c)
    BY <1>2 DEF Taken, Settled, HasJoin
  <2>3. Echoed(c)' = Echoed(c)
    BY <2>1, <2>2 DEF Echoed
  <2>4. EchoesInv(c)
    BY DEF LocalInv
  <2>5. QED
    BY <1>2, <1>5, <1>6, <2>1, <2>2, <2>3, <2>4 DEF EchoesInv
<1>12. QED
  BY <1>7, <1>8, <1>9, <1>10, <1>11 DEF LocalInv

----------------------------------------------------------------------------
(* What the client receives.                                               *)

\* The messages to c have moved up by one.
MovedUp(c) ==
  /\ IsSequence(toClient'[c])
  /\ \A i \in Owns(c) \cup States(c) : i \in Nat \ {0}
  /\ \A i \in Owns(c)' \cup States(c)' :
       i \in Nat \ {0} /\ toClient'[c][i] = toClient[c][i + 1]
  /\ \A i \in Nat \ {0} : /\ i \in Owns(c)' <=> i + 1 \in Owns(c)
                          /\ i \in States(c)' <=> i + 1 \in States(c)

LEMMA MessagesMoveUp ==
  ASSUME NEW c \in Client, FormInv, LocalInv(c), toClient[c] # <<>>,
         toClient'[c] = Tail(toClient[c]), NEW m, m = Head(toClient[c])
  PROVE  /\ MovedUp(c)
         /\ 1 \in Owns(c) <=> IsOwn(c, m)
         /\ 1 \in States(c) <=> m.type = "full_state"
         /\ toClient[c][1] = m
<1>1. PICK q, r : q = toClient[c] /\ r = toClient'[c]
  OBVIOUS
<1>2. q # <<>> /\ IsSequence(q) /\ r = Tail(q) /\ m = q[1]
  BY <1>1 DEF LocalInv, StoreInv
<1>3. Len(q) > 0 /\ Len(q) \in Nat
  BY <1>2 DEF IsSequence
<1>4. /\ IsSequence(r) /\ Len(r) = Len(q) - 1
      /\ \A i \in 1..Len(q) - 1 : r[i] = q[i + 1]
  BY <1>2, <1>3, TailIsSequence
<1>5. /\ Owns(c) = {i \in 1..Len(q) : IsOwn(c, q[i])}
      /\ States(c) = {i \in 1..Len(q) : q[i].type = "full_state"}
      /\ Owns(c)' = {i \in 1..Len(r) : IsOwn(c, r[i])}
      /\ States(c)' = {i \in 1..Len(r) : r[i].type = "full_state"}
  BY <1>1 DEF Owns, States, IsOwn
<1>6. /\ \A i \in Owns(c) \cup States(c) : i \in Nat \ {0}
      /\ 1 \in Owns(c) <=> IsOwn(c, m)
      /\ 1 \in States(c) <=> m.type = "full_state"
  BY <1>2, <1>3, <1>5
<1>7. \A i \in Owns(c)' \cup States(c)' : i \in Nat \ {0} /\ r[i] = q[i + 1]
  BY <1>3, <1>4, <1>5
<1>8. ASSUME NEW i \in Nat \ {0}
      PROVE  /\ i \in 1..Len(r) <=> i + 1 \in 1..Len(q)
             /\ i \in 1..Len(r) => r[i] = q[i + 1]
  BY <1>3, <1>4
<1>9. \A i \in Nat \ {0} : /\ i \in Owns(c)' <=> i + 1 \in Owns(c)
                           /\ i \in States(c)' <=> i + 1 \in States(c)
  <2> SUFFICES ASSUME NEW i \in Nat \ {0}
               PROVE  /\ i \in Owns(c)' <=> i + 1 \in Owns(c)
                      /\ i \in States(c)' <=> i + 1 \in States(c)
    OBVIOUS
  <2>1. /\ i \in 1..Len(r) <=> i + 1 \in 1..Len(q)
        /\ i \in 1..Len(r) => r[i] = q[i + 1]
    BY <1>8
  <2>2. /\ i \in Owns(c)' <=> i \in 1..Len(r) /\ IsOwn(c, r[i])
        /\ i + 1 \in Owns(c) <=> i + 1 \in 1..Len(q) /\ IsOwn(c, q[i + 1])
        /\ i \in States(c)' <=> i \in 1..Len(r) /\ r[i].type = "full_state"
        /\ i + 1 \in States(c) <=> i + 1 \in 1..Len(q) /\ q[i + 1].type = "full_state"
    BY <1>5
  <2>3. QED
    BY <2>1, <2>2
<1>10. QED
  BY <1>1, <1>2, <1>4, <1>6, <1>7, <1>9 DEF MovedUp

\* Receive does nothing to the server, nor to other clients.
Receives(c) ==
  /\ UNCHANGED <<order, task, toServer, made>>
  /\ client[c].session # "away" /\ client'[c].session # "away"
  /\ DOMAIN client'[c] = StoreFields
  /\ client'[c].session \in {"joining", "joined"}
  /\ client'[c].version \in 0..order.version
  /\ IsSequence(client'[c].pending) /\ IsSequence(client'[c].held)
  /\ \A d \in Client : d # c => client'[d] = client[d]

LEMMA ReceivesKeepsMost ==
  ASSUME NEW c \in Client, FormInv, LocalInv(c), Receives(c), MovedUp(c)
  PROVE  StoreInv(c)' /\ AwayInv(c)' /\ TaskInv(c)' /\ RequestsInv(c)'
<1>1. StoreInv(c)'
  BY DEF Receives, MovedUp, LocalInv, StoreInv
<1>2. AwayInv(c)'
  BY DEF Receives, AwayInv
<1>3. TaskInv(c)'
  <2>1. \A d \in Client : Connected(d) => Connected(d)'
    BY DEF Receives, Connected
  <2>2. QED
    BY <2>1 DEF Receives, LocalInv, TaskInv, HasAnswer
<1>4. RequestsInv(c)'
  BY DEF Receives, LocalInv, RequestsInv, HasJoin
<1>5. QED
  BY <1>1, <1>2, <1>3, <1>4

\* Whatever has no number in common with the first message.
LEMMA NumbersMoveUp ==
  ASSUME NEW c \in Client, LocalInv(c), MovedUp(c), 1 \notin Owns(c),
         UNCHANGED <<task, toServer, made>>,
         client'[c].pending = client[c].pending
  PROVE  EchoesInv(c)'
<1>1. PICK q, r, O, P : /\ q = toClient[c] /\ r = toClient'[c]
                        /\ O = Owns(c) /\ P = Owns(c)'
  OBVIOUS
<1>2. /\ \A i \in P : i \in Nat /\ i + 1 \in O /\ r[i] = q[i + 1]
      /\ \A i \in O : i - 1 \in P /\ r[i - 1] = q[i]
  <2>1. \A i \in P : i \in Nat /\ i + 1 \in O /\ r[i] = q[i + 1]
    BY <1>1 DEF MovedUp
  <2>2. \A i \in O : i - 1 \in P
    <3>1. \A i \in O : i \in Nat /\ i - 1 \in Nat \ {0} /\ i = (i - 1) + 1
      BY <1>1 DEF MovedUp
    <3>2. QED
      BY <1>1, <3>1 DEF MovedUp
  <2>3. \A i \in O : r[i - 1] = q[i]
    <3>1. \A i \in O : i = (i - 1) + 1
      BY <1>1 DEF MovedUp
    <3>2. QED
      BY <2>1, <2>2, <3>1
  <2>4. QED
    BY <2>1, <2>2, <2>3
<1>3. /\ (Sending(c)' <=> Sending(c)) /\ Settled(c)' = Settled(c)
      /\ Taken(c)' = Taken(c) /\ Echoed(c)' = Echoed(c)
  BY DEF Sending, Settled, Taken, Echoed, HasJoin
<1>4. EchoesInv(c)
  BY DEF LocalInv
<1>5. PICK a, e : a = Settled(c) /\ e = Echoed(c)
  OBVIOUS
<1>6. /\ \A i \in O : \E n \in a + 1..e : q[i].id = <<c, n>>
      /\ \A i, j \in O : i < j => q[i].id[2] < q[j].id[2]
      /\ \A n \in a + 1..e : \E i \in O : q[i].id = <<c, n>>
  BY <1>1, <1>4, <1>5 DEF EchoesInv
<1>7. /\ \A i \in P : \E n \in a + 1..e : r[i].id = <<c, n>>
      /\ \A n \in a + 1..e : \E i \in P : r[i].id = <<c, n>>
  BY <1>2, <1>6
<1>8. \A i, j \in P : i < j => r[i].id[2] < r[j].id[2]
  <2> SUFFICES ASSUME NEW i \in P, NEW j \in P, i < j
               PROVE  r[i].id[2] < r[j].id[2]
    OBVIOUS
  <2>1. i + 1 \in O /\ j + 1 \in O /\ i + 1 < j + 1
    BY <1>2
  <2>2. QED
    BY <1>2, <1>6, <2>1
<1>9. /\ a \in Nat /\ a <= e
      /\ \A k \in 1..Len(client'[c].pending) : client'[c].pending[k].id = <<c, a + k>>
      /\ Sending(c)' => task'[c].message.id = <<c, Taken(c)'>>
  BY <1>3, <1>4, <1>5 DEF EchoesInv
<1>10. QED
  BY <1>1, <1>3, <1>5, <1>7, <1>8, <1>9 DEF EchoesInv

LEMMA NewerMovesUp ==
  ASSUME NEW c, MovedUp(c), NEW CONSTANT v, NewerThan(c, v), UNCHANGED task
  PROVE  NewerThan(c, v)'
<1>1. \A i \in Owns(c)' : ~ (toClient'[c][i].version <= v)
  BY DEF MovedUp, NewerThan
<1>2. QED
  BY <1>1 DEF NewerThan, HasAnswer

LEMMA OperationMovesUp ==
  ASSUME NEW c \in Client, FormInv, LocalInv(c), Receives(c), MovedUp(c),
         1 \notin States(c),
         client'[c].session = client[c].session,
         client'[c].version = client[c].version,
         \A i \in 1..Len(client'[c].held) : client'[c].held[i].author # c
  PROVE  JoinInv(c)' /\ VersionsInv(c)'
<1>1. PICK q, r, O, P, S, T :
        /\ q = toClient[c] /\ r = toClient'[c]
        /\ O = Owns(c) /\ P = Owns(c)' /\ S = States(c) /\ T = States(c)'
  OBVIOUS
<1>2. /\ \A i \in P : i \in Nat /\ i + 1 \in O
      /\ \A i \in T : i \in Nat /\ i + 1 \in S /\ r[i] = q[i + 1]
  BY <1>1 DEF MovedUp
<1>3. S # {} => T # {}
  <2>1. ASSUME NEW i \in S
        PROVE  i - 1 \in T
    <3>1. i \in Nat /\ i - 1 \in Nat \ {0} /\ i = (i - 1) + 1
      BY <1>1 DEF MovedUp
    <3>2. QED
      BY <1>1, <3>1 DEF MovedUp
  <2>2. QED
    BY <2>1
<1>4. JoinInv(c) /\ VersionsInv(c)
  BY DEF LocalInv
<1>5. JoinInv(c)'
  <2>1. /\ \A i \in S : /\ \A j \in S : i = j
                        /\ \A j \in O : i < j
    BY <1>1, <1>4 DEF JoinInv
  <2>2. /\ \A i \in T : /\ \A j \in T : i = j
                        /\ \A j \in P : i < j
    <3>1. \A i \in T, j \in T : i + 1 = j + 1 /\ i \in Nat /\ j \in Nat
      BY <1>2, <2>1
    <3>2. \A i \in T, j \in P : i + 1 < j + 1 /\ i \in Nat /\ j \in Nat
      BY <1>2, <2>1
    <3>3. QED
      BY <3>1, <3>2
  <2>3. (HasJoin(c)' <=> HasJoin(c)) /\ (Reading(c)' <=> Reading(c))
    BY DEF Receives, HasJoin, Reading
  <2>4. HasJoin(c) \/ Reading(c) => client[c].session = "joining" /\ T = {} /\ P = {}
    BY <1>1, <1>2, <1>4 DEF JoinInv
  <2>5. /\ client[c].session = "joining" => HasJoin(c) \/ Reading(c) \/ T # {}
        /\ HasJoin(c) => task[c].at = "idle"
        /\ T # {} => client[c].session = "joining"
    BY <1>1, <1>2, <1>3, <1>4 DEF JoinInv
  <2>6. QED
    BY <1>1, <2>2, <2>3, <2>4, <2>5 DEF JoinInv, Receives
<1>6. VersionsInv(c)'
  <2>1. (client[c].session = "joined" => NewerThan(c, client[c].version))'
    <3>1. PICK v : v = client[c].version
      OBVIOUS
    <3>2. client'[c].session = "joined" => NewerThan(c, v)'
      BY <1>4, <3>1, NewerMovesUp DEF VersionsInv, Receives
    <3>3. QED
      BY <3>1, <3>2 DEF NewerThan, Receives
  <2>2. ASSUME NEW i \in T
        PROVE  r[i].version \in 0..order.version /\ NewerThan(c, r[i].version)'
    <3>1. PICK v : v = q[i + 1].version /\ v = r[i].version
      BY <1>2
    <3>2. v \in 0..order.version /\ NewerThan(c, v)
      BY <1>1, <1>2, <1>4, <3>1 DEF VersionsInv
    <3>3. NewerThan(c, v)'
      BY <3>2, NewerMovesUp DEF Receives
    <3>4. QED
      BY <3>1, <3>2, <3>3 DEF NewerThan
  <2>3. \A i \in T : /\ toClient'[c][i].version \in 0..order'.version
                     /\ NewerThan(c, toClient[c][i].version)'
    BY <1>1, <2>2 DEF NewerThan, Receives
  <2>4. QED
    BY <1>1, <2>1, <2>3 DEF VersionsInv
<1>7. QED
  BY <1>5, <1>6

LEMMA StateMovesUp ==
  ASSUME NEW c \in Client, FormInv, LocalInv(c), Receives(c), MovedUp(c),
         1 \in States(c), client'[c].session = "joined",
         client'[c].version = toClient[c][1].version, client'[c].held = <<>>
  PROVE  JoinInv(c)' /\ VersionsInv(c)'
<1>1. JoinInv(c) /\ VersionsInv(c)
  BY DEF LocalInv
<1>2. /\ client[c].session = "joining" /\ ~ HasJoin(c) /\ ~ Reading(c)
      /\ \A i \in States(c) : i = 1
  BY <1>1 DEF JoinInv
<1>3. States(c)' = {}
  <2>1. ASSUME NEW i \in States(c)'
        PROVE  FALSE
    <3>1. i \in Nat \ {0} /\ i + 1 \in States(c)
      BY DEF MovedUp
    <3>2. i + 1 = 1
      BY <1>2, <3>1
    <3>3. QED
      BY <3>1, <3>2
  <2>2. QED
    BY <2>1
<1>4. ~ HasJoin(c)' /\ ~ Reading(c)'
  BY <1>2 DEF Receives, HasJoin, Reading
<1>5. JoinInv(c)'
  BY <1>3, <1>4 DEF JoinInv
<1>6. PICK v : v = toClient[c][1].version
  OBVIOUS
<1>7. NewerThan(c, v)
  BY <1>1, <1>6 DEF VersionsInv
<1>8. NewerThan(c, v)'
  BY <1>7, NewerMovesUp DEF Receives
<1>9. QED
  BY <1>3, <1>5, <1>6, <1>8 DEF VersionsInv, NewerThan

\* The first echo to come is that of the first pending operation.
LEMMA FirstEcho ==
  ASSUME NEW c \in Client, FormInv, LocalInv(c), 1 \in Owns(c)
  PROVE  /\ toClient[c][1].id = <<c, Settled(c) + 1>>
         /\ Settled(c) + 1 <= Echoed(c) /\ Echoed(c) \in Int
         /\ Len(client[c].pending) > 0
<1>1. PICK a, e, O, q : a = Settled(c) /\ e = Echoed(c) /\ O = Owns(c) /\ q = toClient[c]
  OBVIOUS
<1>2. /\ Len(toServer[c]) \in Nat /\ Len(client[c].pending) \in Nat /\ made[c] \in Nat
  BY DEF FormInv, LocalInv, StoreInv, IsSequence
<1>3. Taken(c) \in Int /\ Taken(c) <= made[c]
  <2>1. HasJoin(c) => Len(toServer[c]) > 0
    BY DEF LocalInv, StoreInv, HasJoin, IsSequence
  <2>2. QED
    BY <1>2, <2>1 DEF Taken
<1>4. e \in Int /\ e <= made[c] /\ a \in Nat
  BY <1>1, <1>2, <1>3 DEF Echoed, LocalInv, EchoesInv
<1>5. PICK n \in a + 1..e : q[1].id = <<c, n>>
  BY <1>1 DEF LocalInv, EchoesInv
<1>6. a + 1 \in a + 1..e
  BY <1>4, <1>5
<1>7. PICK i \in O : q[i].id = <<c, a + 1>>
  BY <1>1, <1>6 DEF LocalInv, EchoesInv
<1>8. i = 1
  <2>1. SUFFICES ASSUME i # 1
                 PROVE  FALSE
    OBVIOUS
  <2>2. 1 < i
    BY <1>1, <1>7, <2>1 DEF Owns, LocalInv, StoreInv, IsSequence
  <2>3. q[1].id[2] < q[i].id[2]
    BY <1>1, <1>7, <2>2 DEF LocalInv, EchoesInv
  <2>4. n < a + 1
    BY <1>5, <1>7, <2>3
  <2>5. QED
    BY <1>4, <1>5, <2>4
<1>9. Len(client[c].pending) > 0
  <2>1. a = made[c] - Len(client[c].pending)
    BY <1>1 DEF Settled
  <2>2. QED
    BY <1>2, <1>4, <1>6, <2>1
<1>10. QED
  BY <1>1, <1>4, <1>6, <1>7, <1>8, <1>9

LEMMA OwnEchoSettles ==
  ASSUME NEW c \in Client, FormInv, LocalInv(c), MovedUp(c), 1 \in Owns(c),
         UNCHANGED <<task, toServer, made>>,
         client'[c].pending = Tail(client[c].pending)
  PROVE  EchoesInv(c)'
<1>1. PICK q, r, O, P, s, t :
        /\ q = toClient[c] /\ r = toClient'[c] /\ O = Owns(c) /\ P = Owns(c)'
        /\ s = client[c].pending /\ t = client'[c].pending
  OBVIOUS
<1>2. PICK a, e : /\ a = Settled(c) /\ e = Echoed(c) /\ e \in Int /\ a + 1 <= e
                  /\ q[1].id = <<c, a + 1>> /\ Len(s) > 0 /\ a \in Nat
  BY <1>1, FirstEcho DEF LocalInv, EchoesInv
<1>3. /\ IsSequence(t) /\ Len(t) = Len(s) - 1 /\ Len(s) \in Nat
      /\ \A k \in 1..Len(s) - 1 : t[k] = s[k + 1]
  <2>1. IsSequence(s) /\ t = Tail(s)
    BY <1>1 DEF LocalInv, StoreInv
  <2>2. QED
    BY <1>2, <2>1, TailIsSequence DEF IsSequence
<1>4. /\ (Sending(c)' <=> Sending(c)) /\ Taken(c)' = Taken(c) /\ Echoed(c)' = e
  BY <1>2 DEF Sending, Taken, Echoed, HasJoin
<1>5. Settled(c)' = a + 1
  <2>1. a = made[c] - Len(s) /\ Settled(c)' = made[c] - Len(t) /\ made[c] \in Nat
    BY <1>1, <1>2 DEF Settled, FormInv
  <2>2. QED
    BY <1>3, <2>1
<1>6. EchoesInv(c)
  BY DEF LocalInv
<1>7. /\ \A i \in O : i \in Nat \ {0} /\ \E n \in a + 1..e : q[i].id = <<c, n>>
      /\ \A i, j \in O : i < j => q[i].id[2] < q[j].id[2]
      /\ \A n \in a + 1..e : \E i \in O : q[i].id = <<c, n>>
      /\ 1 \in O
  BY <1>1, <1>2, <1>6 DEF EchoesInv, MovedUp
<1>8. \A i \in P : i \in Nat \ {0} /\ i + 1 \in O /\ r[i] = q[i + 1]
  BY <1>1 DEF MovedUp
<1>9. \A i \in P : \E n \in a + 2..e : r[i].id = <<c, n>>
  <2> SUFFICES ASSUME NEW i \in P
               PROVE  \E n \in a + 2..e : r[i].id = <<c, n>>
    OBVIOUS
  <2>1. i + 1 \in O /\ r[i] = q[i + 1] /\ 1 < i + 1
    BY <1>8
  <2>2. PICK n \in a + 1..e : q[i + 1].id = <<c, n>>
    BY <1>7, <2>1
  <2>3. q[1].id[2] < q[i + 1].id[2]
    BY <1>7, <2>1
  <2>4. a + 1 < n
    BY <1>2, <2>2, <2>3
  <2>5. n \in a + 2..e
    BY <1>2, <2>2, <2>4
  <2>6. QED
    BY <2>1, <2>2, <2>5
<1>10. \A i, j \in P : i < j => r[i].id[2] < r[j].id[2]
  <2> SUFFICES ASSUME NEW i \in P, NEW j \in P, i < j
               PROVE  r[i].id[2] < r[j].id[2]
    OBVIOUS
  <2>1. i + 1 \in O /\ j + 1 \in O /\ i + 1 < j + 1
    BY <1>8
  <2>2. QED
    BY <1>7, <1>8, <2>1
<1>11. \A n \in a + 2..e : \E i \in P : r[i].id = <<c, n>>
  <2> SUFFICES ASSUME NEW n \in a + 2..e
               PROVE  \E i \in P : r[i].id = <<c, n>>
    OBVIOUS
  <2>1. n \in a + 1..e /\ n # a + 1
    BY <1>2
  <2>2. PICK i \in O : q[i].id = <<c, n>>
    BY <1>7, <2>1
  <2>3. i # 1
    BY <1>2, <2>1, <2>2
  <2>4. i - 1 \in Nat \ {0} /\ i = (i - 1) + 1
    BY <1>7, <2>2, <2>3
  <2>5. i - 1 \in P
    BY <1>1, <2>2, <2>4 DEF MovedUp
  <2>6. r[i - 1] = q[i]
    BY <1>8, <2>4, <2>5
  <2>7. QED
    BY <2>2, <2>5, <2>6
<1>12. \A k \in 1..Len(t) : t[k].id = <<c, a + 1 + k>>
  <2> SUFFICES ASSUME NEW k \in 1..Len(t)
               PROVE  t[k].id = <<c, a + 1 + k>>
    OBVIOUS
  <2>1. k + 1 \in 1..Len(s) /\ t[k] = s[k + 1]
    BY <1>3
  <2>2. s[k + 1].id = <<c, a + (k + 1)>>
    BY <1>1, <1>2, <1>6, <2>1 DEF EchoesInv
  <2>3. a + (k + 1) = a + 1 + k
    BY <1>2
  <2>4. QED
    BY <2>1, <2>2, <2>3
<1>13. PICK b : b = a + 1 /\ b \in Nat /\ b <= e /\ a + 2..e = b + 1..e
  BY <1>2
<1>14. Sending(c)' => task'[c].message.id = <<c, Taken(c)'>>
  BY <1>4, <1>6 DEF EchoesInv
<1>15. QED
  <2>1. /\ \A i \in P : \E n \in b + 1..e : r[i].id = <<c, n>>
        /\ \A n \in b + 1..e : \E i \in P : r[i].id = <<c, n>>
        /\ \A k \in 1..Len(t) : t[k].id = <<c, b + k>>
    BY <1>9, <1>11, <1>12, <1>13
  <2>2. Settled(c)' = b
    BY <1>5, <1>13
  <2>3. QED
    BY <1>1, <1>4, <1>10, <1>13, <1>14, <2>1, <2>2 DEF EchoesInv

LEMMA ReceiveKeeps ==
  ASSUME NEW c \in Client, FormInv, LocalInv(c), Receive(c)
  PROVE  /\ LocalInv(c)'
         /\ UNCHANGED <<order, task, toServer, made>>
         /\ \A d \in Client : Connected(d) => Connected(d)'
         /\ \A d \in Client : d # c =>
              client'[d] = client[d] /\ toClient'[d] = toClient[d]
<1>1. PICK s, t, m : s = client[c] /\ t = client'[c] /\ m = Head(toClient[c])
  OBVIOUS
<1>2. /\ toClient[c] # <<>> /\ toClient'[c] = Tail(toClient[c])
      /\ UNCHANGED <<order, task, toServer, made>>
      /\ ReceiveOperation(c, m) \/ ReceiveFullState(c, m)
  BY <1>1 DEF Receive, FormInv
<1>3. /\ MovedUp(c)
      /\ 1 \in Owns(c) <=> IsOwn(c, m)
      /\ 1 \in States(c) <=> m.type = "full_state"
      /\ toClient[c][1] = m
  BY <1>1, <1>2, MessagesMoveUp
<1>4. /\ DOMAIN s = StoreFields /\ s.session \in {"joining", "joined"}
      /\ IsSequence(s.pending) /\ IsSequence(s.held)
      /\ s.version \in 0..order.version
  BY <1>1, <1>2 DEF LocalInv, StoreInv, AwayInv
<1>5. /\ \A i \in 1..Len(s.held) : s.held[i].author # c
      /\ JoinInv(c) /\ VersionsInv(c) /\ order.version \in Nat
  BY <1>1 DEF LocalInv, JoinInv, FormInv
<1>6. \A d \in Client : d # c => client'[d] = client[d] /\ toClient'[d] = toClient[d]
  BY <1>2 DEF Receive, ReceiveOperation, ReceiveFullState, FormInv
<1>7. ASSUME ReceiveFullState(c, m)
      PROVE  LocalInv(c)' /\ Receives(c)
  <2>1. PICK u, held, l, cells, astray :
          /\ u = [s EXCEPT !.session = "joined", !.list = l, !.cells = cells,
                           !.version = m.version, !.held = <<>>, !.seen = m.version,
                           !.astray = astray]
          /\ held = s.held /\ t = Replayed(c, u, held)
    BY <1>1, <1>7 DEF ReceiveFullState, FormInv
  <2>2. /\ DOMAIN u = StoreFields /\ u.session = "joined" /\ u.version = m.version
        /\ u.held = <<>> /\ u.pending = s.pending
    BY <1>4, <2>1 DEF StoreFields
  <2>3. Like(u, t)
    <3>1. Len(held) \in Nat /\ \A i \in 1..Len(held) : held[i].author # c
      BY <1>4, <1>5, <2>1 DEF IsSequence
    <3>2. QED
      BY <2>1, <2>2, <3>1, ReplayKeeps
  <2>4. /\ DOMAIN t = StoreFields /\ t.session = "joined" /\ t.version = m.version
        /\ t.held = <<>> /\ t.pending = s.pending
    BY <2>2, <2>3 DEF Like
  <2>5. 1 \in States(c) /\ m.version \in 0..order.version /\ 1 \notin Owns(c)
    BY <1>3, <1>5, <1>7 DEF ReceiveFullState, VersionsInv, IsOwn
  <2>6. Receives(c)
    <3>1. IsSequence(t.held)
      BY <2>4 DEF IsSequence
    <3>2. QED
      BY <1>1, <1>2, <1>4, <1>6, <2>4, <2>5, <3>1 DEF Receives
  <2>7. JoinInv(c)' /\ VersionsInv(c)'
    BY <1>1, <1>3, <2>4, <2>5, <2>6, StateMovesUp
  <2>8. EchoesInv(c)'
    BY <1>1, <1>2, <1>3, <2>4, <2>5, NumbersMoveUp
  <2>9. StoreInv(c)' /\ AwayInv(c)' /\ TaskInv(c)' /\ RequestsInv(c)'
    BY <1>3, <2>6, ReceivesKeepsMost
  <2>10. QED
    BY <2>6, <2>7, <2>8, <2>9 DEF LocalInv
<1>8. ASSUME ReceiveOperation(c, m), s.session = "joining"
      PROVE  LocalInv(c)' /\ Receives(c)
  <2>1. t = [s EXCEPT !.held = Append(s.held, m)] /\ m.type # "full_state"
    <3>1. client'[c] = IF client[c].session = "joined" THEN Noted(c, client[c], m)
                       ELSE [client[c] EXCEPT !.held = Append(client[c].held, m)]
      BY <1>8 DEF ReceiveOperation, FormInv
    <3>2. m.type # "full_state"
      BY <1>8 DEF ReceiveOperation
    <3>3. QED
      BY <1>1, <1>8, <3>1, <3>2
  <2>2. /\ DOMAIN t = StoreFields /\ t.session = "joining" /\ t.version = s.version
        /\ t.pending = s.pending /\ t.held = Append(s.held, m)
    BY <1>4, <1>8, <2>1 DEF StoreFields
  <2>3. 1 \notin Owns(c) /\ 1 \notin States(c)
    <3>1. 1 \notin States(c)
      BY <1>3, <2>1
    <3>2. CASE States(c) = {}
      BY <1>1, <1>5, <1>8, <3>2 DEF JoinInv
    <3>3. CASE States(c) # {}
      <4>1. PICK i \in States(c) : \A j \in Owns(c) : i < j
        BY <1>5, <3>3 DEF JoinInv
      <4>2. ~ (i < 1)
        BY <1>3, <4>1 DEF MovedUp
      <4>3. QED
        BY <3>1, <4>1, <4>2
    <3>4. QED
      BY <3>1, <3>2, <3>3
  <2>4. m.author # c
    BY <1>3, <2>1, <2>3 DEF IsOwn
  <2>5. IsSequence(t.held) /\ \A i \in 1..Len(t.held) : t.held[i].author # c
    <3>1. PICK h, k : h = s.held /\ k = t.held /\ k = Append(h, m) /\ IsSequence(h)
      BY <1>4, <2>2
    <3>2. /\ IsSequence(k) /\ Len(k) = Len(h) + 1 /\ Len(h) \in Nat
          /\ \A i \in 1..Len(h) : k[i] = h[i]
          /\ k[Len(h) + 1] = m
      BY <3>1, AppendIsSequence DEF IsSequence
    <3>3. \A i \in 1..Len(k) : i \in 1..Len(h) \/ i = Len(h) + 1
      BY <3>2
    <3>4. QED
      BY <1>5, <2>4, <3>1, <3>2, <3>3
  <2>6. Receives(c)
    BY <1>1, <1>2, <1>4, <1>6, <2>2, <2>5 DEF Receives
  <2>7. JoinInv(c)' /\ VersionsInv(c)'
    BY <1>1, <1>3, <1>8, <2>2, <2>3, <2>5, <2>6, OperationMovesUp
  <2>8. EchoesInv(c)'
    BY <1>1, <1>2, <1>3, <2>2, <2>3, NumbersMoveUp
  <2>9. StoreInv(c)' /\ AwayInv(c)' /\ TaskInv(c)' /\ RequestsInv(c)'
    BY <1>3, <2>6, ReceivesKeepsMost
  <2>10. QED
    BY <2>6, <2>7, <2>8, <2>9 DEF LocalInv
<1>9. ASSUME ReceiveOperation(c, m), s.session = "joined"
      PROVE  LocalInv(c)' /\ Receives(c)
  <2>1. t = Noted(c, s, m) /\ m.type # "full_state" /\ 1 \notin States(c)
    BY <1>1, <1>3, <1>9 DEF ReceiveOperation, FormInv
  <2>2. /\ DOMAIN t = StoreFields /\ t.session = "joined" /\ t.version = s.version
        /\ t.held = s.held
        /\ t.pending = IF m.author = c THEN Tail(s.pending) ELSE s.pending
    <3>1. CASE m.author # c
      <4>1. Like(s, t)
        BY <1>4, <2>1, <3>1, NotedForeign
      <4>2. QED
        BY <1>9, <3>1, <4>1 DEF Like
    <3>2. CASE m.author = c
      <4>1. 1 \in Owns(c)
        BY <1>3, <2>1, <3>2 DEF IsOwn
      <4>2. ~ (m.version <= s.version)
        BY <1>1, <1>3, <1>5, <1>9, <4>1 DEF VersionsInv, NewerThan
      <4>3. s.pending # <<>>
        <5>1. Len(s.pending) > 0
          BY <1>1, <4>1, FirstEcho
        <5>2. QED
          BY <5>1
      <4>4. PICK u, a, b, l : /\ u = OwnEcho(s, m)
                              /\ t = [u EXCEPT !.seen = a, !.astray = b]
                              /\ u = [s EXCEPT !.list = l, !.pending = Tail(@)]
        <5>1. Handled(c, s, m) = OwnEcho(s, m)
          BY <3>2, <4>2 DEF Handled
        <5>2. PICK a, b : t = [OwnEcho(s, m) EXCEPT !.seen = a, !.astray = b]
          BY <2>1, <5>1 DEF Noted
        <5>3. PICK l : OwnEcho(s, m) = [s EXCEPT !.list = l, !.pending = Tail(@)]
          BY <4>3 DEF OwnEcho
        <5>4. QED
          BY <5>2, <5>3
      <4>5. QED
        BY <1>4, <1>9, <3>2, <4>4 DEF StoreFields
    <3>3. QED
      BY <3>1, <3>2
  <2>3. IsSequence(t.pending)
    <3>1. CASE m.author # c
      BY <1>4, <2>2, <3>1
    <3>2. CASE m.author = c
      <4>1. 1 \in Owns(c)
        BY <1>3, <2>1, <3>2 DEF IsOwn
      <4>2. Len(s.pending) > 0
        BY <1>1, <4>1, FirstEcho
      <4>3. PICK p : p = s.pending /\ t.pending = Tail(p) /\ IsSequence(p) /\ Len(p) > 0
        BY <1>4, <2>2, <3>2, <4>2
      <4>4. QED
        BY <4>3, TailIsSequence
    <3>3. QED
      BY <3>1, <3>2
  <2>4. Receives(c)
    BY <1>1, <1>2, <1>4, <1>6, <2>2, <2>3 DEF Receives
  <2>5. JoinInv(c)' /\ VersionsInv(c)'
    BY <1>1, <1>3, <1>5, <1>9, <2>1, <2>2, <2>4, OperationMovesUp
  <2>6. EchoesInv(c)'
    <3>1. CASE m.author # c
      <4>1. 1 \notin Owns(c)
        BY <1>3, <3>1 DEF IsOwn
      <4>2. QED
        BY <1>1, <1>2, <1>3, <2>2, <3>1, <4>1, NumbersMoveUp
    <3>2. CASE m.author = c
      <4>1. 1 \in Owns(c)
        BY <1>3, <2>1, <3>2 DEF IsOwn
      <4>2. QED
        BY <1>1, <1>2, <1>3, <2>2, <3>2, <4>1, OwnEchoSettles
    <3>3. QED
      BY <3>1, <3>2
  <2>7. StoreInv(c)' /\ AwayInv(c)' /\ TaskInv(c)' /\ RequestsInv(c)'
    BY <1>3, <2>4, ReceivesKeepsMost
  <2>8. QED
    BY <2>4, <2>5, <2>6, <2>7 DEF LocalInv
<1>10. LocalInv(c)' /\ Receives(c)
  BY <1>2, <1>4, <1>7, <1>8, <1>9
<1>11. \A d \in Client : Connected(d) => Connected(d)'
  BY <1>10 DEF Receives, Connected
<1>12. QED
  BY <1>2, <1>6, <1>10, <1>11

----------------------------------------------------------------------------
(* Any step.                                                               *)

LEMMA FormKept ==
  ASSUME FormInv, NEW c \in Client, Act(c) \/ Receive(c) \/ Handle(c)
  PROVE  FormInv' /\ order.version <= order'.version
<1>1. /\ client' = client \/ \E x : client' = [client EXCEPT ![c] = x]
      /\ made' = made \/ made' = [made EXCEPT ![c] = made[c] + 1]
  <2>1. CASE Connect(c)
    <3>1. client' = [client EXCEPT ![c].session = "joining"] /\ made' = made
      BY <2>1 DEF Connect
    <3>2. QED
      BY <3>1
  <2>2. CASE InsertCell(c) \/ DeleteCell(c) \/ MoveCell(c)
    <3>1. PICK op : Make(c, op)
      BY <2>2 DEF InsertCell, DeleteCell, MoveCell
    <3>2. PICK x : client' = [client EXCEPT ![c] = x]
      BY <3>1 DEF Make
    <3>3. made' = [made EXCEPT ![c] = made[c] + 1]
      BY <3>1 DEF Make
    <3>4. QED
      BY <3>2, <3>3
  <2>3. CASE Receive(c)
    <3>1. PICK x : client' = [client EXCEPT ![c] = x]
      BY <2>3 DEF Receive, ReceiveOperation, ReceiveFullState
    <3>2. made' = made
      BY <2>3 DEF Receive
    <3>3. QED
      BY <3>1, <3>2
  <2>4. CASE Handle(c)
    BY <2>4 DEF Handle, ApplyOperation, BeginBroadcast, Send, ReadState, ReadVersion,
                SendState
  <2>5. QED
    BY <2>1, <2>2, <2>3, <2>4 DEF Act
<1>2. task' = task \/ \E x : task' = [task EXCEPT ![c] = x]
  BY DEF Act, Connect, InsertCell, DeleteCell, MoveCell, Make, Receive,
         Handle, ApplyOperation, BeginBroadcast, SetTask,
         Send, ReadState, ReadVersion, SendState
<1>3. toServer' = toServer \/ \E x : toServer' = [toServer EXCEPT ![c] = x]
  BY DEF Act, Connect, InsertCell, DeleteCell, MoveCell, Make, Receive,
         Handle, ApplyOperation, BeginBroadcast, Takes,
         Send, ReadState, ReadVersion, SendState
<1>4. toClient' = toClient \/ \E d, x : toClient' = [toClient EXCEPT ![d] = x]
  BY DEF Act, Connect, InsertCell, DeleteCell, MoveCell, Make, Receive,
         Handle, ApplyOperation, BeginBroadcast, Deliver,
         Send, ReadState, ReadVersion, SendState
<1>5. order' = order \/ order'.version = order.version + 1
  <2>1. CASE ApplyOperation(c)
    <3>1. PICK x : order' = [version |-> order.version + 1, list |-> x]
      BY <2>1 DEF ApplyOperation, OrderAfter
    <3>2. QED
      BY <3>1
  <2>2. CASE ~ ApplyOperation(c)
    BY <2>2 DEF Act, Connect, InsertCell, DeleteCell, MoveCell, Make, Receive,
                Handle, BeginBroadcast, Send, ReadState, ReadVersion, SendState
  <2>3. QED
    BY <2>1, <2>2
<1>6. ASSUME NEW f, f = [d \in Client |-> f[d]], NEW g,
             g = f \/ \E d, x : g = [f EXCEPT ![d] = x]
      PROVE  g = [d \in Client |-> g[d]]
  BY <1>6
<1>7. /\ client' = [d \in Client |-> client'[d]]
      /\ task' = [d \in Client |-> task'[d]]
      /\ toServer' = [d \in Client |-> toServer'[d]]
      /\ toClient' = [d \in Client |-> toClient'[d]]
  <2>1. PICK f, g, h, k : f = client' /\ g = task' /\ h = toServer' /\ k = toClient'
    OBVIOUS
  <2>2. /\ f = [d \in Client |-> f[d]] /\ g = [d \in Client |-> g[d]]
        /\ h = [d \in Client |-> h[d]] /\ k = [d \in Client |-> k[d]]
    BY <1>1, <1>2, <1>3, <1>4, <1>6, <2>1 DEF FormInv
  <2>3. QED
    BY <2>1, <2>2
<1>8. made' \in [Client -> Nat]
  BY <1>1 DEF FormInv
<1>9. order'.version \in Nat /\ order.version <= order'.version
  BY <1>5 DEF FormInv
<1>10. QED
  BY <1>7, <1>8, <1>9 DEF FormInv

\* Only Send touches what another client waits for.
LEMMA OthersUnsent ==
  ASSUME NEW c \in Client, FormInv, NEW d \in Client, d # c, LocalInv(d),
         \/ ApplyOperation(c) \/ BeginBroadcast(c) \/ ReadState(c)
         \/ ReadVersion(c) \/ SendState(c),
         FormInv', order.version <= order'.version
  PROVE  LocalInv(d)'
<1>1. /\ client' = client /\ made' = made /\ task'[d] = task[d]
      /\ toServer'[d] = toServer[d] /\ toClient'[d] = toClient[d]
  BY DEF ApplyOperation, BeginBroadcast, ReadState, ReadVersion, SendState,
         Takes, SetTask, Deliver, FormInv
<1>2. SameEchoes(d)
  BY <1>1, UntouchedChannel DEF LocalInv, StoreInv
<1>3. Others(d)
  BY <1>1, <1>2 DEF Others, Connected, FormInv
<1>4. QED
  BY <1>3, OthersKeep

LEMMA SendKeeps ==
  ASSUME IInv, NEW c \in Client, Send(c), NEW d \in Client
  PROVE  LocalInv(d)'
<1>1. PICK e \in task[c].rest :
        /\ Deliver(e, task[c].message)
        /\ SetTask(c, IF task[c].rest = {e} THEN Idle
                      ELSE [task[c] EXCEPT !.rest = @ \ {e}])
  BY DEF Send
<1>2. /\ task[c].at = "broadcast" /\ UNCHANGED <<order, toServer, client, made>>
      /\ FormInv /\ LocalInv(c) /\ LocalInv(d)
  BY DEF Send, IInv
<1>3. /\ e \in Client /\ Connected(e) /\ task[c].message.author = c
      /\ task[c].message.type \in OperationTypes
  BY <1>2 DEF LocalInv, TaskInv, HasAnswer
<1>4. /\ task'[c] = Rest(c, e)
      /\ toClient'[e] = Append(toClient[e], task[c].message)
      /\ \A f \in Client : f # c => task'[f] = task[f]
      /\ \A f \in Client : f # e => toClient'[f] = toClient[f]
  BY <1>1, <1>2, <1>3 DEF SetTask, Deliver, FormInv, Rest
<1>5. CASE d = c /\ e = c
  <2>1. LocalInv(c)'
    BY <1>2, <1>4, <1>5, SendBackKeeps
  <2>2. QED
    BY <1>5, <2>1
<1>6. CASE d = c /\ e # c
  <2>1. LocalInv(c)'
    BY <1>2, <1>4, <1>6, SendToOtherKeeps
  <2>2. QED
    BY <1>6, <2>1
<1>7. CASE d # c
  <2>1. IsSequence(toClient[d])
    BY <1>2 DEF LocalInv, StoreInv
  <2>2. SameEchoes(d)
    <3>1. CASE d = e
      <4>1. PICK m : m = task[c].message
        OBVIOUS
      <4>2. /\ m.type # "full_state" /\ m.author # d
            /\ toClient'[d] = Append(toClient[d], m)
        BY <1>3, <1>4, <1>7, <3>1, <4>1 DEF OperationTypes
      <4>3. QED
        BY <2>1, <4>2, ForeignAppended
    <3>2. CASE d # e
      BY <1>4, <2>1, <3>2, UntouchedChannel
    <3>3. QED
      BY <3>1, <3>2
  <2>3. client[d].session = "away" => toClient'[d] = toClient[d]
    BY <1>3, <1>4 DEF Connected
  <2>4. Others(d)
    BY <1>2, <1>4, <1>7, <2>2, <2>3 DEF Others, Connected, FormInv
  <2>5. QED
    BY <1>2, <2>4, OthersKeep
<1>8. QED
  BY <1>5, <1>6, <1>7

LEMMA StepKeeps ==
  ASSUME IInv, NEW c \in Client, Act(c) \/ Receive(c) \/ Handle(c), NEW d \in Client
  PROVE  LocalInv(d)'
<1>1. FormInv /\ LocalInv(c) /\ LocalInv(d)
  BY DEF IInv
<1>2. FormInv' /\ order.version <= order'.version
  BY <1>1, FormKept
<1>3. CASE Act(c)
  <2>1. /\ LocalInv(c)' /\ Connected(c)' /\ UNCHANGED <<order, task, toClient>>
        /\ \A f \in Client : f # c => /\ client'[f] = client[f] /\ made'[f] = made[f]
                                      /\ toServer'[f] = toServer[f]
    BY <1>1, <1>3, ActKeeps
  <2>2. ASSUME d # c
        PROVE  LocalInv(d)'
    <3>1. SameEchoes(d)
      BY <1>1, <2>1, UntouchedChannel DEF LocalInv, StoreInv
    <3>2. \A f \in Client : Connected(f) => Connected(f)'
      BY <2>1 DEF Connected
    <3>3. Others(d)
      BY <1>1, <1>2, <2>1, <2>2, <3>1, <3>2 DEF Others, FormInv
    <3>4. QED
      BY <1>1, <3>3, OthersKeep
  <2>3. QED
    BY <2>1, <2>2
<1>4. CASE Receive(c)
  <2>1. /\ LocalInv(c)' /\ UNCHANGED <<order, task, toServer, made>>
        /\ \A f \in Client : Connected(f) => Connected(f)'
        /\ \A f \in Client : f # c =>
             client'[f] = client[f] /\ toClient'[f] = toClient[f]
    BY <1>1, <1>4, ReceiveKeeps
  <2>2. ASSUME d # c
        PROVE  LocalInv(d)'
    <3>1. SameEchoes(d)
      BY <1>1, <2>1, <2>2, UntouchedChannel DEF LocalInv, StoreInv
    <3>2. Others(d)
      BY <1>1, <1>2, <2>1, <2>2, <3>1 DEF Others, FormInv
    <3>3. QED
      BY <1>1, <3>2, OthersKeep
  <2>3. QED
    BY <2>1, <2>2
<1>5. CASE Send(c)
  BY <1>5, SendKeeps
<1>6. CASE \/ ApplyOperation(c) \/ BeginBroadcast(c) \/ ReadState(c)
           \/ ReadVersion(c) \/ SendState(c)
  <2>1. LocalInv(c)'
    BY <1>1, <1>6, ApplyKeeps, BeginBroadcastKeeps, ReadStateKeeps, ReadVersionKeeps,
       SendStateKeeps
  <2>2. d # c => LocalInv(d)'
    BY <1>1, <1>2, <1>6, OthersUnsent
  <2>3. QED
    BY <2>1, <2>2
<1>7. QED
  BY <1>3, <1>4, <1>5, <1>6 DEF Handle

----------------------------------------------------------------------------
(* What follows.                                                           *)

LEMMA InitInv ==
  ASSUME Init
  PROVE  IInv
<1>1. FormInv
  BY DEF Init, FormInv
<1>2. ASSUME NEW c \in Client
      PROVE  LocalInv(c)
  <2>1. PICK s : s = client[c]
    OBVIOUS
  <2>2. /\ DOMAIN s = StoreFields /\ s.session \in {"away", "joined"}
        /\ s.version = 0 /\ s.pending = <<>> /\ s.held = <<>>
        /\ s.session = "away" => s.list = EmptyList
    BY <2>1 DEF Init, StoreFields
  <2>3. /\ toServer[c] = <<>> /\ toClient[c] = <<>> /\ task[c].at = "idle"
        /\ made[c] = 0 /\ order.version = 0
    BY DEF Init, Idle
  <2>4. /\ States(c) = {} /\ Owns(c) = {} /\ ~ HasJoin(c) /\ ~ Reading(c)
        /\ ~ Sending(c) /\ ~ HasAnswer(c)
    BY <2>3 DEF States, Owns, HasJoin, Reading, Sending, HasAnswer
  <2>5. StoreInv(c)
    BY <2>1, <2>2, <2>3 DEF StoreInv, IsSequence
  <2>6. AwayInv(c) /\ TaskInv(c)
    BY <2>1, <2>2, <2>3, <2>4 DEF AwayInv, TaskInv
  <2>7. RequestsInv(c) /\ JoinInv(c) /\ VersionsInv(c)
    BY <2>1, <2>2, <2>3, <2>4 DEF RequestsInv, JoinInv, VersionsInv, NewerThan
  <2>8. EchoesInv(c)
    <3>1. Settled(c) = 0 /\ Taken(c) = 0 /\ Echoed(c) = 0
      <4>1. Len(client[c].pending) = 0 /\ Len(toServer[c]) = 0
        BY <2>1, <2>2, <2>3
      <4>2. Settled(c) = 0
        BY <2>3, <4>1 DEF Settled
      <4>3. Taken(c) = 0
        BY <2>3, <2>4, <4>1 DEF Taken
      <4>4. QED
        BY <2>4, <4>2, <4>3 DEF Echoed
    <3>2. QED
      BY <2>1, <2>2, <2>4, <3>1 DEF EchoesInv
  <2>9. QED
    BY <2>5, <2>6, <2>7, <2>8 DEF LocalInv
<1>3. QED
  BY <1>1, <1>2 DEF IInv

LEMMA NumbersOf ==
  ASSUME NEW c \in Client, FormInv, LocalInv(c)
  PROVE  /\ made[c] \in Nat /\ Settled(c) \in Nat /\ Taken(c) \in Int
         /\ Len(toServer[c]) \in Nat
         /\ Len(client[c].pending) = made[c] - Settled(c)
         /\ Settled(c) <= Echoed(c) /\ Taken(c) <= made[c]
         /\ Echoed(c) = IF Sending(c) THEN Taken(c) - 1 ELSE Taken(c)
         /\ Taken(c) = IF HasJoin(c) THEN made[c] - Len(toServer[c]) + 1
                       ELSE made[c] - Len(toServer[c])
<1>1. made[c] \in Nat /\ Len(toServer[c]) \in Nat /\ Len(client[c].pending) \in Nat
  BY DEF FormInv, LocalInv, StoreInv, IsSequence
<1>2. Settled(c) \in Nat /\ Settled(c) <= Echoed(c)
  BY DEF LocalInv, EchoesInv
<1>3. Len(client[c].pending) = made[c] - Settled(c)
  BY <1>1 DEF Settled
<1>4. Taken(c) = IF HasJoin(c) THEN made[c] - Len(toServer[c]) + 1
                 ELSE made[c] - Len(toServer[c])
  BY <1>1 DEF Taken
<1>5. HasJoin(c) => Len(toServer[c]) > 0
  BY DEF LocalInv, StoreInv, HasJoin, IsSequence
<1>6. Taken(c) \in Int /\ Taken(c) <= made[c]
  BY <1>1, <1>4, <1>5
<1>7. QED
  BY <1>1, <1>2, <1>3, <1>4, <1>6 DEF Echoed

InChannel(c, p) ==
  /\ p[1] = 2 /\ p[2] \in Owns(c)
  /\ \E n \in Settled(c) + 1..Echoed(c) : AwaitedId(c, p) = <<c, n>>

InTask(c, p) == p[1] = 3 /\ p[2] = 1 /\ Sending(c) /\ AwaitedId(c, p) = <<c, Taken(c)>>

InRequests(c, p) ==
  /\ p[1] = 4 /\ p[2] \in 1..Len(toServer[c])
  /\ Taken(c) < made[c] - Len(toServer[c]) + p[2]
  /\ AwaitedId(c, p) = <<c, made[c] - Len(toServer[c]) + p[2]>>

LEMMA PlaceOf ==
  ASSUME NEW c \in Client, FormInv, LocalInv(c), NEW p \in Awaited(c)
  PROVE  InChannel(c, p) \/ InTask(c, p) \/ InRequests(c, p)
<1>1. PICK h, q, r : h = client[c].held /\ q = toClient[c] /\ r = toServer[c]
  OBVIOUS
<1>2. DOMAIN h = 1..Len(h) /\ DOMAIN q = 1..Len(q) /\ DOMAIN r = 1..Len(r)
  BY <1>1 DEF LocalInv, StoreInv, IsSequence
<1>3. \/ \E i \in 1..Len(h) : p = <<1, i>> /\ IsOwn(c, h[i])
      \/ \E i \in 1..Len(q) : p = <<2, i>> /\ IsOwn(c, q[i])
      \/ p = <<3, 1>> /\ Sending(c)
      \/ \E i \in 1..Len(r) : p = <<4, i>> /\ r[i].type # "join"
  BY <1>1, <1>2 DEF Awaited, Sending
<1>4. ASSUME NEW i \in 1..Len(h), p = <<1, i>>, IsOwn(c, h[i])
      PROVE  FALSE
  BY <1>1, <1>4 DEF IsOwn, LocalInv, JoinInv
<1>5. ASSUME NEW i \in 1..Len(q), p = <<2, i>>, IsOwn(c, q[i])
      PROVE  InChannel(c, p)
  <2>1. i \in Owns(c) /\ AwaitedId(c, p) = q[i].id
    BY <1>1, <1>5 DEF Owns, AwaitedId
  <2>2. QED
    BY <1>1, <1>5, <2>1 DEF InChannel, LocalInv, EchoesInv
<1>6. ASSUME p = <<3, 1>>, Sending(c)
      PROVE  InTask(c, p)
  <2>1. AwaitedId(c, p) = task[c].message.id
    BY <1>6 DEF AwaitedId
  <2>2. QED
    BY <1>6, <2>1 DEF InTask, LocalInv, EchoesInv
<1>7. ASSUME NEW i \in 1..Len(r), p = <<4, i>>, r[i].type # "join"
      PROVE  InRequests(c, p)
  <2>1. AwaitedId(c, p) = r[i].id
    BY <1>1, <1>7 DEF AwaitedId
  <2>2. HasJoin(c) => i # 1
    BY <1>1, <1>7 DEF HasJoin
  <2>3. r[i].id = <<c, made[c] - Len(r) + i>>
    BY <1>1, <2>2 DEF LocalInv, RequestsInv
  <2>4. Taken(c) < made[c] - Len(r) + i
    BY <1>1, <2>2, NumbersOf
  <2>5. QED
    BY <1>1, <1>7, <2>1, <2>3, <2>4 DEF InRequests
<1>8. QED
  BY <1>3, <1>4, <1>5, <1>6, <1>7

\* Numbers of what is awaited: of a pending operation, and in the order of arrival.
LEMMA AwaitedNumber ==
  ASSUME NEW c \in Client, FormInv, LocalInv(c), NEW p \in Awaited(c)
  PROVE  \E n \in Settled(c) + 1..made[c] : AwaitedId(c, p) = <<c, n>>
<1>1. CASE InChannel(c, p)
  <2>1. Settled(c) + 1..Echoed(c) \subseteq Settled(c) + 1..made[c]
    BY NumbersOf
  <2>2. QED
    BY <1>1, <2>1 DEF InChannel
<1>2. CASE InTask(c, p)
  <2>1. Taken(c) \in Settled(c) + 1..made[c]
    BY <1>2, NumbersOf DEF InTask
  <2>2. QED
    BY <1>2, <2>1 DEF InTask
<1>3. CASE InRequests(c, p)
  <2>1. PICK j, made_, length, settled, taken :
          /\ j = p[2] /\ made_ = made[c] /\ length = Len(toServer[c])
          /\ settled = Settled(c) /\ taken = Taken(c)
    OBVIOUS
  <2>2. /\ made_ \in Nat /\ length \in Nat /\ settled \in Nat /\ taken \in Int
        /\ settled <= Echoed(c)
        /\ Echoed(c) = IF Sending(c) THEN taken - 1 ELSE taken
    BY <2>1, NumbersOf
  <2>3. settled <= taken
    BY <2>2
  <2>4. j \in 1..length /\ taken < made_ - length + j
    BY <1>3, <2>1 DEF InRequests
  <2>5. made_ - length + j \in settled + 1..made_
    BY <2>2, <2>3, <2>4
  <2>6. QED
    BY <1>3, <2>1, <2>5 DEF InRequests
<1>4. QED
  BY <1>1, <1>2, <1>3, PlaceOf

LEMMA AwaitedInOrder ==
  ASSUME NEW c \in Client, FormInv, LocalInv(c),
         NEW p \in Awaited(c), NEW q \in Awaited(c), ArrivesBefore(p, q),
         NEW m \in Nat, NEW n \in Nat,
         AwaitedId(c, p) = <<c, m>>, AwaitedId(c, q) = <<c, n>>
  PROVE  m < n
<1>1. CASE InChannel(c, p) /\ InChannel(c, q)
  <2>1. p[2] \in Owns(c) /\ q[2] \in Owns(c) /\ p[2] < q[2]
    BY <1>1 DEF InChannel, ArrivesBefore
  <2>2. toClient[c][p[2]].id = <<c, m>> /\ toClient[c][q[2]].id = <<c, n>>
    BY <1>1 DEF InChannel, AwaitedId
  <2>3. toClient[c][p[2]].id[2] < toClient[c][q[2]].id[2]
    BY <2>1 DEF LocalInv, EchoesInv
  <2>4. QED
    BY <2>2, <2>3
<1>2. CASE InChannel(c, p) /\ ~ InChannel(c, q)
  <2>1. m <= Echoed(c)
    BY <1>2 DEF InChannel
  <2>2. InTask(c, q) => n = Taken(c) /\ Sending(c)
    BY DEF InTask
  <2>3. InRequests(c, q) => Taken(c) < n
    BY DEF InRequests
  <2>4. InTask(c, q) \/ InRequests(c, q)
    BY <1>2, PlaceOf
  <2>5. QED
    BY <2>1, <2>2, <2>3, <2>4, NumbersOf
<1>3. CASE InTask(c, p)
  <2>1. m = Taken(c) /\ p[1] = 3 /\ p[2] = 1
    BY <1>3 DEF InTask
  <2>2. ~ InChannel(c, q) /\ ~ InTask(c, q)
    BY <2>1 DEF InChannel, InTask, ArrivesBefore
  <2>3. InRequests(c, q)
    BY <2>2, PlaceOf
  <2>4. Taken(c) < n
    BY <2>3 DEF InRequests
  <2>5. QED
    BY <2>1, <2>4
<1>4. CASE InRequests(c, p)
  <2>1. ~ InChannel(c, q) /\ ~ InTask(c, q)
    BY <1>4 DEF InChannel, InTask, InRequests, ArrivesBefore
  <2>2. InRequests(c, q) /\ p[2] < q[2]
    BY <1>4, <2>1, PlaceOf DEF InRequests, ArrivesBefore
  <2>3. PICK k \in Int : k = made[c] - Len(toServer[c])
    BY NumbersOf
  <2>4. /\ p[2] \in Int /\ m = k + p[2]
        /\ q[2] \in Int /\ n = k + q[2]
    BY <1>4, <2>2, <2>3 DEF InRequests
  <2>5. QED
    BY <2>2, <2>3, <2>4
<1>5. QED
  BY <1>1, <1>2, <1>3, <1>4, PlaceOf

LEMMA NumberAwaited ==
  ASSUME NEW c \in Client, FormInv, LocalInv(c), NEW n \in Settled(c) + 1..made[c]
  PROVE  \E p \in Awaited(c) : AwaitedId(c, p) = <<c, n>>
<1>1. PICK q, r, a : q = toClient[c] /\ r = toServer[c] /\ a = Settled(c) /\ a \in Nat
  BY NumbersOf
<1>2. /\ DOMAIN q = 1..Len(q) /\ DOMAIN r = 1..Len(r)
      /\ Len(r) \in Nat /\ Len(q) \in Nat
  BY <1>1 DEF LocalInv, StoreInv, IsSequence
<1>3. CASE n <= Echoed(c)
  <2>1. n \in Settled(c) + 1..Echoed(c)
    BY <1>3, NumbersOf
  <2>2. PICK i \in Owns(c) : q[i].id = <<c, n>>
    BY <1>1, <2>1 DEF LocalInv, EchoesInv
  <2>3. i \in DOMAIN q /\ IsOwn(c, q[i])
    BY <1>1, <1>2, <2>2 DEF Owns
  <2>4. <<2, i>> \in Awaited(c)
    BY <1>1, <2>3 DEF Awaited
  <2>5. AwaitedId(c, <<2, i>>) = <<c, n>>
    BY <1>1, <2>2 DEF AwaitedId
  <2>6. QED
    BY <2>4, <2>5
<1>4. CASE n > Echoed(c) /\ n <= Taken(c)
  <2>1. Sending(c) /\ n = Taken(c)
    BY <1>1, <1>4, NumbersOf
  <2>2. <<3, 1>> \in Awaited(c)
    BY <2>1 DEF Awaited, Sending
  <2>3. AwaitedId(c, <<3, 1>>) = <<c, n>>
    BY <2>1 DEF AwaitedId, LocalInv, EchoesInv
  <2>4. QED
    BY <2>2, <2>3
<1>5. CASE n > Taken(c)
  <2>1. PICK i \in Int : i = n - made[c] + Len(r) /\ n = made[c] - Len(r) + i
    BY <1>1, <1>2, NumbersOf
  <2>2. i \in 1..Len(r) /\ (HasJoin(c) => i # 1)
    <3>1. PICK z \in Nat, t \in Int : z = made[c] /\ t = Taken(c)
      BY NumbersOf
    <3>2. /\ t < n /\ n <= z /\ i = n - z + Len(r) /\ n \in Int
          /\ t = IF HasJoin(c) THEN z - Len(r) + 1 ELSE z - Len(r)
      <4>1. n \in Int /\ n <= z /\ t < n
        BY <1>1, <1>5, <3>1, NumbersOf
      <4>2. i = n - z + Len(r)
        BY <2>1, <3>1
      <4>3. t = IF HasJoin(c) THEN z - Len(r) + 1 ELSE z - Len(r)
        BY <1>1, <3>1, NumbersOf
      <4>4. QED
        BY <4>1, <4>2, <4>3
    <3>3. CASE HasJoin(c)
      BY <1>2, <3>2, <3>3
    <3>4. CASE ~ HasJoin(c)
      BY <1>2, <3>2, <3>4
    <3>5. QED
      BY <3>3, <3>4
  <2>3. r[i].type \in OperationTypes /\ r[i].id = <<c, n>>
    BY <1>1, <2>1, <2>2 DEF LocalInv, RequestsInv
  <2>4. <<4, i>> \in Awaited(c)
    BY <1>1, <1>2, <2>2, <2>3 DEF Awaited, OperationTypes
  <2>5. AwaitedId(c, <<4, i>>) = <<c, n>>
    BY <1>1, <2>3 DEF AwaitedId
  <2>6. QED
    BY <2>4, <2>5
<1>6. QED
  BY <1>1, <1>3, <1>4, <1>5, NumbersOf

LEMMA EchoesMatch ==
  ASSUME IInv
  PROVE  EchoesMatchPending
<1> SUFFICES ASSUME NEW c \in Client, NEW s, s = client[c].pending
             PROVE  /\ \A k \in DOMAIN s :
                         /\ \E p \in Awaited(c) : AwaitedId(c, p) = s[k].id
                         /\ \A l \in DOMAIN s : s[l].id = s[k].id => l = k
                    /\ \A p \in Awaited(c) : \E k \in DOMAIN s :
                         /\ AwaitedId(c, p) = s[k].id
                         /\ \A q \in Awaited(c) : ArrivesBefore(p, q) =>
                              \E l \in DOMAIN s : k < l /\ AwaitedId(c, q) = s[l].id
  BY DEF EchoesMatchPending
<1>1. FormInv /\ LocalInv(c)
  BY DEF IInv
<1>2. PICK a, z : a = Settled(c) /\ z = made[c] /\ a \in Nat /\ z \in Nat
  BY <1>1, NumbersOf
<1>3. /\ DOMAIN s = 1..z - a
      /\ \A k \in 1..z - a : s[k].id = <<c, a + k>>
  BY <1>1, <1>2, NumbersOf DEF LocalInv, StoreInv, IsSequence, EchoesInv
<1>4. ASSUME NEW k \in 1..z - a
      PROVE  /\ \E p \in Awaited(c) : AwaitedId(c, p) = s[k].id
             /\ \A l \in 1..z - a : s[l].id = s[k].id => l = k
  <2>1. a + k \in a + 1..z
    BY <1>2
  <2>2. \E p \in Awaited(c) : AwaitedId(c, p) = s[k].id
    BY <1>1, <1>2, <1>3, <2>1, NumberAwaited
  <2>3. ASSUME NEW l \in 1..z - a, s[l].id = s[k].id
        PROVE  l = k
    <3>1. a + l = a + k
      BY <1>3, <2>3
    <3>2. QED
      BY <1>2, <3>1
  <2>4. QED
    BY <2>2, <2>3
<1>5. ASSUME NEW p \in Awaited(c)
      PROVE  \E n \in a + 1..z : /\ AwaitedId(c, p) = <<c, n>>
                                 /\ n - a \in 1..z - a /\ s[n - a].id = <<c, n>>
  <2>1. PICK n \in a + 1..z : AwaitedId(c, p) = <<c, n>>
    BY <1>1, <1>2, AwaitedNumber
  <2>2. n - a \in 1..z - a /\ a + (n - a) = n
    BY <1>2
  <2>3. QED
    BY <1>3, <2>1, <2>2
<1>6. ASSUME NEW p \in Awaited(c)
      PROVE  \E k \in 1..z - a :
               /\ AwaitedId(c, p) = s[k].id
               /\ \A q \in Awaited(c) : ArrivesBefore(p, q) =>
                    \E l \in 1..z - a : k < l /\ AwaitedId(c, q) = s[l].id
  <2>1. PICK m \in a + 1..z : /\ AwaitedId(c, p) = <<c, m>>
                              /\ m - a \in 1..z - a /\ s[m - a].id = <<c, m>>
    BY <1>5
  <2>2. ASSUME NEW q \in Awaited(c), ArrivesBefore(p, q)
        PROVE  \E l \in 1..z - a : m - a < l /\ AwaitedId(c, q) = s[l].id
    <3>1. PICK n \in a + 1..z : /\ AwaitedId(c, q) = <<c, n>>
                                /\ n - a \in 1..z - a /\ s[n - a].id = <<c, n>>
      BY <1>5
    <3>2. m \in Nat /\ n \in Nat
      BY <1>2
    <3>3. m < n
      BY <1>1, <2>1, <2>2, <3>1, <3>2, AwaitedInOrder
    <3>4. m - a < n - a
      BY <1>2, <3>3
    <3>5. QED
      BY <3>1, <3>4
  <2>3. QED
    BY <2>1, <2>2
<1>7. \A k \in DOMAIN s : /\ \E p \in Awaited(c) : AwaitedId(c, p) = s[k].id
                          /\ \A l \in DOMAIN s : s[l].id = s[k].id => l = k
  BY <1>3, <1>4
<1>8. \A p \in Awaited(c) : \E k \in DOMAIN s :
        /\ AwaitedId(c, p) = s[k].id
        /\ \A q \in Awaited(c) : ArrivesBefore(p, q) =>
             \E l \in DOMAIN s : k < l /\ AwaitedId(c, q) = s[l].id
  BY <1>3, <1>6
<1>9. QED
  BY <1>7, <1>8

\* The invariant of the echoes, for any clients, cells and operations.
THEOREM EchoInvariance == Spec => []IInv
<1>1. Init => IInv
  BY InitInv
<1>2. IInv /\ [Next]_vars => IInv'
  <2> SUFFICES ASSUME IInv, [Next]_vars
               PROVE  IInv'
    OBVIOUS
  <2>1. ASSUME NEW c \in Client, Act(c) \/ Receive(c) \/ Handle(c)
        PROVE  IInv'
    <3>1. FormInv'
      BY <2>1, FormKept DEF IInv
    <3>2. \A d \in Client : LocalInv(d)'
      BY <2>1, StepKeeps
    <3>3. QED
      BY <3>1, <3>2 DEF IInv
  <2>2. CASE UNCHANGED vars
    <3>1. FormInv' /\ FormInv
      BY <2>2 DEF vars, IInv, FormInv
    <3>2. ASSUME NEW d \in Client
          PROVE  LocalInv(d)'
      <4>1. LocalInv(d)
        BY DEF IInv
      <4>2. SameEchoes(d)
        BY <2>2, <4>1, UntouchedChannel DEF vars, LocalInv, StoreInv
      <4>3. Others(d)
        BY <2>2, <3>1, <4>2 DEF vars, Others, Connected, FormInv
      <4>4. QED
        BY <3>1, <4>1, <4>3, OthersKeep
    <3>3. QED
      BY <3>1, <3>2 DEF IInv
  <2>3. QED
    BY <2>1, <2>2 DEF Next
<1>3. QED
  BY <1>1, <1>2, PTL DEF Spec

\* EchoesMatchPending: the echo that comes back to a client is always that of its
\* first pending operation, though the client does not look at the id
\* (notebookEngine.ts:229-239); for any clients and operations, however long the
\* broadcasts take and whenever a client joins.
THEOREM EchoesMatchPendingAlways == Spec => []EchoesMatchPending
<1>1. IInv => EchoesMatchPending
  BY EchoesMatch
<1>2. QED
  BY <1>1, EchoInvariance, PTL

----------------------------------------------------------------------------
(* The order of the indexes.                                               *)

LEMMA IndexShape ==
  ASSUME NEW i \in Index
  PROVE  /\ Len(i) \in Nat \ {0} /\ DOMAIN i = 1..Len(i)
         /\ \A n \in 1..Len(i) : i[n] \in Int
         /\ 1 \in DOMAIN i
<1>1. i \in Seq(Int) /\ i # <<>>
  BY DEF Index
<1>2. QED
  BY <1>1

LEMMA IndexOf ==
  ASSUME NEW i \in Seq(Int), NEW n \in DOMAIN i
  PROVE  i \in Index
BY DEF Index

LEMMA PrecIrreflexive ==
  ASSUME NEW i \in Index
  PROVE  ~ (i \prec i)
BY IndexShape DEF \prec, LessAt

LEMMA PrecTransitive ==
  ASSUME NEW i \in Index, NEW j \in Index, NEW l \in Index, i \prec j, j \prec l
  PROVE  i \prec l
<1>1. PICK k \in DOMAIN j : LessAt(i, j, k)
  BY DEF \prec
<1>2. PICK m \in DOMAIN l : LessAt(j, l, m)
  BY DEF \prec
<1>3. /\ DOMAIN i = 1..Len(i) /\ DOMAIN j = 1..Len(j) /\ DOMAIN l = 1..Len(l)
      /\ Len(i) \in Nat /\ Len(j) \in Nat /\ Len(l) \in Nat
      /\ \A n \in 1..Len(i) : i[n] \in Int
      /\ \A n \in 1..Len(j) : j[n] \in Int
      /\ \A n \in 1..Len(l) : l[n] \in Int
  BY IndexShape
<1>4. k \in Nat /\ m \in Nat
  BY <1>1, <1>2, <1>3
<1>5. CASE k <= m
  <2>1. k \in DOMAIN l
    BY <1>2, <1>3, <1>4, <1>5
  <2>2. \A n \in 1..k-1 : n \in DOMAIN i /\ i[n] = l[n]
    BY <1>1, <1>2, <1>4, <1>5 DEF LessAt
  <2>3. j[k] <= l[k]
    BY <1>1, <1>2, <1>3, <1>4, <1>5 DEF LessAt
  <2>4. k \in DOMAIN i => i[k] < l[k]
    BY <1>1, <1>3, <2>1, <2>3 DEF LessAt
  <2>5. QED
    BY <2>1, <2>2, <2>4 DEF \prec, LessAt
<1>6. CASE m < k
  <2>1. m \in DOMAIN i /\ i[m] = j[m] /\ m \in DOMAIN j
    BY <1>1, <1>2, <1>3, <1>4, <1>6 DEF LessAt
  <2>2. i[m] < l[m]
    BY <1>2, <2>1 DEF LessAt
  <2>3. \A n \in 1..m-1 : n \in DOMAIN i /\ i[n] = l[n]
    BY <1>1, <1>2, <1>4, <1>6 DEF LessAt
  <2>4. QED
    BY <1>2, <2>2, <2>3 DEF \prec, LessAt
<1>7. QED
  BY <1>4, <1>5, <1>6

LEMMA PrecTotal ==
  ASSUME NEW i \in Index, NEW j \in Index, i # j
  PROVE  (i \prec j) \/ (j \prec i)
<1>1. /\ DOMAIN i = 1..Len(i) /\ DOMAIN j = 1..Len(j)
      /\ Len(i) \in Nat /\ Len(j) \in Nat
      /\ \A n \in 1..Len(i) : i[n] \in Int
      /\ \A n \in 1..Len(j) : j[n] \in Int
      /\ i \in Seq(Int) /\ j \in Seq(Int)
  BY IndexShape DEF Index
<1> DEFINE Same(n) == n \in DOMAIN i /\ n \in DOMAIN j /\ i[n] = j[n]
           bad == {n \in Nat : n # 0 /\ ~ Same(n)}
<1>2. Len(i) + 1 \in bad
  BY <1>1
<1>3. PICK m \in bad : \A n \in bad : m <= n
  <2>1. bad \in SUBSET Nat /\ bad # {}
    BY <1>2
  <2> HIDE DEF bad
  <2>2. QED
    BY <2>1, LeastOf
<1>4. m \in Nat \ {0}
  OBVIOUS
<1>5. \A n \in 1..m-1 : Same(n)
  <2>1. ASSUME NEW n \in 1..m-1, ~ Same(n)
        PROVE  FALSE
    <3>1. n \in Nat /\ n # 0 /\ ~ (m <= n)
      BY <1>4, <2>1
    <3>2. n \in bad
      BY <3>1, <2>1
    <3>3. QED
      BY <1>3, <3>1, <3>2
  <2>2. QED
    BY <2>1
<1>6. ~ Same(m)
  BY <1>3
<1> HIDE DEF bad
<1>7. CASE m \in DOMAIN i /\ m \in DOMAIN j
  <2>1. i[m] # j[m] /\ i[m] \in Int /\ j[m] \in Int
    BY <1>1, <1>6, <1>7
  <2>2. i[m] < j[m] \/ j[m] < i[m]
    BY <2>1
  <2>3. QED
    BY <1>5, <1>7, <2>2 DEF \prec, LessAt
<1>8. CASE m \in DOMAIN j /\ m \notin DOMAIN i
  BY <1>5, <1>8 DEF \prec, LessAt
<1>9. CASE m \in DOMAIN i /\ m \notin DOMAIN j
  BY <1>5, <1>9 DEF \prec, LessAt
<1>10. CASE m \notin DOMAIN i /\ m \notin DOMAIN j
  <2>1. Len(i) = m - 1 /\ Len(j) = m - 1
    <3>1. Len(i) < m /\ Len(j) < m
      BY <1>1, <1>4, <1>10
    <3>2. m - 1 = 0 \/ (m - 1 \in DOMAIN i /\ m - 1 \in DOMAIN j)
      BY <1>4, <1>5
    <3>3. m - 1 <= Len(i) /\ m - 1 <= Len(j)
      BY <1>1, <1>4, <3>2
    <3>4. QED
      BY <1>1, <1>4, <3>1, <3>3
  <2>2. i = j
    BY <1>1, <1>5, <2>1
  <2>3. QED
    BY <2>2
<1>11. QED
  BY <1>7, <1>8, <1>9, <1>10

LEMMA PrecAsymmetric ==
  ASSUME NEW i \in Index, NEW j \in Index, i \prec j
  PROVE  ~ (j \prec i) /\ i # j
BY PrecTransitive, PrecIrreflexive

LEMMA EndsFit ==
  ASSUME NEW i \in Index
  PROVE  /\ After(i) \in Index /\ i \prec After(i)
         /\ Before(i) \in Index /\ Before(i) \prec i
<1>1. i[1] \in Int /\ 1 \in DOMAIN i
  BY IndexShape
<1>2. PICK x, y : x = After(i) /\ y = Before(i)
  OBVIOUS
<1>3. /\ x \in Seq(Int) /\ DOMAIN x = {1} /\ x[1] = i[1] + 1
      /\ y \in Seq(Int) /\ DOMAIN y = {1} /\ y[1] = i[1] - 1
  BY <1>1, <1>2 DEF After, Before
<1>4. x \in Index /\ y \in Index
  BY <1>3 DEF Index
<1>5. LessAt(i, x, 1) /\ LessAt(y, i, 1)
  BY <1>1, <1>3 DEF LessAt
<1>6. QED
  BY <1>1, <1>2, <1>3, <1>4, <1>5 DEF \prec

LEMMA BetweenFits ==
  ASSUME NEW i \in Index, NEW j \in Index, i \prec j
  PROVE  /\ Between(i, j) \in Index
         /\ i \prec Between(i, j) /\ Between(i, j) \prec j
<1>1. PICK k : k = (CHOOSE n \in DOMAIN j : LessAt(i, j, n))
  OBVIOUS
<1>2. k \in DOMAIN j /\ LessAt(i, j, k)
  BY <1>1 DEF \prec
<1>3. /\ DOMAIN i = 1..Len(i) /\ DOMAIN j = 1..Len(j)
      /\ Len(i) \in Nat /\ Len(j) \in Nat
      /\ \A n \in 1..Len(i) : i[n] \in Int
      /\ \A n \in 1..Len(j) : j[n] \in Int
      /\ i \in Seq(Int)
  BY IndexShape DEF Index
<1>4. k \in Nat \ {0} /\ \A n \in 1..k-1 : n \in DOMAIN i /\ i[n] = j[n]
  BY <1>2, <1>3 DEF LessAt
<1>5. PICK b : b = Between(i, j)
  OBVIOUS
<1>6. CASE k \notin DOMAIN i
  <2>1. b = Append(i, j[k] - 1)
    BY <1>1, <1>5, <1>6 DEF Between
  <2>2. Len(i) = k - 1
    <3>1. Len(i) < k
      BY <1>3, <1>4, <1>6
    <3>2. k - 1 = 0 \/ k - 1 \in DOMAIN i
      BY <1>4
    <3>3. QED
      BY <1>3, <1>4, <3>1, <3>2
  <2>3. j[k] - 1 \in Int /\ j[k] - 1 < j[k]
    BY <1>2, <1>3
  <2>4. /\ b \in Seq(Int) /\ DOMAIN b = 1..k /\ b[k] = j[k] - 1
        /\ \A n \in 1..k-1 : b[n] = i[n]
    BY <1>3, <1>4, <2>1, <2>2, <2>3
  <2>5. LessAt(i, b, k)
    BY <1>3, <1>4, <1>6, <2>4 DEF LessAt
  <2>6. LessAt(b, j, k)
    BY <1>2, <1>4, <2>3, <2>4 DEF LessAt
  <2>7. k \in DOMAIN b
    BY <1>4, <2>4
  <2>8. b \in Index
    BY <2>4, <2>7, IndexOf
  <2>9. QED
    BY <1>2, <1>5, <2>5, <2>6, <2>7, <2>8 DEF \prec
<1>7. CASE k \in DOMAIN i /\ i[k] + 1 = j[k]
  <2>1. b = Append(i, 0)
    BY <1>1, <1>5, <1>7 DEF Between
  <2>2. /\ b \in Seq(Int) /\ DOMAIN b = 1..Len(i) + 1
        /\ \A n \in 1..Len(i) : b[n] = i[n]
    BY <1>3, <2>1
  <2>3. LessAt(i, b, Len(i) + 1)
    BY <1>3, <2>2 DEF LessAt
  <2>4. b[k] < j[k]
    BY <1>2, <1>3, <1>7, <2>2
  <2>5. LessAt(b, j, k)
    BY <1>2, <1>3, <1>4, <1>7, <2>2, <2>4 DEF LessAt
  <2>6. Len(i) + 1 \in DOMAIN b
    BY <1>3, <2>2
  <2>7. b \in Index
    BY <2>2, <2>6, IndexOf
  <2>8. QED
    BY <1>2, <1>5, <2>3, <2>5, <2>6, <2>7 DEF \prec
<1>8. CASE k \in DOMAIN i /\ i[k] + 1 # j[k]
  <2> DEFINE mid == (i[k] + j[k]) \div 2
  <2>1. b = Append(SubSeq(i, 1, k - 1), mid)
    BY <1>1, <1>5, <1>8 DEF Between
  <2>2. i[k] < j[k] /\ i[k] \in Int /\ j[k] \in Int
    BY <1>2, <1>3, <1>8 DEF LessAt
  <2>3. mid \in Int /\ i[k] < mid /\ mid < j[k]
    BY <1>8, <2>2
  <2> HIDE DEF mid
  <2>4. PICK p : p = SubSeq(i, 1, k - 1)
    OBVIOUS
  <2>5. p \in Seq(Int) /\ Len(p) = k - 1 /\ \A n \in 1..k-1 : p[n] = i[n]
    BY <1>3, <1>4, <1>8, <2>4
  <2>6. /\ b \in Seq(Int) /\ DOMAIN b = 1..k /\ b[k] = mid
        /\ \A n \in 1..k-1 : b[n] = i[n]
    BY <1>4, <2>1, <2>3, <2>4, <2>5
  <2>7. LessAt(i, b, k) /\ LessAt(b, j, k)
    BY <1>2, <1>4, <1>8, <2>3, <2>6 DEF LessAt
  <2>8. QED
    BY <1>2, <1>4, <1>5, <2>6, <2>7, IndexOf DEF \prec
<1>9. QED
  BY <1>6, <1>7, <1>8

\* A finite set has a first element under a transitive total relation.
LEMMA FirstOf ==
  ASSUME NEW S, IsFiniteSet(S), S # {}, NEW R,
         \A x, y \in S : x # y => <<x, y>> \in R \/ <<y, x>> \in R,
         \A x, y, z \in S : <<x, y>> \in R /\ <<y, z>> \in R => <<x, z>> \in R
  PROVE  \E x \in S : \A y \in S \ {x} : <<x, y>> \in R
<1> DEFINE Bad(T) == T \subseteq S /\ T # {}
                       /\ ~ \E x \in T : \A y \in T \ {x} : <<x, y>> \in R
           bad == {n \in Nat : \E T \in SUBSET S : Bad(T) /\ Cardinality(T) = n}
<1> SUFFICES ASSUME Bad(S)
             PROVE  FALSE
  OBVIOUS
<1>1. \A T \in SUBSET S : IsFiniteSet(T) /\ Cardinality(T) \in Nat
  BY FS_Subset, FS_CardinalityType
<1>2. Cardinality(S) \in bad
  BY <1>1
<1>3. PICK m \in bad : \A n \in bad : m <= n
  <2>1. bad \in SUBSET Nat /\ bad # {}
    BY <1>2
  <2> HIDE DEF bad
  <2>2. QED
    BY <2>1, LeastOf
<1>4. PICK T \in SUBSET S : Bad(T) /\ Cardinality(T) = m
  BY <1>3
<1>5. PICK x \in T : TRUE
  BY <1>4
<1>6. PICK U : U = T \ {x}
  OBVIOUS
<1>7. Cardinality(U) = m - 1 /\ U \in SUBSET S /\ m \in Nat
  BY <1>1, <1>4, <1>5, <1>6, FS_RemoveElement
<1>8. m - 1 \in Nat
  <2>1. Cardinality(U) \in Nat
    BY <1>1, <1>7
  <2>2. QED
    BY <1>7, <2>1
<1>9. ~ Bad(U)
  <2>1. ~ (m <= m - 1)
    BY <1>8
  <2>2. m - 1 \notin bad
    BY <1>3, <2>1
  <2>3. QED
    BY <1>7, <1>8, <2>2
<1>10. CASE U = {}
  BY <1>4, <1>5, <1>6, <1>10
<1>11. CASE U # {}
  <2>1. PICK y \in U : \A z \in U \ {y} : <<y, z>> \in R
    BY <1>7, <1>9, <1>11
  <2>2. x \in S /\ y \in S /\ x # y /\ y \in T
    BY <1>4, <1>5, <1>6, <1>7, <2>1
  <2>3. CASE <<y, x>> \in R
    <3>1. \A z \in T \ {y} : <<y, z>> \in R
      BY <1>6, <2>1, <2>3
    <3>2. QED
      BY <1>4, <2>2, <3>1
  <2>4. CASE <<x, y>> \in R
    <3>1. \A z \in T \ {x} : <<x, z>> \in R
      BY <1>4, <1>6, <1>7, <2>1, <2>2, <2>4
    <3>2. QED
      BY <1>4, <1>5, <3>1
  <2>5. QED
    BY <2>2, <2>3, <2>4
<1>12. QED
  BY <1>10, <1>11

LEMMA LowestIs ==
  ASSUME NEW S \in SUBSET Index, IsFiniteSet(S), S # {}
  PROVE  Lowest(S) \in S /\ \A j \in S \ {Lowest(S)} : Lowest(S) \prec j
<1> DEFINE R == {p \in S \X S : p[1] \prec p[2]}
<1>1. \A x, y \in S : <<x, y>> \in R <=> x \prec y
  OBVIOUS
<1>2. \A x, y \in S : x # y => <<x, y>> \in R \/ <<y, x>> \in R
  BY <1>1, PrecTotal
<1>3. \A x, y, z \in S : <<x, y>> \in R /\ <<y, z>> \in R => <<x, z>> \in R
  BY <1>1, PrecTransitive
<1> HIDE DEF R
<1>4. \E x \in S : \A y \in S \ {x} : <<x, y>> \in R
  BY <1>2, <1>3, FirstOf
<1>5. \E x \in S : \A y \in S \ {x} : x \prec y
  BY <1>1, <1>4
<1>6. QED
  BY <1>5 DEF Lowest

LEMMA HighestIs ==
  ASSUME NEW S \in SUBSET Index, IsFiniteSet(S), S # {}
  PROVE  Highest(S) \in S /\ \A j \in S \ {Highest(S)} : j \prec Highest(S)
<1> DEFINE R == {p \in S \X S : p[2] \prec p[1]}
<1>1. \A x, y \in S : <<x, y>> \in R <=> y \prec x
  OBVIOUS
<1>2. \A x, y \in S : x # y => <<x, y>> \in R \/ <<y, x>> \in R
  BY <1>1, PrecTotal
<1>3. \A x, y, z \in S : <<x, y>> \in R /\ <<y, z>> \in R => <<x, z>> \in R
  BY <1>1, PrecTransitive
<1> HIDE DEF R
<1>4. \E x \in S : \A y \in S \ {x} : <<x, y>> \in R
  BY <1>2, <1>3, FirstOf
<1>5. \E x \in S : \A y \in S \ {x} : y \prec x
  BY <1>1, <1>4
<1>6. QED
  BY <1>5 DEF Highest

----------------------------------------------------------------------------
(* The list.                                                               *)

\* A well-formed list: its maps mirror each other, and what that needs.
WellFormed(l) ==
  /\ l = [byId |-> l.byId, byIndex |-> l.byIndex]
  /\ l.byId \in [DOMAIN l.byId -> Index]
  /\ l.byIndex \in [DOMAIN l.byIndex -> DOMAIN l.byId]
  /\ DOMAIN l.byIndex \subseteq Index /\ IsFiniteSet(DOMAIN l.byIndex)
  /\ MapsMirror(l)

\* The index a cell is given is an index nobody holds, between the one asked
\* for and all that are behind it.
LEMMA RealIndexIsFree ==
  ASSUME NEW l, WellFormed(l), NEW i \in Index
  PROVE  /\ RealIndex(l, i) \in Index
         /\ ~Occupied(l, RealIndex(l, i))
         /\ RealIndex(l, i) = i \/ i \prec RealIndex(l, i)
         /\ \A j \in Above(l, i) : RealIndex(l, i) \prec j
<1>1. CASE ~Occupied(l, i)
  BY <1>1 DEF RealIndex, Above
<1>2. CASE Occupied(l, i) /\ Above(l, i) = {}
  <2>1. RealIndex(l, i) = After(i)
    BY <1>2 DEF RealIndex
  <2>2. After(i) \in Index /\ i \prec After(i)
    BY EndsFit
  <2>3. QED
    BY <1>2, <2>1, <2>2 DEF Above, Occupied
<1>3. CASE Occupied(l, i) /\ Above(l, i) # {}
  <2> DEFINE next == Lowest(Above(l, i))
             b == Between(i, next)
  <2>1. Above(l, i) \in SUBSET Index /\ IsFiniteSet(Above(l, i))
    BY FS_Subset DEF Above, WellFormed
  <2>2. next \in Above(l, i) /\ \A j \in Above(l, i) \ {next} : next \prec j
    BY <1>3, <2>1, LowestIs
  <2> HIDE DEF next
  <2>3. next \in Index /\ i \prec next
    BY <2>1, <2>2 DEF Above
  <2>4. b \in Index /\ i \prec b /\ b \prec next
    BY <2>3, BetweenFits
  <2>5. RealIndex(l, i) = b
    BY <1>3 DEF RealIndex, next
  <2> HIDE DEF b
  <2>6. \A j \in Above(l, i) : b \prec j
    BY <2>1, <2>2, <2>3, <2>4, PrecTransitive
  <2>7. ~Occupied(l, b)
    <3>1. Occupied(l, b) => b \in Above(l, i)
      BY <2>4 DEF Above, Occupied
    <3>2. QED
      BY <2>4, <2>6, <3>1, PrecIrreflexive
  <2>8. QED
    BY <2>4, <2>5, <2>6, <2>7
<1>4. QED
  BY <1>1, <1>2, <1>3

LEMMA InsertWellFormed ==
  ASSUME NEW l, WellFormed(l), NEW id, ~Has(l, id), NEW i \in Index
  PROVE  WellFormed(InsertAt(l, id, i))
<1> DEFINE r == RealIndex(l, i)
           n == InsertAt(l, id, i)
<1>1. r \in Index /\ ~Occupied(l, r)
  BY RealIndexIsFree
<1> HIDE DEF r
<1>2. /\ n = [byId |-> n.byId, byIndex |-> n.byIndex]
      /\ n.byId = Put(l.byId, id, r)
      /\ n.byIndex = Put(l.byIndex, r, id)
  BY DEF InsertAt, r
<1>3. IsFiniteSet(DOMAIN l.byIndex \cup {r})
  BY FS_AddElement DEF WellFormed
<1> HIDE DEF n
<1>4. QED
  BY <1>1, <1>2, <1>3 DEF WellFormed, MapsMirror, Put, Has, Occupied, n

LEMMA DeleteWellFormed ==
  ASSUME NEW l, WellFormed(l), NEW id
  PROVE  WellFormed(Delete(l, id))
<1>1. CASE ~Has(l, id)
  BY <1>1 DEF Delete
<1>2. CASE Has(l, id)
  <2> DEFINE n == Delete(l, id)
  <2>1. /\ n = [byId |-> n.byId, byIndex |-> n.byIndex]
        /\ n.byId = Without(l.byId, id)
        /\ n.byIndex = Without(l.byIndex, l.byId[id])
    BY <1>2 DEF Delete
  <2>2. IsFiniteSet(DOMAIN l.byIndex \ {l.byId[id]})
    BY FS_Subset DEF WellFormed
  <2> HIDE DEF n
  <2>3. WellFormed(n)
    BY <1>2, <2>1, <2>2 DEF WellFormed, MapsMirror, Without, Has
  <2>4. QED
    BY <2>3 DEF n
<1>3. QED
  BY <1>1, <1>2

\* Moving a cell to an index nobody holds.
LEMMA MoveToFree ==
  ASSUME NEW l, WellFormed(l), NEW id, Has(l, id),
         NEW r \in Index, ~Occupied(l, r),
         NEW n, n = [byId |-> n.byId, byIndex |-> n.byIndex],
         n.byId = Put(l.byId, id, r),
         n.byIndex = Put(Without(l.byIndex, l.byId[id]), r, id)
  PROVE  WellFormed(n)
<1>1. IsFiniteSet(DOMAIN l.byIndex \ {l.byId[id]})
  BY FS_Subset DEF WellFormed
<1>2. IsFiniteSet((DOMAIN l.byIndex \ {l.byId[id]}) \cup {r})
  BY <1>1, FS_AddElement
<1>3. QED
  BY <1>2 DEF WellFormed, MapsMirror, Put, Without, Has, Occupied

LEMMA MoveWellFormed ==
  ASSUME NEW l, WellFormed(l), NEW id, NEW i \in Index
  PROVE  WellFormed(MoveTo(l, id, i))
<1>1. CASE ~Has(l, id)
  BY <1>1 DEF MoveTo
<1>2. CASE Has(l, id)
  <2> DEFINE r == RealIndex(l, i)
             n == MoveTo(l, id, i)
  <2>1. r \in Index /\ ~Occupied(l, r)
    BY RealIndexIsFree
  <2>2. /\ n = [byId |-> n.byId, byIndex |-> n.byIndex]
        /\ n.byId = Put(l.byId, id, r)
        /\ n.byIndex = Put(Without(l.byIndex, l.byId[id]), r, id)
    BY <1>2 DEF MoveTo
  <2> HIDE DEF n, r
  <2>3. WellFormed(n)
    BY <1>2, <2>1, <2>2, MoveToFree
  <2>4. QED
    BY <2>3 DEF n
<1>3. QED
  BY <1>1, <1>2

\* The occupant gives way to an index nobody holds, which leaves the index
\* itself free for the cell that is moved.
LEMMA MoveStrictWellFormed ==
  ASSUME NEW l, WellFormed(l), NEW id, NEW i \in Index
  PROVE  WellFormed(MoveToStrict(l, id, i))
<1>1. CASE ~Occupied(l, i)
  BY <1>1, MoveWellFormed DEF MoveToStrict
<1>2. CASE Occupied(l, i) /\ l.byIndex[i] = id
  BY <1>2 DEF MoveToStrict
<1>3. CASE Occupied(l, i) /\ l.byIndex[i] # id
  <2> DEFINE l1 == MoveTo(l, l.byIndex[i], RealIndex(l, i))
  <2>1. RealIndex(l, i) \in Index
    BY RealIndexIsFree
  <2>2. WellFormed(l1)
    BY <2>1, MoveWellFormed
  <2>3. WellFormed(MoveTo(l1, id, i))
    BY <2>2, MoveWellFormed
  <2>4. QED
    BY <1>3, <2>3 DEF MoveToStrict
<1>4. QED
  BY <1>1, <1>2, <1>3

----------------------------------------------------------------------------
(* The list under any sequence of calls (IndexedList).                     *)

ListInv == WellFormed(list) /\ calls \in 0..MaxCalls

\* The list stays well-formed through every call (list.rs:70-119).
THEOREM ListInvariance == ListSpec => []ListInv
<1>1. ListInit => ListInv
  BY CallsAssumption, FS_EmptySet
  DEF ListInit, ListInv, WellFormed, MapsMirror, EmptyList
<1>2. ASSUME ListInv, [ListNext]_listVars
      PROVE  ListInv'
  <2>1. CASE UNCHANGED listVars
    BY <1>2, <2>1 DEF listVars, ListInv, WellFormed, MapsMirror
  <2> SUFFICES ASSUME NEW l, WellFormed(l), Call(l)
               PROVE  ListInv'
    <3>1. ASSUME NEW id \in Id, Remove(id)
          PROVE  \E l : WellFormed(l) /\ Call(l)
      BY <1>2, <3>1, DeleteWellFormed DEF ListInv, Remove
    <3>2. ASSUME NEW id \in Id, NEW i \in Asked, Insert(id, i)
          PROVE  \E l : WellFormed(l) /\ Call(l)
      BY <1>2, <3>2, InsertWellFormed, AskedAssumption DEF ListInv, Insert
    <3>3. ASSUME NEW id \in Id, NEW i \in Asked, Move(id, i)
          PROVE  \E l : WellFormed(l) /\ Call(l)
      BY <1>2, <3>3, MoveWellFormed, AskedAssumption DEF ListInv, Move
    <3>4. ASSUME NEW id \in Id, NEW i \in Asked, MoveStrict(id, i)
          PROVE  \E l : WellFormed(l) /\ Call(l)
      BY <1>2, <3>4, MoveStrictWellFormed, AskedAssumption
      DEF ListInv, MoveStrict
    <3>5. QED
      BY <1>2, <2>1, <3>1, <3>2, <3>3, <3>4 DEF ListNext
  <2>2. calls \in 0..MaxCalls /\ calls < MaxCalls /\ calls' = calls + 1
        /\ list' = l
    BY <1>2 DEF ListInv, Call
  <2>3. QED
    BY <2>2, CallsAssumption DEF ListInv, WellFormed, MapsMirror
<1>3. QED
  BY <1>1, <1>2, PTL DEF ListSpec

\* Mirrored for every set of ids and any sequence of calls: by_id
\* and by_index never disagree about a cell (list.rs:14-17, 70-119).
THEOREM MirroredAlways == ListSpec => []Mirrored
<1>1. ListInv => Mirrored
  BY DEF ListInv, WellFormed, Mirrored
<1>2. QED
  BY ListInvariance, <1>1, PTL

\* Where the cells other than id are after a call, when nobody has to give way.
Stay(l, n, id) ==
  \A other \in Ids(l) \ {id} : other \in Ids(n) /\ n.byId[other] = l.byId[other]

LEMMA CallsLeaveOthers ==
  ASSUME NEW l, NEW id, NEW i
  PROVE  /\ Stay(l, InsertAt(l, id, i), id)
         /\ Stay(l, Delete(l, id), id)
         /\ Stay(l, MoveTo(l, id, i), id)
<1>1. ASSUME NEW n, NEW r, n.byId = Put(l.byId, id, r)
      PROVE  Stay(l, n, id)
  BY <1>1 DEF Stay, Put, Ids
<1>2. InsertAt(l, id, i).byId = Put(l.byId, id, RealIndex(l, i))
  BY DEF InsertAt
<1>3. Has(l, id) => MoveTo(l, id, i).byId = Put(l.byId, id, RealIndex(l, i))
  BY DEF MoveTo
<1>4. ~Has(l, id) => MoveTo(l, id, i) = l
  BY DEF MoveTo
<1>5. Stay(l, l, id)
  BY DEF Stay
<1>6. Has(l, id) => Delete(l, id).byId = Without(l.byId, id)
  BY DEF Delete
<1>7. ~Has(l, id) => Delete(l, id) = l
  BY DEF Delete
<1>8. Stay(l, Delete(l, id), id)
  BY <1>5, <1>6, <1>7 DEF Stay, Without, Ids
<1>9. Stay(l, MoveTo(l, id, i), id)
  BY <1>1, <1>3, <1>4, <1>5
<1>10. QED
  BY <1>1, <1>2, <1>8, <1>9

\* The same when a cell may have to give way, without passing another one.
KeepOrder(l, n, id) ==
  \A other \in Ids(l) \ {id} :
    /\ other \in Ids(n)
    /\ ~ (n.byId[other] \prec l.byId[other])
    /\ \A behind \in Ids(l) \ {id} :
         l.byId[other] \prec l.byId[behind] => n.byId[other] \prec n.byId[behind]

LEMMA StayKeepsOrder ==
  ASSUME NEW l, WellFormed(l), NEW n, NEW id, Stay(l, n, id)
  PROVE  KeepOrder(l, n, id)
<1>1. \A x \in Ids(l) : l.byId[x] \in Index
  BY DEF WellFormed, Ids
<1>2. QED
  BY <1>1, PrecIrreflexive DEF Stay, KeepOrder

\* The occupant goes right behind the index, in front of all that are behind it.
LEMMA StrictMoveKeepsOrder ==
  ASSUME NEW l, WellFormed(l), NEW id, NEW i \in Index
  PROVE  KeepOrder(l, MoveToStrict(l, id, i), id)
<1>1. CASE ~Occupied(l, i)
  <2>1. MoveToStrict(l, id, i) = MoveTo(l, id, i)
    BY <1>1 DEF MoveToStrict
  <2>2. QED
    BY <2>1, CallsLeaveOthers, StayKeepsOrder
<1>2. CASE Occupied(l, i) /\ l.byIndex[i] = id
  <2>1. MoveToStrict(l, id, i) = l
    BY <1>2 DEF MoveToStrict
  <2>2. Stay(l, l, id)
    BY DEF Stay
  <2>3. QED
    BY <2>1, <2>2, StayKeepsOrder
<1>3. CASE Occupied(l, i) /\ l.byIndex[i] # id
  <2> DEFINE o == l.byIndex[i]
             r == RealIndex(l, i)
             l1 == MoveTo(l, o, r)
             n == MoveTo(l1, id, i)
  <2>1. /\ r \in Index /\ ~Occupied(l, r) /\ (r = i \/ i \prec r)
        /\ \A j \in Above(l, i) : r \prec j
    BY RealIndexIsFree
  <2>2. r # i /\ i \prec r /\ ~ (r \prec i)
    BY <1>3, <2>1, PrecAsymmetric
  <2>3. Has(l, o) /\ l.byId[o] = i
    BY <1>3 DEF WellFormed, MapsMirror, Occupied, Has
  <2>4. l1.byId = Put(l.byId, o, r)
    BY <2>1, <2>3 DEF MoveTo, RealIndex
  <2>5. MoveToStrict(l, id, i) = n
    BY <1>3 DEF MoveToStrict
  <2>6. Stay(l1, n, id)
    BY CallsLeaveOthers
  <2> HIDE DEF l1, n, r
  <2>7. \A x \in Ids(l) : l.byId[x] \in Index
    BY DEF WellFormed, Ids
  <2>8. o \in Ids(l)
    BY <2>3 DEF Has, Ids
  <2>9. \A x \in Ids(l) \ {id} : x \in Ids(n) /\ n.byId[x] = IF x = o THEN r ELSE l.byId[x]
    BY <2>4, <2>6 DEF Stay, Put, Ids
  <2>10. \A x \in Ids(l) : i \prec l.byId[x] => r \prec l.byId[x]
    BY <2>1, <2>7 DEF Above, WellFormed, MapsMirror, Ids
  <2>11. ASSUME NEW x \in Ids(l) \ {id}
         PROVE  ~ (n.byId[x] \prec l.byId[x])
    BY <2>2, <2>3, <2>7, <2>9, PrecIrreflexive
  <2>12. ASSUME NEW x \in Ids(l) \ {id}, NEW y \in Ids(l) \ {id},
                l.byId[x] \prec l.byId[y]
         PROVE  n.byId[x] \prec n.byId[y]
    <3>1. CASE x = o
      <4>1. y # o
        BY <2>7, <2>12, <3>1, PrecIrreflexive
      <4>2. QED
        BY <2>3, <2>9, <2>10, <2>12, <3>1, <4>1
    <3>2. CASE x # o /\ y = o
      BY <2>1, <2>2, <2>3, <2>7, <2>9, <2>12, <3>2, PrecTransitive
    <3>3. CASE x # o /\ y # o
      BY <2>9, <2>12, <3>3
    <3>4. QED
      BY <3>1, <3>2, <3>3
  <2>13. QED
    BY <2>5, <2>9, <2>11, <2>12 DEF KeepOrder
<1>4. QED
  BY <1>1, <1>2, <1>3

\* What OthersStay says of a step.
CallsKeepOrder ==
  \A id \in Id :
    /\ \A i \in Asked :
         Insert(id, i) \/ Move(id, i) \/ Remove(id) =>
           \A other \in Ids(list) \ {id} :
             other \in Ids(list') /\ list'.byId[other] = list.byId[other]
    /\ \A i \in Asked :
         MoveStrict(id, i) =>
           \A other \in Ids(list) \ {id} :
             /\ other \in Ids(list')
             /\ ~ (list'.byId[other] \prec list.byId[other])
             /\ \A behind \in Ids(list) \ {id} :
                  list.byId[other] \prec list.byId[behind] =>
                    list'.byId[other] \prec list'.byId[behind]

\* OthersStay for every set of ids and any sequence of calls: the cells
\* a call does not name stay where they are, but for the one a strict move meets,
\* which passes nobody (list.rs:70-119).
THEOREM OthersStayAlways == ListSpec => OthersStay
<1>1. ASSUME ListInv, [ListNext]_listVars, NEW id \in Id, NEW i \in Asked,
             Insert(id, i) \/ Move(id, i) \/ Remove(id)
      PROVE  Stay(list, list', id)
  BY <1>1, CallsLeaveOthers DEF Insert, Move, Remove, Call
<1>2. ASSUME ListInv, [ListNext]_listVars, NEW id \in Id, NEW i \in Asked,
             MoveStrict(id, i)
      PROVE  KeepOrder(list, list', id)
  BY <1>2, StrictMoveKeepsOrder, AskedAssumption DEF ListInv, MoveStrict, Call
<1>3. ListInv /\ [ListNext]_listVars => [CallsKeepOrder]_listVars
  BY <1>1, <1>2 DEF CallsKeepOrder, Stay, KeepOrder
<1>4. QED
  BY <1>3, ListInvariance, PTL DEF ListSpec, OthersStay, CallsKeepOrder

----------------------------------------------------------------------------
(* The second invariant: what the messages say, and what a client makes of *)
(* them.                                                                   *)

\* An operation as it is made, or as it is answered.
Operates(op) ==
  /\ op.type \in OperationTypes
  /\ IF op.type = "cell_delete" THEN op.index = NoIndex
     ELSE op.index = {The(op.index)} /\ The(op.index) \in Index

\* The cells of the notebook at first, and those made by the operations the server
\* has taken.
TakenCells ==
  Range(InitialCells) \cup UNION {{<<d, n>> : n \in 1..Taken(d)} : d \in Client}

OwnCells(c) == {<<c, n>> : n \in 1..made[c]}

LogInv ==
  /\ IsSequence(log) /\ Len(log) = order.version
  /\ order.list = ListAt(order.version)
  /\ \A v \in 0..order.version :
       WellFormed(ListAt(v)) /\ Ids(ListAt(v)) \subseteq TakenCells

\* A message says what became of the list with its version, and the index it names
\* was free.  A cell is new when it is inserted.
Message(m) ==
  /\ Operates(m) /\ m.author \in Client /\ m.version \in 1..order.version
  /\ ListAt(m.version) = Reordered(ListAt(m.version - 1), m)
  /\ \A i \in m.index : ~Occupied(ListAt(m.version - 1), i)
  /\ m.type = "cell_insert" =>
       /\ m.cell \in {<<m.author, n>> : n \in 1..Taken(m.author)}
       /\ \A v \in 0..m.version - 1 : m.cell \notin Ids(ListAt(v))

\* What was held back and what is on its way, one behind the other.
Joined(h, q) ==
  [i \in 1..Len(h) + Len(q) |-> IF i <= Len(h) THEN h[i] ELSE q[i - Len(h)]]
Line(c)   == Joined(client[c].held, toClient[c])

\* Where the operations are in it.
Ops(c) == {i \in 1..Len(Line(c)) : Line(c)[i].type # "full_state"}

\* The answer of d is still to be sent to c.
Owed(d, c) ==
  task[d].at = "applied" \/ (task[d].at = "broadcast" /\ c \in task[d].rest)
Owing(c) == {task[d].message : d \in {d \in Client : Owed(d, c)}}

\* The operations that still come to c.
Coming(c) == {Line(c)[i] : i \in Ops(c)} \cup Owing(c)

\* No operation comes to a client twice.
OnceInv(c) ==
  /\ \A i, j \in Ops(c) : Line(c)[i].version = Line(c)[j].version => i = j
  /\ \A i \in Ops(c), d \in Client :
       Owed(d, c) => Line(c)[i].version # task[d].message.version

AnswersDiffer ==
  \A d, e \in Client :
    HasAnswer(d) /\ HasAnswer(e) /\ task[d].message.version = task[e].message.version
      => d = e

MessagesInv(c) ==
  /\ HasAnswer(c) => Message(task[c].message)
  /\ \A i \in Ops(c) : Message(Line(c)[i])
  /\ \A i \in 1..Len(client[c].held) : client[c].held[i].type # "full_state"
  /\ client[c].session = "joined" => client[c].held = <<>>

PendingCells(s) == {s.pending[k].cell : k \in 1..Len(s.pending)}
Known(s) == Ids(s.list) \cup PendingCells(s)

\* The lists and indexes at a client, and that no cell it knows of comes anew.
Orderly(c, s, M) ==
  /\ WellFormed(s.list)
  /\ \A k \in 1..Len(s.pending) :
       /\ Operates(s.pending[k])
       /\ s.pending[k].type = "cell_insert" => s.pending[k].cell = s.pending[k].id
  /\ Known(s) \subseteq TakenCells \cup OwnCells(c)
  /\ \A m \in M :
       m.author # c /\ m.type = "cell_insert" /\ m.version > s.version =>
         m.cell \notin Known(s)

\* Every operation that is not in the state of version v is still to come to c.
Delivered(M, v) == \A w \in v + 1..order.version : \E m \in M : m.version = w

\* The pending operations on a cell, and whether there is one.
Consistent(s) ==
  LET p == s.pending
  IN  /\ \A j, k \in 1..Len(p) :
           j < k /\ p[j].cell = p[k].cell => p[j].type # "cell_delete"
      /\ \A k \in 1..Len(p) :
           ~Superseded(s, k) => (Has(s.list, p[k].cell) <=> p[k].type # "cell_delete")
      /\ \A k \in 1..Len(p) : p[k].type # "cell_insert" =>
           \/ Has(ListAt(s.seen), p[k].cell)
           \/ \E j \in 1..k - 1 : p[j].cell = p[k].cell /\ p[j].type = "cell_insert"

SameOrder(s) ==
  /\ \A x \in (Ids(s.list) \cup Ids(ListAt(s.seen))) \ PendingCells(s) :
       /\ Has(s.list, x) /\ Has(ListAt(s.seen), x)
       /\ s.list.byId[x] = ListAt(s.seen).byId[x]
  /\ s.cells = Ids(s.list)

Tracking(s, M) ==
  /\ s.seen \in s.version..order.version
  /\ SameOrder(s) /\ Consistent(s) /\ Delivered(M, s.seen)

StateOf(l, v) == \E w \in 0..v : l = ListAt(w)

JoinerInv(c) ==
  /\ client[c].session # "joined" => client[c].version = 0
  /\ task[c].at = "version" => StateOf(task[c].list, order.version)
  /\ task[c].at = "state" => /\ StateOf(task[c].list, task[c].version)
                             /\ Delivered(Coming(c), task[c].version)
  /\ \A i \in States(c) : /\ StateOf(toClient[c][i].list, toClient[c][i].version)
                          /\ Delivered(Coming(c), toClient[c][i].version)

\* What is requested is pending, and so is what is answered.
OwnInv(c) ==
  LET p == client[c].pending
  IN  /\ \A i \in 1..Len(toServer[c]) :
           toServer[c][i].type # "join" => \E k \in 1..Len(p) : p[k] = toServer[c][i]
      /\ \A m \in Coming(c) : m.author = c =>
           \E k \in 1..Len(p) :
             p[k].id = m.id /\ p[k].cell = m.cell /\ p[k].type = m.type

StoreOrderly(c) ==
  /\ Orderly(c, client[c], Coming(c))
  /\ client[c].session = "joined" /\ ~client[c].astray =>
       Tracking(client[c], Coming(c))

ListInvOf(c) ==
  OnceInv(c) /\ MessagesInv(c) /\ StoreOrderly(c) /\ JoinerInv(c) /\ OwnInv(c)

OrderInv == LogInv /\ AnswersDiffer /\ \A c \in Client : ListInvOf(c)

----------------------------------------------------------------------------
(* What the calls leave of a list, and where they put the cell.            *)

LEMMA CallsKeepCells ==
  ASSUME NEW l, NEW id, NEW i
  PROVE  /\ Ids(InsertAt(l, id, i)) = Ids(l) \cup {id}
         /\ InsertAt(l, id, i).byId[id] = RealIndex(l, i)
         /\ Ids(Delete(l, id)) = Ids(l) \ {id}
         /\ Ids(MoveTo(l, id, i)) = Ids(l)
         /\ Has(l, id) => MoveTo(l, id, i).byId[id] = RealIndex(l, i)
<1>1. InsertAt(l, id, i).byId = Put(l.byId, id, RealIndex(l, i))
  BY DEF InsertAt
<1>2. Has(l, id) => MoveTo(l, id, i).byId = Put(l.byId, id, RealIndex(l, i))
  BY DEF MoveTo
<1>3. ~Has(l, id) => MoveTo(l, id, i) = l
  BY DEF MoveTo
<1>4. Has(l, id) => Delete(l, id).byId = Without(l.byId, id)
  BY DEF Delete
<1>5. ~Has(l, id) => Delete(l, id) = l
  BY DEF Delete
<1>6. QED
  BY <1>1, <1>2, <1>3, <1>4, <1>5 DEF Ids, Put, Without, Has

LEMMA StrictMovePlaces ==
  ASSUME NEW l, WellFormed(l), NEW id, NEW i \in Index
  PROVE  /\ Ids(MoveToStrict(l, id, i)) = Ids(l)
         /\ Has(l, id) => MoveToStrict(l, id, i).byId[id] = i
         /\ \A x \in Ids(l) \ {id} :
              l.byId[x] # i => MoveToStrict(l, id, i).byId[x] = l.byId[x]
<1>1. CASE ~Occupied(l, i)
  <2>1. MoveToStrict(l, id, i) = MoveTo(l, id, i) /\ RealIndex(l, i) = i
    BY <1>1 DEF MoveToStrict, RealIndex
  <2>2. QED
    BY <2>1, CallsKeepCells, CallsLeaveOthers DEF Stay
<1>2. CASE Occupied(l, i) /\ l.byIndex[i] = id
  <2>1. MoveToStrict(l, id, i) = l
    BY <1>2 DEF MoveToStrict
  <2>2. l.byId[id] = i
    BY <1>2 DEF WellFormed, MapsMirror, Occupied
  <2>3. QED
    BY <2>1, <2>2
<1>3. CASE Occupied(l, i) /\ l.byIndex[i] # id
  <2> DEFINE o == l.byIndex[i]
             r == RealIndex(l, i)
             l1 == MoveTo(l, o, r)
             n == MoveTo(l1, id, i)
  <2>1. r \in Index /\ ~Occupied(l, r)
    BY RealIndexIsFree
  <2>2. r # i
    BY <1>3, <2>1
  <2>3. Has(l, o) /\ l.byId[o] = i
    BY <1>3 DEF WellFormed, MapsMirror, Occupied, Has
  <2>4. l1.byIndex = Put(Without(l.byIndex, i), r, o)
    BY <2>1, <2>3 DEF MoveTo, RealIndex
  <2>5. ~Occupied(l1, i)
    BY <2>2, <2>4 DEF Occupied, Put, Without
  <2>6. RealIndex(l1, i) = i
    BY <2>5 DEF RealIndex
  <2>7. MoveToStrict(l, id, i) = n
    BY <1>3 DEF MoveToStrict
  <2>8. Ids(l1) = Ids(l) /\ Ids(n) = Ids(l1)
    BY CallsKeepCells
  <2>9. Has(l, id) => n.byId[id] = i
    BY <2>6, <2>8, CallsKeepCells DEF Has, Ids
  <2>10. Stay(l, l1, o) /\ Stay(l1, n, id)
    BY CallsLeaveOthers
  <2> HIDE DEF l1, n, r
  <2>11. ASSUME NEW x \in Ids(l) \ {id}, l.byId[x] # i
         PROVE  n.byId[x] = l.byId[x]
    <3>1. x # o
      BY <2>3, <2>11
    <3>2. x \in Ids(l1) /\ l1.byId[x] = l.byId[x]
      BY <2>10, <3>1 DEF Stay
    <3>3. QED
      BY <2>10, <3>2 DEF Stay
  <2>12. QED
    BY <2>7, <2>8, <2>9, <2>11
<1>4. QED
  BY <1>1, <1>2, <1>3

LEMMA TheOnly ==
  ASSUME NEW i
  PROVE  The({i}) = i
BY DEF The

LEMMA ReorderedFits ==
  ASSUME NEW l, WellFormed(l), NEW op, Operates(op),
         op.type = "cell_insert" => ~Has(l, op.cell)
  PROVE  WellFormed(Reordered(l, op))
<1>1. CASE op.type = "cell_insert"
  BY <1>1, InsertWellFormed DEF Reordered, Operates
<1>2. CASE op.type = "cell_move"
  BY <1>2, MoveWellFormed DEF Reordered, Operates
<1>3. CASE op.type = "cell_delete"
  BY <1>3, DeleteWellFormed DEF Reordered, Operates
<1>4. QED
  BY <1>1, <1>2, <1>3 DEF Operates, OperationTypes

LEMMA ReorderedOthers ==
  ASSUME NEW l, NEW op, NEW x, x # op.cell
  PROVE  /\ Has(Reordered(l, op), x) <=> Has(l, x)
         /\ Has(l, x) => Reordered(l, op).byId[x] = l.byId[x]
<1> DEFINE n == Reordered(l, op)
           i == The(op.index)
<1>1. \/ n = InsertAt(l, op.cell, i) \/ n = MoveTo(l, op.cell, i)
      \/ n = Delete(l, op.cell)
  BY DEF Reordered
<1>2. /\ Ids(n) \ {op.cell} = Ids(l) \ {op.cell}
      /\ Stay(l, n, op.cell)
  <2> HIDE DEF n, i
  <2>1. CASE n = InsertAt(l, op.cell, i)
    BY <2>1, CallsKeepCells, CallsLeaveOthers
  <2>2. CASE n = MoveTo(l, op.cell, i)
    BY <2>2, CallsKeepCells, CallsLeaveOthers
  <2>3. CASE n = Delete(l, op.cell)
    BY <2>3, CallsKeepCells, CallsLeaveOthers
  <2>4. QED
    BY <1>1, <2>1, <2>2, <2>3
<1> HIDE DEF n
<1>3. QED
  BY <1>2 DEF Has, Ids, Stay, n

LEMMA ReorderedCell ==
  ASSUME NEW l, NEW op, Operates(op)
  PROVE  /\ op.type = "cell_delete" => ~Has(Reordered(l, op), op.cell)
         /\ op.type = "cell_insert" => Has(Reordered(l, op), op.cell)
         /\ op.type = "cell_move" =>
              (Has(Reordered(l, op), op.cell) <=> Has(l, op.cell))
         /\ Has(Reordered(l, op), op.cell) =>
              Reordered(l, op).byId[op.cell] = RealIndex(l, The(op.index))
<1>1. CASE op.type = "cell_insert"
  BY <1>1, CallsKeepCells DEF Reordered, Has, Ids
<1>2. CASE op.type = "cell_move"
  BY <1>2, CallsKeepCells DEF Reordered, Has, Ids
<1>3. CASE op.type = "cell_delete"
  BY <1>3, CallsKeepCells DEF Reordered, Has, Ids
<1>4. QED
  BY <1>1, <1>2, <1>3 DEF Operates, OperationTypes

\* The answer does to the list what the operation does.
LEMMA ConfirmedDoes ==
  ASSUME NEW l, WellFormed(l), NEW op, Operates(op), NEW c, NEW v,
         NEW m, m = Confirmed(op, l, c, v)
  PROVE  /\ Operates(m) /\ m.type = op.type /\ m.cell = op.cell /\ m.id = op.id
         /\ m.author = c /\ m.version = v
         /\ Reordered(l, m) = Reordered(l, op)
         /\ \A i \in m.index : ~Occupied(l, i)
<1>1. /\ m.type = op.type /\ m.cell = op.cell /\ m.id = op.id
      /\ m.author = c /\ m.version = v
      /\ m.index = IF op.index = NoIndex THEN NoIndex
                   ELSE {RealIndex(l, The(op.index))}
  BY DEF Confirmed
<1>2. CASE op.type = "cell_delete"
  BY <1>1, <1>2 DEF Operates, Reordered, NoIndex, OperationTypes
<1>3. CASE op.type # "cell_delete"
  <2>1. PICK i \in Index : op.index = {i} /\ The(op.index) = i
    BY <1>3 DEF Operates
  <2>2. PICK r : r = RealIndex(l, i)
    OBVIOUS
  <2>3. r \in Index /\ ~Occupied(l, r)
    BY <2>1, <2>2, RealIndexIsFree
  <2>4. m.index = {r} /\ The(m.index) = r
    BY <1>1, <2>1, <2>2, TheOnly DEF NoIndex
  <2>5. RealIndex(l, r) = r
    BY <2>3 DEF RealIndex
  <2>6. Operates(m) /\ \A k \in m.index : ~Occupied(l, k)
    BY <1>1, <1>3, <2>3, <2>4 DEF Operates
  <2>7. /\ InsertAt(l, op.cell, r) = InsertAt(l, op.cell, i)
        /\ MoveTo(l, op.cell, r) = MoveTo(l, op.cell, i)
    BY <2>2, <2>5 DEF InsertAt, MoveTo
  <2>8. Reordered(l, m) = Reordered(l, op)
    BY <1>1, <1>3, <2>1, <2>4, <2>7 DEF Reordered, Operates, OperationTypes
  <2>9. QED
    BY <1>1, <2>6, <2>8
<1>4. QED
  BY <1>2, <1>3

----------------------------------------------------------------------------
(* Indexes the user's buttons ask for.                                     *)

LEMMA NeighboursFit ==
  ASSUME NEW l, WellFormed(l), NEW i \in DOMAIN l.byIndex
  PROVE  /\ i \in Index
         /\ NewIndexBetween(PrevIndex(l, i), {i}) \in Index
         /\ NewIndexBetween({i}, NextIndex(l, i)) \in Index
         /\ PrevIndex(l, i) \subseteq DOMAIN l.byIndex
         /\ NextIndex(l, i) \subseteq DOMAIN l.byIndex
<1>1. /\ i \in Index
      /\ Above(l, i) \in SUBSET Index /\ IsFiniteSet(Above(l, i))
      /\ Below(l, i) \in SUBSET Index /\ IsFiniteSet(Below(l, i))
      /\ Above(l, i) \subseteq DOMAIN l.byIndex /\ Below(l, i) \subseteq DOMAIN l.byIndex
  BY FS_Subset DEF WellFormed, Above, Below
<1>2. NewIndexBetween(PrevIndex(l, i), {i}) \in Index /\ PrevIndex(l, i) \subseteq DOMAIN l.byIndex
  <2>1. CASE Below(l, i) = {}
    <3>1. PrevIndex(l, i) = NoIndex /\ {i} # NoIndex /\ The({i}) = i
      BY <2>1, TheOnly DEF PrevIndex, NoIndex
    <3>2. NewIndexBetween(PrevIndex(l, i), {i}) = Before(i)
      BY <3>1 DEF NewIndexBetween
    <3>3. QED
      BY <1>1, <3>1, <3>2, EndsFit DEF NoIndex
  <2>2. CASE Below(l, i) # {}
    <3>1. PICK p : p = Highest(Below(l, i)) /\ p \in Below(l, i)
      BY <1>1, <2>2, HighestIs
    <3>2. p \in Index /\ p \prec i /\ PrevIndex(l, i) = {p}
      BY <1>1, <2>2, <3>1 DEF Below, PrevIndex
    <3>3. {p} # NoIndex /\ {i} # NoIndex /\ The({p}) = p /\ The({i}) = i
      BY TheOnly DEF NoIndex
    <3>4. NewIndexBetween(PrevIndex(l, i), {i}) = Between(p, i)
      BY <3>2, <3>3 DEF NewIndexBetween
    <3>5. QED
      BY <1>1, <3>1, <3>2, <3>4, BetweenFits
  <2>3. QED
    BY <2>1, <2>2
<1>3. NewIndexBetween({i}, NextIndex(l, i)) \in Index /\ NextIndex(l, i) \subseteq DOMAIN l.byIndex
  <2>1. CASE Above(l, i) = {}
    <3>1. NextIndex(l, i) = NoIndex /\ {i} # NoIndex /\ The({i}) = i
      BY <2>1, TheOnly DEF NextIndex, NoIndex
    <3>2. NewIndexBetween({i}, NextIndex(l, i)) = After(i)
      BY <3>1 DEF NewIndexBetween
    <3>3. QED
      BY <1>1, <3>1, <3>2, EndsFit DEF NoIndex
  <2>2. CASE Above(l, i) # {}
    <3>1. PICK p : p = Lowest(Above(l, i)) /\ p \in Above(l, i)
      BY <1>1, <2>2, LowestIs
    <3>2. p \in Index /\ i \prec p /\ NextIndex(l, i) = {p}
      BY <1>1, <2>2, <3>1 DEF Above, NextIndex
    <3>3. {p} # NoIndex /\ {i} # NoIndex /\ The({p}) = p /\ The({i}) = i
      BY TheOnly DEF NoIndex
    <3>4. NewIndexBetween({i}, NextIndex(l, i)) = Between(i, p)
      BY <3>2, <3>3 DEF NewIndexBetween
    <3>5. QED
      BY <1>1, <3>1, <3>2, <3>4, BetweenFits
  <2>3. QED
    BY <2>1, <2>2
<1>4. QED
  BY <1>1, <1>2, <1>3

LEMMA PlacesFit ==
  ASSUME NEW l, WellFormed(l)
  PROVE  /\ InsertPlaces(l) \subseteq Index
         /\ \A cell \in Ids(l) : MovePlaces(l, cell) \subseteq Index
<1>1. InsertPlaces(l) \subseteq Index
  <2>1. CASE l = EmptyList
    <3>1. InsertPlaces(l) = {DefaultIndex}
      BY <2>1 DEF InsertPlaces, NewIndexBetween
    <3>2. <<0>> \in Index
      BY DEF Index
    <3>3. QED
      BY <3>1, <3>2 DEF DefaultIndex
  <2>2. CASE l # EmptyList
    BY <2>2, NeighboursFit DEF InsertPlaces
  <2>3. QED
    BY <2>1, <2>2
<1>2. ASSUME NEW cell \in Ids(l)
      PROVE  MovePlaces(l, cell) \subseteq Index
  <2>1. l.byId[cell] \in DOMAIN l.byIndex
    BY DEF WellFormed, MapsMirror, Ids
  <2>2. QED
    BY <2>1, NeighboursFit DEF MovePlaces
<1>3. QED
  BY <1>1, <1>2

----------------------------------------------------------------------------
(* The notebook at first.                                                  *)

Appending(f, n) ==
  f = [k \in 0..n |-> IF k = 0 THEN EmptyList
                      ELSE InsertAt(f[k - 1], InitialCells[k],
                                    IF k = 1 THEN DefaultIndex
                                    ELSE After(Highest(DOMAIN f[k - 1].byIndex)))]

LEMMA AppendingIsDefined ==
  ASSUME NEW l \in Nat
  PROVE  \E f : Appending(f, l)
<1> DEFINE bad == {n \in Nat : ~ \E f : Appending(f, n)}
           Next1(v, k) == InsertAt(v, InitialCells[k],
                                   IF k = 1 THEN DefaultIndex
                                   ELSE After(Highest(DOMAIN v.byIndex)))
<1> SUFFICES ASSUME bad # {}
             PROVE  FALSE
  OBVIOUS
<1>1. PICK m \in bad : \A n \in bad : m <= n
  <2>1. bad \in SUBSET Nat
    OBVIOUS
  <2> HIDE DEF bad
  <2>2. QED
    BY <2>1, LeastOf
<1>2. CASE m = 0
  <2>1. PICK f : f = [k \in 0..0 |-> EmptyList]
    OBVIOUS
  <2>2. Appending(f, 0)
    BY <2>1 DEF Appending
  <2>3. QED
    BY <1>1, <1>2, <2>2
<1>3. CASE m # 0
  <2>1. m - 1 \in Nat /\ m \in Nat /\ ~ (m <= m - 1)
    BY <1>1, <1>3
  <2>2. m - 1 \notin bad
    BY <1>1, <2>1
  <2>3. PICK f : Appending(f, m - 1)
    BY <2>1, <2>2
  <2>4. PICK g : g = [k \in 0..m |-> IF k = m THEN Next1(f[m - 1], m) ELSE f[k]]
    OBVIOUS
  <2>5. \A k \in 0..m : g[k] = IF k = 0 THEN EmptyList ELSE Next1(g[k - 1], k)
    <3>1. \A k \in 0..m - 1 : f[k] = IF k = 0 THEN EmptyList ELSE Next1(f[k - 1], k)
      BY <2>3 DEF Appending
    <3> HIDE DEF Next1
    <3>2. \A k \in 0..m - 1 : g[k] = f[k] /\ (k # 0 => g[k - 1] = f[k - 1])
      BY <2>1, <2>4
    <3>3. g[m] = Next1(g[m - 1], m)
      BY <2>1, <2>4
    <3>4. QED
      BY <1>3, <2>1, <3>1, <3>2, <3>3
  <2>6. g = [k \in 0..m |-> g[k]]
    BY <2>4
  <2>7. Appending(g, m)
    BY <2>5, <2>6 DEF Appending
  <2>8. QED
    BY <1>1, <2>7
<1>4. QED
  BY <1>2, <1>3

LEMMA InitialListFits ==
  WellFormed(InitialList) /\ Ids(InitialList) \subseteq Range(InitialCells)
<1> DEFINE L == Len(InitialCells)
<1>1. /\ L \in Nat /\ InitialCells = [i \in 1..L |-> InitialCells[i]]
      /\ \A i, j \in 1..L : InitialCells[i] = InitialCells[j] => i = j
      /\ \A i \in 1..L : InitialCells[i] \in Range(InitialCells)
  BY CellsAssumption DEF IsInjective, Range
<1>2. PICK f : Appending(f, L) /\ InitialList = f[L]
  <2>1. PICK f : Appending(f, L)
    BY <1>1, AppendingIsDefined
  <2>2. QED
    BY <2>1 DEF Appending, InitialList
<1> DEFINE Fine(n) == /\ WellFormed(f[n])
                      /\ Ids(f[n]) = {InitialCells[i] : i \in 1..n}
           bad == {n \in 0..L : ~ Fine(n)}
<1>3. ASSUME bad # {}
      PROVE  FALSE
  <2>1. bad \in SUBSET Nat
    BY <1>1
  <2>2. PICK m \in bad : \A n \in bad : m <= n
    <3> HIDE DEF bad
    <3>1. QED
      BY <1>3, <2>1, LeastOf
  <2>3. CASE m = 0
    <3>1. f[m] = EmptyList
      BY <1>1, <1>2, <2>3 DEF Appending
    <3>2. WellFormed(EmptyList) /\ Ids(EmptyList) = {}
      BY FS_EmptySet DEF WellFormed, MapsMirror, EmptyList, Ids
    <3>3. Fine(m)
      BY <2>3, <3>1, <3>2
    <3>4. QED
      BY <2>2, <3>3
  <2>4. CASE m # 0
    <3>1. m - 1 \in 0..L /\ m \in 1..L /\ ~ (m <= m - 1)
      BY <1>1, <2>2, <2>4
    <3>2. Fine(m - 1)
      BY <2>2, <3>1
    <3>3. PICK i : i = IF m = 1 THEN DefaultIndex ELSE After(Highest(DOMAIN f[m - 1].byIndex))
      OBVIOUS
    <3>4. f[m] = InsertAt(f[m - 1], InitialCells[m], i)
      BY <1>2, <2>4, <3>1, <3>3 DEF Appending
    <3>5. i \in Index
      <4>1. CASE m = 1
        <5>1. <<0>> \in Index
          BY DEF Index
        <5>2. QED
          BY <3>3, <4>1, <5>1 DEF DefaultIndex
      <4>2. CASE m # 1
        <5> DEFINE S == DOMAIN f[m - 1].byIndex
        <5>1. S \in SUBSET Index /\ IsFiniteSet(S)
          BY <3>2 DEF WellFormed
        <5>2. InitialCells[1] \in Ids(f[m - 1])
          BY <3>1, <3>2, <4>2
        <5>3. S # {}
          BY <3>2, <5>2 DEF WellFormed, MapsMirror, Ids
        <5>4. Highest(S) \in Index
          BY <5>1, <5>3, HighestIs
        <5>5. QED
          BY <3>3, <4>2, <5>4, EndsFit
      <4>3. QED
        BY <4>1, <4>2
    <3>6. ~Has(f[m - 1], InitialCells[m])
      BY <1>1, <3>1, <3>2 DEF Has, Ids
    <3>7. WellFormed(f[m])
      BY <3>2, <3>4, <3>5, <3>6, InsertWellFormed
    <3>8. Ids(f[m]) = {InitialCells[k] : k \in 1..m - 1} \cup {InitialCells[m]}
      BY <3>2, <3>4, CallsKeepCells
    <3>9. {InitialCells[k] : k \in 1..m} = {InitialCells[k] : k \in 1..m - 1} \cup {InitialCells[m]}
      BY <3>1
    <3>10. QED
      BY <2>2, <3>7, <3>8, <3>9
  <2>5. QED
    BY <2>3, <2>4
<1>4. L \in 0..L
  BY <1>1
<1>5. bad = {}
  BY <1>3
<1> HIDE DEF L
<1>6. Fine(L)
  BY <1>4, <1>5
<1>7. QED
  BY <1>1, <1>2, <1>6 DEF L

----------------------------------------------------------------------------
(* What an operation of somebody else's does to a client's list.           *)

\* s is a store with lists and operations in order.
Stored(s) ==
  /\ DOMAIN s = StoreFields
  /\ IsSequence(s.pending) /\ s.version \in Nat
  /\ WellFormed(s.list)
  /\ \A k \in 1..Len(s.pending) :
       /\ Operates(s.pending[k])
       /\ s.pending[k].type = "cell_insert" => s.pending[k].cell = s.pending[k].id

LEMMA DeleteLeaves ==
  ASSUME NEW l, NEW id
  PROVE  Ids(Delete(l, id)) = Ids(l) \ {id} /\ Stay(l, Delete(l, id), id)
<1>1. PICK i : i = DefaultIndex
  OBVIOUS
<1>2. Ids(Delete(l, id)) = Ids(l) \ {id}
  BY <1>1, CallsKeepCells
<1>3. Stay(l, Delete(l, id), id)
  BY <1>1, CallsLeaveOthers
<1>4. QED
  BY <1>2, <1>3

LEMMA StoredPending ==
  ASSUME NEW s, Stored(s)
  PROVE  /\ DOMAIN s.pending = 1..Len(s.pending) /\ Len(s.pending) \in Nat
         /\ \A k \in DOMAIN s.pending : s.pending[k].cell \in PendingCells(s)
BY DEF Stored, IsSequence, PendingCells

LEMMA OperatesIndex ==
  ASSUME NEW op, Operates(op), op.index # NoIndex
  PROVE  /\ op.type # "cell_delete"
         /\ The(op.index) \in Index /\ op.index = {The(op.index)}
BY DEF Operates

\* The list before the cell that gives way is put back: what it is, and its
\* place for the operation.
LEMMA GivesWay ==
  ASSUME NEW s, Stored(s), NEW m, Operates(m), Rivals(s, m) # {},
         m.type = "cell_insert" => m.cell \notin Known(s)
  PROVE  \E k \in DOMAIN s.pending :
           LET x  == s.pending[k].cell
               l1 == Delete(s.list, x)
               l2 == Reordered(l1, m)
           IN  /\ k = Min(Rivals(s, m)) /\ s.pending[k].index = m.index
               /\ s.pending[k].type # "cell_delete" /\ m.index # NoIndex
               /\ The(m.index) \in Index /\ m.index = {The(m.index)}
               /\ WellFormed(l1) /\ WellFormed(l2) /\ ~Has(l2, x)
               /\ ForeignOperation(s, m).list = InsertAt(l2, x, The(m.index))
<1>1. PICK R : R = Rivals(s, m)
  OBVIOUS
<1>2. DOMAIN s.pending = 1..Len(s.pending) /\ Len(s.pending) \in Nat
  BY StoredPending
<1>3. R \in SUBSET Nat /\ R # {}
  BY <1>1, <1>2 DEF Rivals
<1>4. Min(R) \in R
  <2>1. \E y \in R : \A z \in R : y <= z
    BY <1>3, LeastOf
  <2>2. QED
    BY <2>1 DEF Min
<1>5. PICK k \in DOMAIN s.pending : k = Min(R) /\ m.index # NoIndex /\ s.pending[k].index = m.index
  BY <1>1, <1>4 DEF Rivals
<1>6. The(m.index) \in Index /\ m.index = {The(m.index)} /\ m.type # "cell_delete"
  BY <1>5, OperatesIndex
<1>7. Operates(s.pending[k]) /\ s.pending[k].type # "cell_delete"
  BY <1>2, <1>5, OperatesIndex DEF Stored
<1> DEFINE x  == s.pending[k].cell
           l1 == Delete(s.list, x)
           l2 == Reordered(l1, m)
<1>8. WellFormed(l1)
  BY DeleteWellFormed DEF Stored
<1>9. Ids(l1) = Ids(s.list) \ {x} /\ x \in Known(s)
  BY <1>5, CallsKeepCells, StoredPending DEF Known
<1>10. m.type = "cell_insert" => ~Has(l1, m.cell) /\ m.cell # x
  BY <1>9 DEF Has, Ids, Known
<1>11. WellFormed(l2)
  BY <1>8, <1>10, ReorderedFits
<1>12. ~Has(l2, x)
  <2>1. ~Has(l1, x)
    BY <1>9 DEF Has, Ids
  <2>2. CASE m.cell # x
    BY <2>1, <2>2, ReorderedOthers
  <2>3. CASE m.cell = x
    <3>1. m.type = "cell_move"
      BY <1>6, <1>10, <2>3 DEF Operates, OperationTypes
    <3>2. QED
      BY <2>1, <2>3, <3>1, ReorderedCell
  <2>4. QED
    BY <2>2, <2>3
<1>13. ForeignOperation(s, m).list = InsertAt(l2, x, The(m.index))
  <2>1. s.pending[Min(Rivals(s, m))] = s.pending[k]
    BY <1>1, <1>5
  <2>2. QED
    BY <1>5, <2>1 DEF ForeignOperation, Stored, StoreFields
<1> HIDE DEF l1, l2
<1>14. QED
  BY <1>1, <1>5, <1>6, <1>7, <1>8, <1>11, <1>12, <1>13 DEF l1, l2

LEMMA ForeignFields ==
  ASSUME NEW s, Stored(s), NEW m
  PROVE  LET u == ForeignOperation(s, m)
         IN  /\ DOMAIN u = StoreFields
             /\ u.pending = s.pending /\ u.version = s.version
             /\ u.session = s.session /\ u.held = s.held
             /\ u.seen = s.seen /\ u.astray = s.astray
             /\ u.cells = CellsAfter(s.cells, m)
             /\ Rivals(s, m) = {} => u.list = Reordered(s.list, m)
BY DEF ForeignOperation, Stored, StoreFields

LEMMA ForeignFits ==
  ASSUME NEW s, Stored(s), NEW m, Operates(m),
         m.type = "cell_insert" => m.cell \notin Known(s)
  PROVE  /\ Stored(ForeignOperation(s, m))
         /\ Known(ForeignOperation(s, m)) \subseteq
              Known(s) \cup (IF m.type = "cell_insert" THEN {m.cell} ELSE {})
<1>1. PICK u : u = ForeignOperation(s, m)
  OBVIOUS
<1>2. /\ DOMAIN u = StoreFields
      /\ u.pending = s.pending /\ u.version = s.version
      /\ Rivals(s, m) = {} => u.list = Reordered(s.list, m)
  BY <1>1, ForeignFields
<1> DEFINE new == IF m.type = "cell_insert" THEN {m.cell} ELSE {}
<1>3. ASSUME NEW l
      PROVE  Ids(Reordered(l, m)) \subseteq Ids(l) \cup new
  <2>1. ASSUME NEW y \in Ids(Reordered(l, m)), y \notin Ids(l)
        PROVE  y \in new
    <3>1. y = m.cell
      BY <2>1, ReorderedOthers DEF Has, Ids
    <3>2. m.type = "cell_insert"
      BY <2>1, <3>1, ReorderedCell DEF Has, Ids, Operates, OperationTypes
    <3>3. QED
      BY <3>1, <3>2
  <2>2. QED
    BY <2>1
<1> HIDE DEF new
<1>4. CASE Rivals(s, m) = {}
  <2>1. WellFormed(u.list)
    <3>1. m.type = "cell_insert" => ~Has(s.list, m.cell)
      BY DEF Known, Has, Ids
    <3>2. QED
      BY <1>2, <1>4, <3>1, ReorderedFits DEF Stored
  <2>2. Ids(u.list) \subseteq Ids(s.list) \cup new
    BY <1>2, <1>3, <1>4
  <2>3. Stored(u)
    BY <1>2, <2>1 DEF Stored
  <2>4. Known(u) \subseteq Known(s) \cup new
    BY <1>2, <2>2 DEF Known, PendingCells
  <2>5. QED
    BY <1>1, <2>3, <2>4 DEF new
<1>5. CASE Rivals(s, m) # {}
  <2>1. PICK k \in DOMAIN s.pending :
          LET x  == s.pending[k].cell
              l1 == Delete(s.list, x)
              l2 == Reordered(l1, m)
          IN  /\ The(m.index) \in Index
              /\ WellFormed(l2) /\ ~Has(l2, x)
              /\ ForeignOperation(s, m).list = InsertAt(l2, x, The(m.index))
    BY <1>5, GivesWay
  <2>2. PICK x, l1, l2 : /\ x = s.pending[k].cell /\ l1 = Delete(s.list, x)
                         /\ l2 = Reordered(l1, m)
    OBVIOUS
  <2>3. WellFormed(l2) /\ ~Has(l2, x) /\ u.list = InsertAt(l2, x, The(m.index))
    BY <1>1, <2>1, <2>2
  <2>4. WellFormed(u.list)
    <3>1. The(m.index) \in Index
      BY <2>1
    <3>2. QED
      BY <2>3, <3>1, InsertWellFormed
  <2>5. Ids(u.list) = Ids(l2) \cup {x} /\ Ids(l1) \subseteq Ids(s.list)
    <3>1. Ids(u.list) = Ids(l2) \cup {x}
      BY <2>3, CallsKeepCells
    <3>2. Ids(l1) = Ids(s.list) \ {x}
      BY <2>2, DeleteLeaves
    <3>3. QED
      BY <3>1, <3>2
  <2>6. Ids(l2) \subseteq Ids(l1) \cup new
    BY <1>3, <2>2
  <2>7. x \in PendingCells(s)
    BY <2>2, StoredPending
  <2>8. Stored(u)
    BY <1>2, <2>4 DEF Stored
  <2>9. Known(u) \subseteq Known(s) \cup new
    BY <1>2, <2>5, <2>6, <2>7 DEF Known, PendingCells
  <2>10. QED
    BY <1>1, <2>8, <2>9 DEF new
<1>6. QED
  BY <1>4, <1>5

\* With nobody led astray the list goes where the server's goes.
LEMMA ForeignFollows ==
  ASSUME NEW s, Stored(s), NEW m, Operates(m), NEW server,
         m.type = "cell_insert" => m.cell \notin Known(s),
         Consistent(s), ~Clashes(s, m),
         Has(s.list, m.cell) <=> Has(server, m.cell),
         Has(server, m.cell) => s.list.byId[m.cell] = server.byId[m.cell],
         \A i \in m.index : ~Occupied(server, i),
         NEW u, u = ForeignOperation(s, m)
  PROVE  /\ m.cell \notin PendingCells(s)
         /\ Has(u.list, m.cell) <=> Has(Reordered(server, m), m.cell)
         /\ Has(u.list, m.cell) =>
              u.list.byId[m.cell] = Reordered(server, m).byId[m.cell]
         /\ \A x : x # m.cell => (Has(u.list, x) <=> Has(s.list, x))
         /\ \A x : /\ x # m.cell /\ x \notin PendingCells(s) /\ Has(s.list, x)
                   => u.list.byId[x] = s.list.byId[x]
<1>1. DOMAIN s.pending = 1..Len(s.pending) /\ WellFormed(s.list)
  BY StoredPending DEF Stored
<1>2. m.cell \notin PendingCells(s)
  BY <1>1 DEF Clashes, PendingCells
<1>3. ASSUME NEW l1, Has(l1, m.cell) <=> Has(server, m.cell),
             \A i \in m.index : ~Occupied(l1, i)
      PROVE  /\ Has(Reordered(l1, m), m.cell) <=> Has(Reordered(server, m), m.cell)
             /\ Has(Reordered(l1, m), m.cell) =>
                  Reordered(l1, m).byId[m.cell] = Reordered(server, m).byId[m.cell]
  <2>1. Has(Reordered(l1, m), m.cell) <=> Has(Reordered(server, m), m.cell)
    BY <1>3, ReorderedCell DEF Operates, OperationTypes
  <2>2. ASSUME Has(Reordered(l1, m), m.cell)
        PROVE  Reordered(l1, m).byId[m.cell] = Reordered(server, m).byId[m.cell]
    <3>1. m.type # "cell_delete"
      BY <2>2, ReorderedCell
    <3>2. The(m.index) \in m.index
      BY <3>1 DEF Operates
    <3>3. RealIndex(l1, The(m.index)) = The(m.index) /\ RealIndex(server, The(m.index)) = The(m.index)
      BY <1>3, <3>2 DEF RealIndex
    <3>4. QED
      BY <2>1, <2>2, <3>3, ReorderedCell
  <2>3. QED
    BY <2>1, <2>2
<1>4. CASE Rivals(s, m) = {}
  <2>1. u.list = Reordered(s.list, m)
    BY <1>4, ForeignFields
  <2>2. \A i \in m.index : ~Occupied(s.list, i)
    BY <1>4 DEF Clashes
  <2>3. QED
    BY <1>2, <1>3, <2>1, <2>2, ReorderedOthers
<1>5. CASE Rivals(s, m) # {}
  <2>1. PICK k \in DOMAIN s.pending :
          LET x  == s.pending[k].cell
              l1 == Delete(s.list, x)
              l2 == Reordered(l1, m)
          IN  /\ k = Min(Rivals(s, m)) /\ s.pending[k].index = m.index
              /\ s.pending[k].type # "cell_delete"
              /\ ForeignOperation(s, m).list = InsertAt(l2, x, The(m.index))
    BY <1>5, GivesWay
  <2>2. PICK x, l1, l2 : /\ x = s.pending[k].cell /\ l1 = Delete(s.list, x)
                         /\ l2 = Reordered(l1, m)
    OBVIOUS
  <2>3. u.list = InsertAt(l2, x, The(m.index))
    BY <2>1, <2>2
  <2>4. x \in PendingCells(s) /\ x # m.cell
    BY <1>2, <2>2, StoredPending
  <2>5. Has(s.list, x)
    <3>1. ~Superseded(s, k)
      BY <1>5, <2>1 DEF Clashes
    <3>2. QED
      BY <1>1, <2>1, <2>2, <3>1 DEF Consistent
  <2>6. \A i \in m.index : ~Occupied(l1, i)
    <3>1. ASSUME NEW i \in m.index, Occupied(s.list, i)
          PROVE  s.list.byIndex[i] = x
      BY <1>5, <2>1, <2>2, <3>1 DEF Clashes
    <3>2. l1.byIndex = Without(s.list.byIndex, s.list.byId[x])
      BY <2>2, <2>5 DEF Delete
    <3>3. QED
      BY <1>1, <3>1, <3>2 DEF Occupied, Without, WellFormed, MapsMirror
  <2>7. /\ Ids(l1) = Ids(s.list) \ {x} /\ Stay(s.list, l1, x)
        /\ Ids(u.list) = Ids(l2) \cup {x} /\ Stay(l2, u.list, x)
    <3>1. Ids(l1) = Ids(s.list) \ {x} /\ Stay(s.list, l1, x)
      BY <2>2, DeleteLeaves
    <3>2. Ids(u.list) = Ids(l2) \cup {x} /\ Stay(l2, u.list, x)
      BY <2>3, CallsKeepCells, CallsLeaveOthers
    <3>3. QED
      BY <3>1, <3>2
  <2>8. Has(l1, m.cell) <=> Has(server, m.cell)
    BY <2>4, <2>7 DEF Has, Ids
  <2>9. /\ Has(l2, m.cell) <=> Has(Reordered(server, m), m.cell)
        /\ Has(l2, m.cell) => l2.byId[m.cell] = Reordered(server, m).byId[m.cell]
    BY <1>3, <2>2, <2>6, <2>8
  <2>10. /\ Has(u.list, m.cell) <=> Has(l2, m.cell)
         /\ Has(l2, m.cell) => u.list.byId[m.cell] = l2.byId[m.cell]
    BY <2>4, <2>7 DEF Has, Ids, Stay
  <2>11. ASSUME NEW y, y # m.cell
         PROVE  Has(u.list, y) <=> Has(s.list, y)
    <3>1. Has(l2, y) <=> Has(l1, y)
      BY <2>2, <2>11, ReorderedOthers
    <3>2. QED
      BY <2>5, <2>7, <3>1 DEF Has, Ids
  <2>12. ASSUME NEW y, y # m.cell, y \notin PendingCells(s), Has(s.list, y)
         PROVE  u.list.byId[y] = s.list.byId[y]
    <3>1. y # x
      BY <2>4, <2>12
    <3>2. Has(l1, y) /\ l1.byId[y] = s.list.byId[y]
      BY <2>7, <2>12, <3>1 DEF Has, Ids, Stay
    <3>3. Has(l2, y) /\ l2.byId[y] = l1.byId[y]
      BY <2>2, <2>12, <3>2, ReorderedOthers
    <3>4. u.list.byId[y] = l2.byId[y]
      BY <2>7, <3>1, <3>3 DEF Has, Ids, Stay
    <3>5. QED
      BY <3>2, <3>3, <3>4
  <2>13. QED
    BY <1>2, <2>9, <2>10, <2>11, <2>12
<1>6. QED
  BY <1>4, <1>5

----------------------------------------------------------------------------
(* An operation of somebody else's comes to a client.                      *)

LEMMA InsertsDiffer ==
  ASSUME NEW m, Message(m), NEW n, Message(n), order.version \in Nat,
         m.type = "cell_insert", n.type = "cell_insert", m.cell = n.cell
  PROVE  m.version = n.version
<1>1. m.version \in Nat /\ n.version \in Nat /\ m.version > 0 /\ n.version > 0
  BY DEF Message
<1>2. ASSUME NEW a, Message(a), a.type = "cell_insert",
             NEW b, Message(b), b.type = "cell_insert", a.cell = b.cell,
             a.version \in Nat, b.version \in Nat, a.version < b.version
      PROVE  FALSE
  <2>1. Has(ListAt(a.version), a.cell)
    BY <1>2, ReorderedCell DEF Message
  <2>2. a.version \in 0..b.version - 1
    BY <1>2
  <2>3. b.cell \notin Ids(ListAt(a.version))
    BY <1>2, <2>2 DEF Message
  <2>4. QED
    BY <1>2, <2>1, <2>3 DEF Has, Ids
<1>3. QED
  BY <1>1, <1>2

\* M are messages, of different versions.
Messages(M) ==
  /\ \A m \in M : Message(m)
  /\ \A m, n \in M : m.version = n.version => m = n

LEMMA NotedFields ==
  ASSUME NEW c, NEW s, NEW m, NEW u, u = Handled(c, s, m), DOMAIN u = StoreFields
  PROVE  LET t == Noted(c, s, m)
         IN  /\ DOMAIN t = StoreFields
             /\ t.list = u.list /\ t.cells = u.cells /\ t.pending = u.pending
             /\ t.version = u.version /\ t.session = u.session /\ t.held = u.held
             /\ m.version > s.version => t.seen = m.version
             /\ ~ (m.version > s.version) => t.seen = u.seen
             /\ ~t.astray => ~u.astray /\ (m.version > s.version => ~LosesTrack(c, s, m))
<1>1. PICK new, lost, seen, astray :
        /\ new = (m.version > s.version) /\ lost = LosesTrack(c, s, m)
        /\ seen = (IF m.version > s.version THEN m.version ELSE u.seen)
        /\ astray = (u.astray \/ (m.version > s.version /\ LosesTrack(c, s, m)))
  OBVIOUS
<1>2. Noted(c, s, m) = [u EXCEPT !.seen = seen, !.astray = astray]
  BY <1>1 DEF Noted, StoreFields
<1>3. PICK t : t = Noted(c, s, m)
  OBVIOUS
<1>4. /\ DOMAIN t = StoreFields
      /\ t.list = u.list /\ t.cells = u.cells /\ t.pending = u.pending
      /\ t.version = u.version /\ t.session = u.session /\ t.held = u.held
      /\ t.seen = seen /\ t.astray = astray
  BY <1>2, <1>3 DEF StoreFields
<1>5. ~t.astray => ~u.astray /\ (m.version > s.version => ~LosesTrack(c, s, m))
  BY <1>1, <1>4
<1>6. QED
  BY <1>1, <1>3, <1>4, <1>5

\* What s and the messages M that come to it are about.
Fitting(c, s, M) == Stored(s) /\ Orderly(c, s, M)

LEMMA ForeignOrderly ==
  ASSUME order.version \in Nat, NEW c \in Client, NEW s, NEW M,
         Fitting(c, s, M), Messages(M), NEW m \in M, m.author # c
  PROVE  /\ Fitting(c, Noted(c, s, m), M \ {m})
         /\ Like(s, Noted(c, s, m))
<1>1. PICK u, t : u = Handled(c, s, m) /\ t = Noted(c, s, m)
  OBVIOUS
<1>2. /\ Stored(s) /\ DOMAIN s = StoreFields /\ s.version \in Nat
      /\ Message(m) /\ m.version \in Nat
  BY DEF Fitting, Stored, Messages, Message
<1>3. Like(s, t)
  BY <1>1, <1>2, NotedForeign
<1>4. CASE ~ (m.version > s.version)
  <2>1. u = s
    BY <1>1, <1>2, <1>4 DEF Handled
  <2>2. t.list = s.list /\ DOMAIN t = StoreFields /\ t.pending = s.pending /\ t.version = s.version
    <3>1. DOMAIN u = StoreFields
      BY <1>2, <2>1
    <3>2. /\ t.list = u.list /\ DOMAIN t = StoreFields
          /\ t.pending = u.pending /\ t.version = u.version
      BY <1>1, <3>1, NotedFields
    <3>3. QED
      BY <2>1, <3>2
  <2>3. Known(t) = Known(s)
    BY <2>2 DEF Known, PendingCells
  <2>4. QED
    BY <1>1, <1>3, <2>2, <2>3 DEF Fitting, Stored, Orderly
<1>5. CASE m.version > s.version
  <2>1. u = ForeignOperation(s, m)
    <3>1. ~ (m.version <= s.version)
      BY <1>2, <1>5
    <3>2. QED
      BY <1>1, <3>1 DEF Handled
  <2>2. m.type = "cell_insert" => m.cell \notin Known(s)
    BY <1>5 DEF Fitting, Orderly
  <2>3. Operates(m)
    BY <1>2 DEF Message
  <2>4. /\ Stored(u)
        /\ Known(u) \subseteq
             Known(s) \cup (IF m.type = "cell_insert" THEN {m.cell} ELSE {})
    BY <1>2, <2>1, <2>2, <2>3, ForeignFits
  <2>5. /\ t.list = u.list /\ DOMAIN t = StoreFields
        /\ t.pending = u.pending /\ t.version = u.version
    BY <1>1, <2>4, NotedFields DEF Stored
  <2>6. u.pending = s.pending /\ u.version = s.version
    BY <1>2, <2>1, ForeignFields
  <2>7. Known(t) = Known(u)
    BY <2>5 DEF Known, PendingCells
  <2>8. Stored(t)
    BY <2>4, <2>5 DEF Stored
  <2>9. Known(t) \subseteq TakenCells \cup OwnCells(c)
    <3>1. m.type = "cell_insert" => m.cell \in TakenCells
      BY <1>2 DEF Message, TakenCells
    <3>2. QED
      BY <2>4, <2>7, <3>1 DEF Fitting, Orderly
  <2>10. ASSUME NEW n \in M \ {m}, n.author # c, n.type = "cell_insert", n.version > t.version
         PROVE  n.cell \notin Known(t)
    <3>1. n.cell \notin Known(s)
      BY <2>5, <2>6, <2>10 DEF Fitting, Orderly
    <3>2. ASSUME m.type = "cell_insert", m.cell = n.cell
          PROVE  FALSE
      <4>1. m.version = n.version
        BY <1>2, <2>10, <3>2, InsertsDiffer DEF Messages
      <4>2. QED
        BY <2>10, <4>1 DEF Messages
    <3>3. QED
      BY <2>4, <2>7, <3>1, <3>2
  <2>11. Orderly(c, t, M \ {m})
    BY <2>8, <2>9, <2>10 DEF Orderly, Stored
  <2>12. QED
    BY <1>1, <1>3, <2>8, <2>11 DEF Fitting
<1>6. QED
  BY <1>4, <1>5

LEMMA ForeignTracks ==
  ASSUME LogInv, order.version \in Nat, NEW c \in Client, NEW s, NEW M,
         Fitting(c, s, M), Messages(M), NEW m \in M, m.author # c,
         ~s.astray => Tracking(s, M), ~Noted(c, s, m).astray
  PROVE  Tracking(Noted(c, s, m), M \ {m})
<1>1. PICK u, t : u = Handled(c, s, m) /\ t = Noted(c, s, m)
  OBVIOUS
<1>2. /\ Stored(s) /\ DOMAIN s = StoreFields /\ s.version \in Nat
      /\ Message(m) /\ m.version \in 1..order.version /\ Operates(m)
  BY DEF Fitting, Stored, Messages, Message
<1>3. CASE ~ (m.version > s.version)
  <2>1. u = s
    BY <1>1, <1>2, <1>3 DEF Handled
  <2>2. /\ t.list = s.list /\ t.pending = s.pending /\ t.version = s.version
        /\ t.seen = s.seen /\ t.cells = s.cells /\ ~s.astray
    <3>1. DOMAIN u = StoreFields
      BY <1>2, <2>1
    <3>2. /\ t.list = u.list /\ t.pending = u.pending /\ t.version = u.version
          /\ t.cells = u.cells /\ ~u.astray
          /\ ~ (m.version > s.version) => t.seen = u.seen
      BY <1>1, <3>1, NotedFields
    <3>3. QED
      BY <1>3, <2>1, <3>2
  <2>3. Tracking(s, M)
    BY <2>2
  <2>4. Delivered(M \ {m}, s.seen)
    <3>1. ASSUME NEW w \in s.seen + 1..order.version
          PROVE  \E n \in M \ {m} : n.version = w
      <4>1. PICK n \in M : n.version = w
        BY <2>3 DEF Tracking, Delivered
      <4>2. n.version # m.version
        BY <1>2, <1>3, <2>3, <4>1 DEF Tracking
      <4>3. QED
        BY <4>1, <4>2
    <3>2. QED
      BY <3>1 DEF Delivered
  <2>5. \A k : Superseded(t, k) <=> Superseded(s, k)
    BY <2>2 DEF Superseded
  <2>6. SameOrder(t) /\ Consistent(t)
    BY <2>2, <2>3, <2>5 DEF Tracking, SameOrder, Consistent, PendingCells
  <2>7. QED
    BY <1>1, <2>2, <2>3, <2>4, <2>6 DEF Tracking
<1>4. CASE m.version > s.version
  <2>1. u = ForeignOperation(s, m)
    <3>1. ~ (m.version <= s.version)
      BY <1>2, <1>4
    <3>2. QED
      BY <1>1, <3>1 DEF Handled
  <2>2. /\ DOMAIN u = StoreFields
        /\ u.pending = s.pending /\ u.version = s.version
        /\ u.astray = s.astray /\ u.cells = CellsAfter(s.cells, m)
    BY <1>2, <2>1, ForeignFields
  <2>3. /\ t.list = u.list /\ t.pending = s.pending /\ t.version = s.version
        /\ t.seen = m.version /\ t.cells = u.cells /\ ~s.astray /\ ~LosesTrack(c, s, m)
    BY <1>1, <1>4, <2>2, NotedFields
  <2>4. Tracking(s, M)
    BY <2>3
  <2>5. s.seen \in s.version..order.version /\ s.seen \in Nat
    BY <1>2, <2>4 DEF Tracking
  <2>6. m.version = s.seen + 1 /\ ~Clashes(s, m)
    BY <2>3 DEF LosesTrack, Skips
  <2>7. PICK server, after : server = ListAt(s.seen) /\ after = ListAt(t.seen)
    OBVIOUS
  <2>8. after = Reordered(server, m) /\ \A i \in m.index : ~Occupied(server, i)
    <3>1. m.version - 1 = s.seen
      BY <2>5, <2>6
    <3>2. QED
      BY <1>2, <2>3, <2>7, <3>1 DEF Message
  <2>9. m.type = "cell_insert" => m.cell \notin Known(s)
    BY <1>4 DEF Fitting, Orderly
  <2>10. Consistent(s) /\ SameOrder(s)
    BY <2>4 DEF Tracking
  <2>11. m.cell \notin PendingCells(s)
    BY <1>2, <2>6, StoredPending DEF Clashes, PendingCells
  <2>12. /\ Has(s.list, m.cell) <=> Has(server, m.cell)
         /\ Has(server, m.cell) => s.list.byId[m.cell] = server.byId[m.cell]
    BY <2>7, <2>10, <2>11 DEF SameOrder, Has, Ids
  <2>13. /\ Has(u.list, m.cell) <=> Has(after, m.cell)
         /\ Has(u.list, m.cell) => u.list.byId[m.cell] = after.byId[m.cell]
         /\ \A x : x # m.cell => (Has(u.list, x) <=> Has(s.list, x))
         /\ \A x : /\ x # m.cell /\ x \notin PendingCells(s) /\ Has(s.list, x)
                   => u.list.byId[x] = s.list.byId[x]
    BY <1>2, <2>1, <2>6, <2>8, <2>9, <2>10, <2>12, ForeignFollows
  <2>14. ASSUME NEW x, x # m.cell
         PROVE  /\ Has(after, x) <=> Has(server, x)
                /\ Has(server, x) => after.byId[x] = server.byId[x]
    BY <2>8, <2>14, ReorderedOthers
  <2>15. PendingCells(t) = PendingCells(s)
    BY <2>3 DEF PendingCells
  <2>16. ASSUME NEW x \in (Ids(u.list) \cup Ids(after)) \ PendingCells(s)
         PROVE  Has(u.list, x) /\ Has(after, x) /\ u.list.byId[x] = after.byId[x]
    <3>1. CASE x = m.cell
      BY <2>13, <2>16, <3>1 DEF Has, Ids
    <3>2. CASE x # m.cell
      <4>1. x \in Ids(s.list) \cup Ids(server)
        BY <2>13, <2>14, <2>16, <3>2 DEF Has, Ids
      <4>2. Has(s.list, x) /\ Has(server, x) /\ s.list.byId[x] = server.byId[x]
        BY <2>7, <2>10, <2>16, <4>1 DEF SameOrder
      <4>3. QED
        BY <2>13, <2>14, <2>16, <3>2, <4>2
    <3>3. QED
      BY <3>1, <3>2
  <2>17. u.cells = Ids(u.list)
    <3>1. s.cells = Ids(s.list)
      BY <2>10 DEF SameOrder
    <3>2. Has(after, m.cell) <=> IF m.type = "cell_insert" THEN TRUE
                                 ELSE m.type # "cell_delete" /\ Has(server, m.cell)
      BY <1>2, <2>8, ReorderedCell DEF Operates, OperationTypes
    <3>3. u.cells = IF m.type = "cell_insert" THEN s.cells \cup {m.cell}
                    ELSE IF m.type = "cell_delete" THEN s.cells \ {m.cell} ELSE s.cells
      BY <2>2 DEF CellsAfter
    <3>4. ASSUME NEW x
          PROVE  x \in u.cells <=> Has(u.list, x)
      BY <2>12, <2>13, <3>1, <3>2, <3>3 DEF Has, Ids
    <3>5. QED
      BY <3>4 DEF Has, Ids
  <2>18. SameOrder(t)
    BY <2>3, <2>7, <2>15, <2>16, <2>17 DEF SameOrder
  <2>19. Consistent(t)
    <3>1. PICK p : p = s.pending /\ p = t.pending
      BY <2>3
    <3>2. /\ \A j, k \in 1..Len(p) :
               j < k /\ p[j].cell = p[k].cell => p[j].type # "cell_delete"
          /\ \A k \in 1..Len(p) :
               ~Superseded(s, k) => (Has(s.list, p[k].cell) <=> p[k].type # "cell_delete")
          /\ \A k \in 1..Len(p) : p[k].type # "cell_insert" =>
               \/ Has(server, p[k].cell)
               \/ \E j \in 1..k - 1 : p[j].cell = p[k].cell /\ p[j].type = "cell_insert"
      BY <2>7, <2>10, <3>1 DEF Consistent
    <3>3. \A k \in 1..Len(p) : p[k].cell # m.cell
      BY <2>11, <3>1 DEF PendingCells
    <3>4. \A k : Superseded(t, k) <=> Superseded(s, k)
      BY <3>1 DEF Superseded
    <3>5. \A k \in 1..Len(p) : Has(t.list, p[k].cell) <=> Has(s.list, p[k].cell)
      BY <2>3, <2>13, <3>3
    <3>6. \A k \in 1..Len(p) : Has(server, p[k].cell) => Has(after, p[k].cell)
      BY <2>14, <3>3
    <3>7. QED
      BY <2>7, <3>1, <3>2, <3>4, <3>5, <3>6 DEF Consistent
  <2>20. Delivered(M \ {m}, t.seen)
    <3>1. ASSUME NEW w \in t.seen + 1..order.version
          PROVE  \E n \in M \ {m} : n.version = w
      <4>1. w \in s.seen + 1..order.version /\ w # m.version
        BY <1>2, <2>3, <2>5, <2>6
      <4>2. PICK n \in M : n.version = w
        BY <2>4, <4>1 DEF Tracking, Delivered
      <4>3. QED
        BY <4>1, <4>2
    <3>2. QED
      BY <3>1 DEF Delivered
  <2>21. t.seen \in t.version..order.version
    BY <1>2, <2>3, <2>5, <2>6
  <2>22. QED
    BY <1>1, <2>18, <2>19, <2>20, <2>21 DEF Tracking
<1>5. QED
  BY <1>3, <1>4

----------------------------------------------------------------------------
(* An operation of its own comes back to a client.                         *)

\* The echo m is that of the first pending operation of s.
Acknowledges(m, s) ==
  /\ Len(s.pending) > 0
  /\ s.pending[1].cell = m.cell /\ s.pending[1].type = m.type

LEMMA EchoFields ==
  ASSUME NEW s, Stored(s), NEW m, Operates(m), Acknowledges(m, s),
         NEW u, u = OwnEcho(s, m)
  PROVE  /\ DOMAIN u = StoreFields
         /\ u.version = s.version /\ u.session = s.session /\ u.held = s.held
         /\ u.seen = s.seen /\ u.astray = s.astray /\ u.cells = s.cells
         /\ IsSequence(u.pending) /\ Len(u.pending) = Len(s.pending) - 1
         /\ \A k \in 1..Len(s.pending) - 1 : u.pending[k] = s.pending[k + 1]
         /\ u.pending = Tail(s.pending)
         /\ \/ u.list = s.list /\ (m.type = "cell_delete" \/ m.index = s.pending[1].index)
            \/ /\ m.type # "cell_delete"
               /\ The(m.index) \in Index /\ m.index = {The(m.index)}
               /\ u.list = MoveToStrict(s.list, m.cell, The(m.index))
<1>1. PICK q, p, l : /\ q = s.pending /\ p = Head(q)
                     /\ l = IF /\ m.index # NoIndex /\ p.index # NoIndex
                               /\ m.index # p.index
                            THEN MoveToStrict(s.list, p.cell, The(m.index)) ELSE s.list
  OBVIOUS
<1>2. IsSequence(q) /\ Len(q) > 0 /\ DOMAIN s = StoreFields
  BY <1>1 DEF Acknowledges, Stored
<1>3. q # <<>>
  BY <1>2
<1>4. p = q[1] /\ p.cell = m.cell /\ p.type = m.type
  BY <1>1, <1>2, <1>3, HeadOfSequence DEF Acknowledges
<1>5. u = [s EXCEPT !.list = l, !.pending = Tail(q)]
  BY <1>1, <1>2, <1>3 DEF OwnEcho, StoreFields
<1>6. /\ IsSequence(Tail(q)) /\ Len(Tail(q)) = Len(q) - 1
      /\ \A k \in 1..Len(q) - 1 : Tail(q)[k] = q[k + 1]
  BY <1>2, TailIsSequence
<1>7. /\ DOMAIN u = StoreFields
      /\ u.version = s.version /\ u.session = s.session /\ u.held = s.held
      /\ u.seen = s.seen /\ u.astray = s.astray /\ u.cells = s.cells
      /\ u.list = l /\ u.pending = Tail(q)
  BY <1>2, <1>5 DEF StoreFields
<1>8. Operates(p)
  <2>1. 1 \in 1..Len(q)
    BY <1>2 DEF IsSequence
  <2>2. QED
    BY <1>1, <1>4, <2>1 DEF Stored
<1>9. CASE m.index # NoIndex /\ p.index # NoIndex /\ m.index # p.index
  <2>1. m.type # "cell_delete" /\ The(m.index) \in Index /\ m.index = {The(m.index)}
    BY <1>9, OperatesIndex
  <2>2. l = MoveToStrict(s.list, m.cell, The(m.index))
    BY <1>1, <1>4, <1>9
  <2>3. QED
    BY <1>1, <1>6, <1>7, <2>1, <2>2
<1>10. CASE ~ (m.index # NoIndex /\ p.index # NoIndex /\ m.index # p.index)
  <2>1. l = s.list
    BY <1>1, <1>10
  <2>2. m.type = "cell_delete" \/ m.index = p.index
    BY <1>4, <1>8, <1>10 DEF Operates, NoIndex
  <2>3. QED
    BY <1>1, <1>4, <1>6, <1>7, <2>1, <2>2
<1>11. QED
  BY <1>9, <1>10

LEMMA EchoKeepsCells ==
  ASSUME NEW s, Stored(s), NEW m, Operates(m), Acknowledges(m, s),
         NEW u, u = OwnEcho(s, m)
  PROVE  /\ Stored(u) /\ Ids(u.list) = Ids(s.list)
         /\ PendingCells(s) = PendingCells(u) \cup {m.cell}
<1>1. /\ DOMAIN u = StoreFields /\ u.version = s.version
      /\ IsSequence(u.pending) /\ Len(u.pending) = Len(s.pending) - 1
      /\ \A k \in 1..Len(s.pending) - 1 : u.pending[k] = s.pending[k + 1]
      /\ \/ u.list = s.list
         \/ /\ The(m.index) \in Index
            /\ u.list = MoveToStrict(s.list, m.cell, The(m.index))
  BY EchoFields
<1>2. WellFormed(u.list) /\ Ids(u.list) = Ids(s.list)
  <2>1. CASE u.list = s.list
    BY <2>1 DEF Stored
  <2>2. CASE /\ The(m.index) \in Index
             /\ u.list = MoveToStrict(s.list, m.cell, The(m.index))
    BY <2>2, MoveStrictWellFormed, StrictMovePlaces DEF Stored
  <2>3. QED
    BY <1>1, <2>1, <2>2
<1>3. Len(s.pending) \in Nat /\ Len(s.pending) > 0
  BY DEF Stored, IsSequence, Acknowledges
<1>4. \A k \in 1..Len(u.pending) : k + 1 \in 1..Len(s.pending) /\ u.pending[k] = s.pending[k + 1]
  BY <1>1, <1>3
<1>5. Stored(u)
  BY <1>1, <1>2, <1>4 DEF Stored
<1>6. PendingCells(s) = PendingCells(u) \cup {m.cell}
  <2>1. PICK a, b : a = s.pending /\ b = u.pending
    OBVIOUS
  <2>2. ASSUME NEW k \in 1..Len(a)
        PROVE  a[k].cell \in PendingCells(u) \cup {m.cell}
    <3>1. CASE k = 1
      BY <2>1, <3>1 DEF Acknowledges
    <3>2. CASE k # 1
      <4>1. k - 1 \in 1..Len(b) /\ b[k - 1] = a[k]
        BY <1>1, <1>3, <2>1, <3>2
      <4>2. QED
        BY <2>1, <4>1 DEF PendingCells
    <3>3. QED
      BY <3>1, <3>2
  <2>3. \A k \in 1..Len(b) : b[k].cell \in PendingCells(s)
    BY <1>4, <2>1 DEF PendingCells
  <2>4. m.cell \in PendingCells(s)
    <3>1. 1 \in 1..Len(a) /\ a[1].cell = m.cell
      BY <1>3, <2>1 DEF Acknowledges
    <3>2. QED
      BY <2>1, <3>1 DEF PendingCells
  <2>5. PendingCells(s) \subseteq PendingCells(u) \cup {m.cell}
    BY <2>1, <2>2 DEF PendingCells
  <2>6. PendingCells(u) \subseteq PendingCells(s)
    BY <2>1, <2>3 DEF PendingCells
  <2>7. QED
    BY <2>4, <2>5, <2>6
<1>7. QED
  BY <1>2, <1>5, <1>6

LEMMA OwnOrderly ==
  ASSUME NEW c \in Client, NEW s, NEW M, Fitting(c, s, M), Messages(M),
         NEW m \in M, m.author = c, Acknowledges(m, s), ~ (m.version <= s.version)
  PROVE  LET t == Noted(c, s, m)
         IN  /\ Fitting(c, t, M \ {m}) /\ DOMAIN t = StoreFields
             /\ t.version = s.version /\ t.session = s.session /\ t.held = s.held
             /\ t.pending = Tail(s.pending)
<1>1. PICK u, t : u = OwnEcho(s, m) /\ t = Noted(c, s, m)
  OBVIOUS
<1>2. Stored(s) /\ Operates(m) /\ u = Handled(c, s, m)
  BY <1>1 DEF Fitting, Messages, Message, Handled
<1>3. Stored(u) /\ Ids(u.list) = Ids(s.list) /\ PendingCells(s) = PendingCells(u) \cup {m.cell}
  BY <1>1, <1>2, EchoKeepsCells
<1>4. /\ u.version = s.version /\ u.session = s.session /\ u.held = s.held
      /\ u.pending = Tail(s.pending)
  <2>1. Stored(s) /\ Operates(m) /\ Acknowledges(m, s) /\ u = OwnEcho(s, m)
    BY <1>1, <1>2
  <2>2. QED
    BY ONLY <2>1, EchoFields
<1>5. /\ DOMAIN t = StoreFields /\ t.list = u.list /\ t.pending = u.pending
      /\ t.version = u.version /\ t.session = u.session /\ t.held = u.held
  BY <1>1, <1>2, <1>3, NotedFields DEF Stored
<1>6. Stored(t)
  BY <1>3, <1>5 DEF Stored
<1>7. Known(t) \subseteq Known(s)
  BY <1>3, <1>5 DEF Known, PendingCells
<1>8. Orderly(c, t, M \ {m})
  BY <1>4, <1>5, <1>6, <1>7 DEF Orderly, Fitting, Stored
<1>9. QED
  BY <1>1, <1>4, <1>5, <1>6, <1>8 DEF Fitting

LEMMA OwnTracks ==
  ASSUME LogInv, order.version \in Nat, NEW c \in Client, NEW s, NEW M,
         Fitting(c, s, M), Messages(M), NEW m \in M, m.author = c,
         Acknowledges(m, s), ~ (m.version <= s.version),
         ~s.astray => Tracking(s, M), ~Noted(c, s, m).astray
  PROVE  Tracking(Noted(c, s, m), M \ {m})
<1>1. PICK u, t : u = OwnEcho(s, m) /\ t = Noted(c, s, m)
  OBVIOUS
<1>2. /\ Stored(s) /\ Message(m) /\ Operates(m) /\ u = Handled(c, s, m)
      /\ m.version \in 1..order.version /\ s.version \in Nat /\ WellFormed(s.list)
  BY <1>1 DEF Fitting, Messages, Message, Handled, Stored
<1>3. m.version > s.version
  BY <1>2
<1>4. Stored(u) /\ Ids(u.list) = Ids(s.list) /\ PendingCells(s) = PendingCells(u) \cup {m.cell}
  BY <1>1, <1>2, EchoKeepsCells
<1>5. /\ u.version = s.version /\ u.astray = s.astray /\ u.cells = s.cells
      /\ IsSequence(u.pending) /\ Len(u.pending) = Len(s.pending) - 1
      /\ \A k \in 1..Len(s.pending) - 1 : u.pending[k] = s.pending[k + 1]
      /\ \/ u.list = s.list /\ (m.type = "cell_delete" \/ m.index = s.pending[1].index)
         \/ /\ m.type # "cell_delete"
            /\ The(m.index) \in Index /\ m.index = {The(m.index)}
            /\ u.list = MoveToStrict(s.list, m.cell, The(m.index))
  <2>1. Stored(s) /\ Operates(m) /\ Acknowledges(m, s) /\ u = OwnEcho(s, m)
    BY <1>1, <1>2
  <2>2. QED
    BY ONLY <2>1, EchoFields
<1>6. /\ t.list = u.list /\ t.pending = u.pending /\ t.cells = u.cells
      /\ t.version = u.version /\ t.seen = m.version
      /\ ~u.astray /\ ~LosesTrack(c, s, m)
  BY <1>1, <1>2, <1>3, <1>4, NotedFields DEF Stored
<1>7. Tracking(s, M)
  BY <1>5, <1>6
<1>8. s.seen \in s.version..order.version /\ s.seen \in Nat
  BY <1>2, <1>7 DEF Tracking
<1>9. m.version = s.seen + 1 /\ ~LeftItsPlace(s, m)
  BY <1>6 DEF LosesTrack, Skips
<1>10. PICK server, after : server = ListAt(s.seen) /\ after = ListAt(t.seen)
  OBVIOUS
<1>11. after = Reordered(server, m) /\ \A i \in m.index : ~Occupied(server, i)
  <2>1. m.version - 1 = s.seen
    BY <1>8, <1>9
  <2>2. QED
    BY <1>2, <1>6, <1>10, <2>1 DEF Message
<1>12. PICK p, q : p = s.pending /\ q = t.pending
  OBVIOUS
<1>13. /\ Len(p) \in Nat /\ Len(p) > 0 /\ Len(q) = Len(p) - 1
       /\ \A k \in 1..Len(p) - 1 : q[k] = p[k + 1]
       /\ p[1].cell = m.cell /\ p[1].type = m.type /\ 1 \in 1..Len(p)
       /\ DOMAIN p = 1..Len(p) /\ DOMAIN q = 1..Len(q)
       /\ Head(p) = p[1]
  <2>1. IsSequence(p) /\ IsSequence(q)
    BY <1>2, <1>5, <1>6, <1>12 DEF Stored
  <2>2. Len(p) \in Nat /\ Len(p) > 0 /\ p # <<>>
    BY <1>12, <2>1 DEF IsSequence, Acknowledges
  <2>3. Head(p) = p[1]
    BY <2>1, <2>2, HeadOfSequence
  <2>4. QED
    BY <1>5, <1>6, <1>12, <2>1, <2>2, <2>3 DEF IsSequence, Acknowledges
<1>14. /\ \A j, k \in 1..Len(p) :
            j < k /\ p[j].cell = p[k].cell => p[j].type # "cell_delete"
       /\ \A k \in 1..Len(p) :
            ~Superseded(s, k) => (Has(s.list, p[k].cell) <=> p[k].type # "cell_delete")
       /\ \A k \in 1..Len(p) : p[k].type # "cell_insert" =>
            \/ Has(server, p[k].cell)
            \/ \E j \in 1..k - 1 : p[j].cell = p[k].cell /\ p[j].type = "cell_insert"
  BY <1>7, <1>10, <1>12 DEF Tracking, Consistent
<1>15. \A x : Has(u.list, x) <=> Has(s.list, x)
  BY <1>4 DEF Has, Ids
<1>16. ASSUME NEW k \in 1..Len(q)
       PROVE  /\ k + 1 \in 1..Len(p) /\ q[k] = p[k + 1]
              /\ Superseded(s, k + 1) => Superseded(t, k)
  <2>1. k + 1 \in 1..Len(p) /\ q[k] = p[k + 1]
    BY <1>13
  <2>2. ASSUME NEW j \in DOMAIN p, j > k + 1, p[j].cell = p[k + 1].cell
        PROVE  Superseded(t, k)
    <3>1. j - 1 \in DOMAIN q /\ j - 1 > k /\ q[j - 1] = p[j]
      BY <1>13, <2>2
    <3>2. QED
      BY <1>12, <2>1, <2>2, <3>1 DEF Superseded
  <2>3. QED
    BY <1>12, <2>1, <2>2 DEF Superseded
<1>17. Consistent(t)
  <2>1. ASSUME NEW j \in 1..Len(q), NEW k \in 1..Len(q), j < k, q[j].cell = q[k].cell
        PROVE  q[j].type # "cell_delete"
    BY <1>13, <1>14, <1>16, <2>1
  <2>2. ASSUME NEW k \in 1..Len(q), ~Superseded(t, k)
        PROVE  Has(t.list, q[k].cell) <=> q[k].type # "cell_delete"
    BY <1>6, <1>14, <1>15, <1>16, <2>2
  <2>3. ASSUME NEW k \in 1..Len(q), q[k].type # "cell_insert"
        PROVE  \/ Has(after, q[k].cell)
               \/ \E j \in 1..k - 1 : q[j].cell = q[k].cell /\ q[j].type = "cell_insert"
    <3>1. k + 1 \in 1..Len(p) /\ q[k] = p[k + 1] /\ k \in Nat
      BY <1>16
    <3>2. CASE Has(server, q[k].cell)
      <4>1. CASE q[k].cell # m.cell
        BY <1>11, <3>2, <4>1, ReorderedOthers
      <4>2. CASE q[k].cell = m.cell
        <5>1. m.type # "cell_delete"
          <6>1. 1 < k + 1 /\ p[1].cell = p[k + 1].cell
            BY <1>13, <2>3, <3>1, <4>2
          <6>2. p[1].type # "cell_delete"
            BY <1>13, <1>14, <3>1, <6>1
          <6>3. QED
            BY <1>13, <6>2
        <5>2. Has(after, m.cell)
          BY <1>2, <1>11, <3>2, <4>2, <5>1, ReorderedCell DEF Operates, OperationTypes
        <5>3. QED
          BY <4>2, <5>2
      <4>3. QED
        BY <4>1, <4>2
    <3>3. CASE ~Has(server, q[k].cell)
      <4>1. PICK j \in 1..(k + 1) - 1 : p[j].cell = p[k + 1].cell /\ p[j].type = "cell_insert"
        BY <1>14, <2>3, <3>1, <3>3
      <4>2. CASE j = 1
        <5>1. m.type = "cell_insert" /\ m.cell = q[k].cell
          BY <1>13, <3>1, <4>1, <4>2
        <5>2. QED
          BY <1>2, <1>11, <5>1, ReorderedCell
      <4>3. CASE j # 1
        <5>1. j - 1 \in 1..k - 1 /\ j - 1 \in 1..Len(p) - 1 /\ (j - 1) + 1 = j
          BY <1>13, <3>1, <4>1, <4>3
        <5>2. q[j - 1] = p[j]
          BY <1>13, <5>1
        <5>3. QED
          BY <3>1, <4>1, <5>1, <5>2
      <4>4. QED
        BY <4>2, <4>3
    <3>4. QED
      BY <3>2, <3>3
  <2>4. QED
    BY <1>10, <1>12, <2>1, <2>2, <2>3 DEF Consistent
<1>18. SameOrder(s)
  BY <1>7 DEF Tracking
<1>19. ASSUME NEW x \in (Ids(t.list) \cup Ids(after)) \ PendingCells(t)
       PROVE  Has(t.list, x) /\ Has(after, x) /\ t.list.byId[x] = after.byId[x]
  <2>0. PendingCells(s) = PendingCells(t) \cup {m.cell}
    BY <1>4, <1>6 DEF PendingCells
  <2>1. CASE x # m.cell
    <3>1. x \notin PendingCells(s)
      BY <1>19, <2>0, <2>1
    <3>2. Has(after, x) <=> Has(server, x)
      BY <1>11, <2>1, ReorderedOthers
    <3>3. x \in Ids(s.list) \cup Ids(server)
      BY <1>6, <1>15, <1>19, <3>2 DEF Has, Ids
    <3>4. Has(s.list, x) /\ Has(server, x) /\ s.list.byId[x] = server.byId[x]
      BY <1>10, <1>18, <3>1, <3>3 DEF SameOrder
    <3>5. after.byId[x] = server.byId[x]
      BY <1>11, <2>1, <3>4, ReorderedOthers
    <3>6. t.list.byId[x] = s.list.byId[x]
      <4>1. CASE u.list = s.list
        BY <1>6, <4>1
      <4>2. CASE /\ The(m.index) \in Index /\ m.index = {The(m.index)}
                 /\ u.list = MoveToStrict(s.list, m.cell, The(m.index))
        <5>1. ~Occupied(server, The(m.index))
          BY <1>11, <4>2
        <5>2. WellFormed(server)
          BY <1>8, <1>10 DEF LogInv
        <5>3. server.byId[x] # The(m.index)
          BY <3>4, <5>1, <5>2 DEF WellFormed, MapsMirror, Has, Occupied
        <5>4. x \in Ids(s.list) \ {m.cell}
          BY <2>1, <3>4 DEF Has, Ids
        <5>5. u.list.byId[x] = s.list.byId[x]
          BY <1>2, <3>4, <4>2, <5>3, <5>4, StrictMovePlaces
        <5>6. QED
          BY <1>6, <5>5
      <4>3. QED
        BY <1>5, <4>1, <4>2
    <3>7. QED
      BY <1>6, <1>15, <3>2, <3>4, <3>5, <3>6
  <2>2. CASE x = m.cell
    <3>1. ~Superseded(s, 1)
      <4>1. ASSUME NEW j \in DOMAIN p, j > 1, p[j].cell = p[1].cell
            PROVE  FALSE
        <5>1. j - 1 \in 1..Len(q) /\ q[j - 1] = p[j]
          BY <1>13, <4>1
        <5>2. m.cell \in PendingCells(t)
          BY <1>12, <1>13, <4>1, <5>1 DEF PendingCells
        <5>3. QED
          BY <1>19, <2>2, <5>2
      <4>2. QED
        BY <1>12, <1>13, <4>1 DEF Superseded
    <3>2. Has(s.list, m.cell) <=> m.type # "cell_delete"
      BY <1>13, <1>14, <3>1
    <3>3. m.type # "cell_delete"
      <4>1. ASSUME m.type = "cell_delete"
            PROVE  FALSE
        <5>1. ~Has(after, m.cell)
          BY <1>2, <1>11, <4>1, ReorderedCell
        <5>2. ~Has(t.list, m.cell)
          BY <1>6, <1>15, <3>2, <4>1
        <5>3. QED
          BY <1>19, <2>2, <5>1, <5>2 DEF Has, Ids
      <4>2. QED
        BY <4>1
    <3>4. Has(after, m.cell)
      <4>1. CASE m.type = "cell_insert"
        BY <1>2, <1>11, <4>1, ReorderedCell
      <4>2. CASE m.type = "cell_move"
        <5>1. 1..1 - 1 = {}
          OBVIOUS
        <5>2. Has(server, m.cell)
          BY <1>13, <1>14, <4>2, <5>1
        <5>3. QED
          BY <1>2, <1>11, <4>2, <5>2, ReorderedCell
      <4>3. QED
        BY <1>2, <3>3, <4>1, <4>2 DEF Operates, OperationTypes
    <3>5. The(m.index) \in Index /\ m.index = {The(m.index)} /\ m.index # NoIndex
      BY <1>2, <3>3 DEF Operates, NoIndex
    <3>6. after.byId[m.cell] = The(m.index)
      <4>1. ~Occupied(server, The(m.index))
        BY <1>11, <3>5
      <4>2. RealIndex(server, The(m.index)) = The(m.index)
        BY <4>1 DEF RealIndex
      <4>3. QED
        BY <1>2, <1>11, <3>4, <4>2, ReorderedCell
    <3>7. t.list.byId[m.cell] = The(m.index)
      <4>1. CASE u.list = s.list /\ m.index = s.pending[1].index
        <5>1. Has(s.list, m.cell)
          BY <3>2, <3>3
        <5>2. ~ (s.list.byId[m.cell] # The(m.index))
          BY <1>9, <1>12, <1>13, <3>1, <3>5, <4>1 DEF LeftItsPlace
        <5>3. QED
          BY <1>6, <4>1, <5>2
      <4>2. CASE u.list = MoveToStrict(s.list, m.cell, The(m.index))
        BY <1>2, <1>6, <3>2, <3>3, <3>5, <4>2, StrictMovePlaces
      <4>3. QED
        BY <1>5, <3>3, <4>1, <4>2
    <3>8. Has(t.list, m.cell)
      BY <1>6, <1>15, <3>2, <3>3
    <3>9. QED
      BY <2>2, <3>4, <3>6, <3>7, <3>8
  <2>3. QED
    BY <2>1, <2>2
<1>20. SameOrder(t)
  <2>1. t.cells = Ids(t.list)
    BY <1>4, <1>5, <1>6, <1>18 DEF SameOrder
  <2>2. QED
    BY <1>10, <1>19, <2>1 DEF SameOrder
<1>21. Delivered(M \ {m}, t.seen)
  <2>1. ASSUME NEW w \in t.seen + 1..order.version
        PROVE  \E n \in M \ {m} : n.version = w
    <3>1. w \in s.seen + 1..order.version /\ w # m.version
      BY <1>2, <1>6, <1>8, <1>9, <2>1
    <3>2. PICK n \in M : n.version = w
      BY <1>7, <3>1 DEF Tracking, Delivered
    <3>3. QED
      BY <3>1, <3>2
  <2>2. QED
    BY <2>1 DEF Delivered
<1>22. t.seen \in t.version..order.version
  BY <1>2, <1>3, <1>5, <1>6
<1>23. QED
  BY <1>1, <1>17, <1>20, <1>21, <1>22 DEF Tracking

----------------------------------------------------------------------------
(* A user makes an operation.                                              *)

\* op is one that the user of c may make when the store is s.
Offered(c, s, op) ==
  /\ op.id = NewId(c) /\ Operates(op)
  /\ IF op.type = "cell_insert" THEN op.cell = NewId(c) ELSE Has(s.list, op.cell)

LEMMA OfferedWhenMade ==
  ASSUME NEW c \in Client, WellFormed(client[c].list),
         InsertCell(c) \/ DeleteCell(c) \/ MoveCell(c)
  PROVE  \E op : Make(c, op) /\ Offered(c, client[c], op)
<1>1. PICK l : l = client[c].list /\ WellFormed(l)
  OBVIOUS
<1>2. CASE InsertCell(c)
  <2>1. PICK i \in InsertPlaces(l) :
          Make(c, Operation(NewId(c), "cell_insert", NewId(c), {i}))
    BY <1>1, <1>2 DEF InsertCell
  <2>2. i \in Index
    BY <1>1, <2>1, PlacesFit
  <2>3. PICK op : op = Operation(NewId(c), "cell_insert", NewId(c), {i})
    OBVIOUS
  <2>4. /\ op.id = NewId(c) /\ op.type = "cell_insert" /\ op.cell = NewId(c)
        /\ op.index = {i}
    BY <2>3 DEF Operation
  <2>5. Operates(op)
    BY <2>2, <2>4, TheOnly DEF Operates, OperationTypes
  <2>6. QED
    BY <2>1, <2>3, <2>4, <2>5 DEF Offered
<1>3. CASE DeleteCell(c)
  <2>1. PICK cell \in Ids(l) :
          Make(c, Operation(NewId(c), "cell_delete", cell, NoIndex))
    BY <1>1, <1>3 DEF DeleteCell
  <2>2. PICK op : op = Operation(NewId(c), "cell_delete", cell, NoIndex)
    OBVIOUS
  <2>3. /\ op.id = NewId(c) /\ op.type = "cell_delete" /\ op.cell = cell
        /\ op.index = NoIndex
    BY <2>2 DEF Operation
  <2>4. Operates(op)
    BY <2>3 DEF Operates, OperationTypes
  <2>5. QED
    BY <1>1, <2>1, <2>2, <2>3, <2>4 DEF Offered, Has, Ids
<1>4. CASE MoveCell(c)
  <2>0. PICK cell \in Ids(l) : \E i \in MovePlaces(l, cell) :
          Make(c, Operation(NewId(c), "cell_move", cell, {i}))
    BY <1>1, <1>4 DEF MoveCell
  <2>1. PICK i \in MovePlaces(l, cell) :
          Make(c, Operation(NewId(c), "cell_move", cell, {i}))
    BY <2>0
  <2>2. i \in Index
    BY <1>1, <2>0, <2>1, PlacesFit
  <2>3. PICK op : op = Operation(NewId(c), "cell_move", cell, {i})
    OBVIOUS
  <2>4. /\ op.id = NewId(c) /\ op.type = "cell_move" /\ op.cell = cell
        /\ op.index = {i}
    BY <2>3 DEF Operation
  <2>5. Operates(op)
    BY <2>2, <2>4, TheOnly DEF Operates, OperationTypes
  <2>6. QED
    BY <1>1, <2>0, <2>1, <2>3, <2>4, <2>5 DEF Offered, Has, Ids
<1>5. QED
  BY <1>2, <1>3, <1>4

\* Nobody knows the id of a cell before it is made.
LEMMA NewIdIsNew ==
  ASSUME NEW c \in Client, made \in [Client -> Nat],
         \A d \in Client : Taken(d) \in Int /\ Taken(d) <= made[d]
  PROVE  NewId(c) \notin TakenCells \cup OwnCells(c)
<1>1. made[c] \in Nat /\ NewId(c) = <<c, made[c] + 1>>
  BY DEF NewId
<1>2. NewId(c) \notin Range(InitialCells)
  BY <1>1, CellsAssumption
<1>3. NewId(c) \notin OwnCells(c)
  BY <1>1 DEF OwnCells
<1>4. ASSUME NEW d \in Client, NewId(c) \in {<<d, n>> : n \in 1..Taken(d)}
      PROVE  FALSE
  <2>1. PICK n \in 1..Taken(d) : NewId(c) = <<d, n>>
    BY <1>4
  <2>2. d = c /\ n = made[c] + 1
    BY <1>1, <2>1
  <2>3. QED
    BY <1>1, <2>1, <2>2
<1>5. QED
  BY <1>2, <1>3, <1>4 DEF TakenCells

\* The store after it.
CellsMade(cells, op) ==
  IF op.type = "cell_insert" THEN cells \cup {op.cell}
  ELSE IF op.type = "cell_delete" THEN cells \ {op.cell} ELSE cells

Enlarged(s, op) ==
  [s EXCEPT !.list = Reordered(@, op),
            !.cells = CellsMade(@, op),
            !.pending = Append(@, op)]

LEMMA MadeFields ==
  ASSUME NEW s, Stored(s), NEW op, NEW t, t = Enlarged(s, op)
  PROVE  /\ DOMAIN t = StoreFields /\ t.list = Reordered(s.list, op)
         /\ t.cells = CellsMade(s.cells, op)
         /\ t.session = s.session /\ t.version = s.version /\ t.held = s.held
         /\ t.seen = s.seen /\ t.astray = s.astray
         /\ t.pending = Append(s.pending, op)
         /\ IsSequence(t.pending) /\ Len(t.pending) = Len(s.pending) + 1
         /\ \A k \in 1..Len(s.pending) : t.pending[k] = s.pending[k]
         /\ t.pending[Len(s.pending) + 1] = op
<1>1. /\ DOMAIN t = StoreFields /\ t.list = Reordered(s.list, op)
      /\ t.cells = CellsMade(s.cells, op)
      /\ t.session = s.session /\ t.version = s.version /\ t.held = s.held
      /\ t.seen = s.seen /\ t.astray = s.astray
      /\ t.pending = Append(s.pending, op)
  BY DEF Enlarged, Stored, StoreFields
<1>2. PICK p : p = s.pending /\ IsSequence(p)
  BY DEF Stored
<1>3. /\ IsSequence(Append(p, op)) /\ Len(Append(p, op)) = Len(p) + 1
      /\ \A k \in 1..Len(p) : Append(p, op)[k] = p[k]
      /\ Append(p, op)[Len(p) + 1] = op
  BY <1>2, AppendIsSequence
<1>4. QED
  BY <1>1, <1>2, <1>3

LEMMA MadeFits ==
  ASSUME NEW c, NEW s, Stored(s), NEW op, Offered(c, s, op),
         NewId(c) \notin Known(s), NEW t, t = Enlarged(s, op)
  PROVE  /\ Stored(t) /\ Known(t) \subseteq Known(s) \cup {NewId(c)}
         /\ PendingCells(t) = PendingCells(s) \cup {op.cell}
<1>1. PICK p, q : p = s.pending /\ q = t.pending
  OBVIOUS
<1>2. /\ DOMAIN t = StoreFields /\ t.list = Reordered(s.list, op)
      /\ t.version = s.version
      /\ IsSequence(q) /\ Len(q) = Len(p) + 1 /\ Len(p) \in Nat
      /\ \A k \in 1..Len(p) : q[k] = p[k]
      /\ q[Len(p) + 1] = op
  <2>1. /\ DOMAIN t = StoreFields /\ t.list = Reordered(s.list, op)
        /\ t.cells = CellsMade(s.cells, op)
        /\ t.version = s.version /\ t.seen = s.seen
        /\ IsSequence(t.pending) /\ Len(t.pending) = Len(s.pending) + 1
        /\ \A k \in 1..Len(s.pending) : t.pending[k] = s.pending[k]
        /\ t.pending[Len(s.pending) + 1] = op
    <3>1. Stored(s) /\ t = Enlarged(s, op)
      OBVIOUS
    <3>2. QED
      BY ONLY <3>1, MadeFields
  <2>2. IsSequence(s.pending) /\ Len(s.pending) \in Nat
    BY DEF Stored, IsSequence
  <2>3. QED
    BY <1>1, <2>1, <2>2
<1>3. WellFormed(t.list)
  <2>1. op.type = "cell_insert" => ~Has(s.list, op.cell)
    BY DEF Offered, Known, Has, Ids
  <2>2. QED
    BY <1>2, <2>1, ReorderedFits DEF Stored, Offered
<1>4. \A k \in 1..Len(q) : (k \in 1..Len(p) /\ q[k] = p[k]) \/ (k = Len(p) + 1 /\ q[k] = op)
  BY <1>2
<1>5. Stored(t)
  <2>1. op.type = "cell_insert" => op.cell = op.id
    BY DEF Offered
  <2>2. \A k \in 1..Len(p) : /\ Operates(p[k])
                             /\ p[k].type = "cell_insert" => p[k].cell = p[k].id
    BY <1>1 DEF Stored
  <2>3. \A k \in 1..Len(q) : /\ Operates(q[k])
                             /\ q[k].type = "cell_insert" => q[k].cell = q[k].id
    BY <1>4, <2>1, <2>2 DEF Offered
  <2>4. QED
    BY <1>1, <1>2, <1>3, <2>3 DEF Stored
<1>6. PendingCells(t) = PendingCells(s) \cup {op.cell}
  <2>1. PendingCells(t) \subseteq PendingCells(s) \cup {op.cell}
    BY <1>1, <1>4 DEF PendingCells
  <2>2. PendingCells(s) \subseteq PendingCells(t)
    <3>1. \A k \in 1..Len(p) : k \in 1..Len(q) /\ q[k] = p[k]
      BY <1>2
    <3>2. QED
      BY <1>1, <3>1 DEF PendingCells
  <2>3. op.cell \in PendingCells(t)
    <3>1. Len(p) + 1 \in 1..Len(q)
      BY <1>2
    <3>2. QED
      BY <1>1, <1>2, <3>1 DEF PendingCells
  <2>4. QED
    BY <2>1, <2>2, <2>3
<1>7. ASSUME NEW x \in Ids(t.list), x # op.cell
      PROVE  x \in Ids(s.list)
  BY <1>2, <1>7, ReorderedOthers DEF Has, Ids
<1>8. op.cell \in Known(s) \cup {NewId(c)}
  BY DEF Offered, Known, Has, Ids
<1>9. Known(t) \subseteq Known(s) \cup {NewId(c)}
  BY <1>6, <1>7, <1>8 DEF Known
<1>10. QED
  BY <1>5, <1>6, <1>9

LEMMA MadeTracks ==
  ASSUME NEW c, NEW s, Stored(s), NEW op, Offered(c, s, op),
         NewId(c) \notin Known(s), NewId(c) \notin Ids(ListAt(s.seen)),
         NEW t, t = Enlarged(s, op), SameOrder(s), Consistent(s)
  PROVE  SameOrder(t) /\ Consistent(t)
<1>1. PICK p, q, n, server :
        p = s.pending /\ q = t.pending /\ n = Len(p) /\ server = ListAt(s.seen)
  OBVIOUS
<1>2. /\ t.list = Reordered(s.list, op) /\ t.seen = s.seen
      /\ t.cells = CellsMade(s.cells, op)
      /\ IsSequence(p) /\ IsSequence(q) /\ Len(q) = n + 1 /\ n \in Nat
      /\ \A k \in 1..n : q[k] = p[k]
      /\ q[n + 1] = op
  <2>1. /\ DOMAIN t = StoreFields /\ t.list = Reordered(s.list, op)
        /\ t.cells = CellsMade(s.cells, op)
        /\ t.version = s.version /\ t.seen = s.seen
        /\ IsSequence(t.pending) /\ Len(t.pending) = Len(s.pending) + 1
        /\ \A k \in 1..Len(s.pending) : t.pending[k] = s.pending[k]
        /\ t.pending[Len(s.pending) + 1] = op
    <3>1. Stored(s) /\ t = Enlarged(s, op)
      OBVIOUS
    <3>2. QED
      BY ONLY <3>1, MadeFields
  <2>2. IsSequence(s.pending) /\ Len(s.pending) \in Nat
    BY DEF Stored, IsSequence
  <2>3. QED
    BY <1>1, <2>1, <2>2
<1>3. \A k \in 1..Len(q) : (k \in 1..n /\ q[k] = p[k]) \/ (k = n + 1 /\ q[k] = op)
  BY <1>2
<1>4. /\ \A j, k \in 1..n :
           j < k /\ p[j].cell = p[k].cell => p[j].type # "cell_delete"
      /\ \A k \in 1..n :
           ~Superseded(s, k) => (Has(s.list, p[k].cell) <=> p[k].type # "cell_delete")
      /\ \A k \in 1..n : p[k].type # "cell_insert" =>
           \/ Has(server, p[k].cell)
           \/ \E j \in 1..k - 1 : p[j].cell = p[k].cell /\ p[j].type = "cell_insert"
  BY <1>1 DEF Consistent
<1>5. DOMAIN p = 1..n /\ DOMAIN q = 1..n + 1
  BY <1>1, <1>2 DEF IsSequence
<1>6. Operates(op) /\ op.type \in OperationTypes
  BY DEF Offered, Operates
<1>7. op.type = "cell_insert" => /\ op.cell \notin PendingCells(s)
                                 /\ ~Has(s.list, op.cell) /\ ~Has(server, op.cell)
  BY <1>1 DEF Offered, Known, Has, Ids
<1>8. op.type # "cell_insert" => Has(s.list, op.cell)
  BY DEF Offered
<1>9. \A k \in 1..n : p[k].cell \in PendingCells(s)
  BY <1>1 DEF PendingCells
<1>10. ASSUME NEW j \in 1..n, p[j].cell = op.cell
       PROVE  p[j].type # "cell_delete"
  <2>1. op.type # "cell_insert"
    BY <1>7, <1>9, <1>10
  <2>2. CASE ~Superseded(s, j)
    BY <1>4, <1>8, <1>10, <2>1, <2>2
  <2>3. CASE Superseded(s, j)
    <3>1. PICK k \in 1..n : k > j /\ p[k].cell = p[j].cell
      BY <1>1, <1>5, <2>3 DEF Superseded
    <3>2. QED
      BY <1>2, <1>4, <3>1
  <2>4. QED
    BY <2>2, <2>3
<1>11. ASSUME NEW j \in 1..Len(q), NEW k \in 1..Len(q), j < k, q[j].cell = q[k].cell
       PROVE  q[j].type # "cell_delete"
  <2>1. j \in 1..n /\ q[j] = p[j]
    BY <1>2, <1>11
  <2>2. CASE k \in 1..n
    BY <1>2, <1>4, <1>11, <2>1, <2>2
  <2>3. CASE k = n + 1
    BY <1>2, <1>10, <1>11, <2>1, <2>3
  <2>4. QED
    BY <1>3, <2>2, <2>3
<1>12. ASSUME NEW k \in 1..Len(q), ~Superseded(t, k)
       PROVE  Has(t.list, q[k].cell) <=> q[k].type # "cell_delete"
  <2>1. CASE k = n + 1
    <3>1. q[k] = op
      BY <1>2, <2>1
    <3>2. QED
      BY <1>2, <1>6, <1>8, <3>1, ReorderedCell DEF OperationTypes
  <2>2. CASE k \in 1..n
    <3>1. q[k] = p[k]
      BY <1>2, <2>2
    <3>2. p[k].cell # op.cell
      <4>1. n + 1 \in DOMAIN q /\ n + 1 > k
        BY <1>2, <1>5, <2>2
      <4>2. QED
        BY <1>1, <1>2, <1>12, <3>1, <4>1 DEF Superseded
    <3>3. ~Superseded(s, k)
      <4>1. ASSUME NEW j \in DOMAIN p, j > k, p[j].cell = p[k].cell
            PROVE  Superseded(t, k)
        <5>1. j \in DOMAIN q /\ q[j] = p[j]
          BY <1>2, <1>5, <4>1
        <5>2. QED
          BY <1>1, <3>1, <4>1, <5>1 DEF Superseded
      <4>2. QED
        BY <1>1, <1>12, <4>1 DEF Superseded
    <3>4. Has(s.list, p[k].cell) <=> p[k].type # "cell_delete"
      BY <1>4, <2>2, <3>3
    <3>5. Has(t.list, p[k].cell) <=> Has(s.list, p[k].cell)
      BY <1>2, <3>2, ReorderedOthers
    <3>6. QED
      BY <3>1, <3>4, <3>5
  <2>3. QED
    BY <1>3, <2>1, <2>2
<1>13. ASSUME NEW k \in 1..Len(q), q[k].type # "cell_insert"
       PROVE  \/ Has(server, q[k].cell)
              \/ \E j \in 1..k - 1 : q[j].cell = q[k].cell /\ q[j].type = "cell_insert"
  <2>1. ASSUME NEW i \in 1..n, i <= k, p[i].cell = q[k].cell, p[i].type # "cell_insert"
        PROVE  \/ Has(server, q[k].cell)
               \/ \E j \in 1..k - 1 : q[j].cell = q[k].cell /\ q[j].type = "cell_insert"
    <3>1. CASE Has(server, p[i].cell)
      BY <2>1, <3>1
    <3>2. CASE \E j \in 1..i - 1 : p[j].cell = p[i].cell /\ p[j].type = "cell_insert"
      <4>1. PICK j \in 1..i - 1 : p[j].cell = p[i].cell /\ p[j].type = "cell_insert"
        BY <3>2
      <4>2. j \in 1..n /\ j \in 1..k - 1
        BY <1>2, <2>1
      <4>3. QED
        BY <1>2, <2>1, <4>1, <4>2
    <3>3. QED
      BY <1>4, <2>1, <3>1, <3>2
  <2>2. CASE k \in 1..n
    <3>1. q[k] = p[k] /\ k <= k
      BY <1>2, <2>2
    <3>2. QED
      BY <1>13, <2>1, <2>2, <3>1
  <2>3. CASE k = n + 1
    <3>1. q[k] = op /\ Has(s.list, op.cell)
      BY <1>2, <1>8, <1>13, <2>3
    <3>2. CASE op.cell \in PendingCells(s)
      <4>1. PICK i \in 1..n : p[i].cell = op.cell
        BY <1>1, <3>2 DEF PendingCells
      <4>2. i <= k /\ i \in 1..k - 1 /\ q[i] = p[i]
        BY <1>2, <2>3, <4>1
      <4>3. CASE p[i].type = "cell_insert"
        BY <3>1, <4>1, <4>2, <4>3
      <4>4. CASE p[i].type # "cell_insert"
        BY <2>1, <3>1, <4>1, <4>2, <4>4
      <4>5. QED
        BY <4>3, <4>4
    <3>3. CASE op.cell \notin PendingCells(s)
      BY <1>1, <3>1, <3>3 DEF SameOrder, Has, Ids
    <3>4. QED
      BY <3>2, <3>3
  <2>4. QED
    BY <1>3, <2>2, <2>3
<1>14. Consistent(t)
  BY <1>1, <1>2, <1>11, <1>12, <1>13 DEF Consistent
<1>15. PendingCells(t) = PendingCells(s) \cup {op.cell}
  BY MadeFits
<1>16. ASSUME NEW x \in (Ids(t.list) \cup Ids(server)) \ PendingCells(t)
       PROVE  Has(t.list, x) /\ Has(server, x) /\ t.list.byId[x] = server.byId[x]
  <2>1. x # op.cell /\ x \notin PendingCells(s)
    BY <1>15, <1>16
  <2>2. /\ Has(t.list, x) <=> Has(s.list, x)
        /\ Has(s.list, x) => t.list.byId[x] = s.list.byId[x]
    BY <1>2, <2>1, ReorderedOthers
  <2>3. Has(s.list, x) /\ Has(server, x) /\ s.list.byId[x] = server.byId[x]
    BY <1>1, <1>16, <2>1, <2>2 DEF SameOrder, Has, Ids
  <2>4. QED
    BY <2>2, <2>3
<1>17. t.cells = Ids(t.list)
  <2>1. s.cells = Ids(s.list)
    BY DEF SameOrder
  <2>2. ASSUME NEW x
        PROVE  x \in t.cells <=> Has(t.list, x)
    <3>1. CASE x # op.cell
      <4>1. Has(t.list, x) <=> Has(s.list, x)
        BY <1>2, <3>1, ReorderedOthers
      <4>2. QED
        BY <1>2, <2>1, <3>1, <4>1 DEF Has, Ids, CellsMade
    <3>2. CASE x = op.cell
      <4>1. Has(t.list, op.cell) <=> op.type # "cell_delete"
        BY <1>2, <1>6, <1>8, ReorderedCell DEF OperationTypes
      <4>2. op.cell \in t.cells <=> op.type # "cell_delete"
        BY <1>2, <1>6, <1>8, <2>1 DEF Has, Ids, OperationTypes, CellsMade
      <4>3. QED
        BY <3>2, <4>1, <4>2
    <3>3. QED
      BY <3>1, <3>2
  <2>3. QED
    BY <2>2 DEF Has, Ids
<1>18. SameOrder(t)
  BY <1>1, <1>2, <1>16, <1>17 DEF SameOrder
<1>19. QED
  BY <1>14, <1>18

----------------------------------------------------------------------------
(* A full state comes to a client, and what was held back is handled.      *)

LEMMA StateFits ==
  ASSUME LogInv, order.version \in Nat, NEW c \in Client, NEW s, NEW M,
         Fitting(c, s, M), Messages(M), s.version = 0,
         NEW l, NEW v \in 0..order.version, StateOf(l, v),
         NEW u, DOMAIN u = StoreFields, u.list = l, u.pending = s.pending,
         u.version = v
  PROVE  Fitting(c, u, M)
<1>1. PICK w \in 0..v : l = ListAt(w)
  BY DEF StateOf
<1>2. w \in 0..order.version /\ w \in Nat /\ v \in Nat
  OBVIOUS
<1>3. WellFormed(l) /\ Ids(l) \subseteq TakenCells
  BY <1>1, <1>2 DEF LogInv
<1>4. Stored(s) /\ Orderly(c, s, M)
  BY DEF Fitting
<1>5. Stored(u)
  BY <1>2, <1>3, <1>4 DEF Stored
<1>6. PendingCells(u) = PendingCells(s)
  BY DEF PendingCells
<1>7. Known(u) \subseteq TakenCells \cup OwnCells(c)
  BY <1>3, <1>4, <1>6 DEF Orderly, Known
<1>8. ASSUME NEW m \in M, m.author # c, m.type = "cell_insert", m.version > u.version
      PROVE  m.cell \notin Known(u)
  <2>1. Message(m) /\ m.version \in Nat
    BY DEF Messages, Message
  <2>2. m.version > s.version
    <3>1. m.version > v
      BY <1>8
    <3>2. m.version > 0
      BY <1>2, <2>1, <3>1
    <3>3. QED
      BY <3>2
  <2>3. m.cell \notin Known(s)
    BY <1>4, <1>8, <2>2 DEF Orderly
  <2>4. w \in 0..m.version - 1
    BY <1>1, <1>2, <1>8, <2>1
  <2>5. m.cell \notin Ids(l)
    BY <1>1, <1>8, <2>1, <2>4 DEF Message
  <2>6. QED
    BY <1>6, <2>3, <2>5 DEF Known
<1>9. Orderly(c, u, M)
  BY <1>5, <1>7, <1>8 DEF Orderly, Stored
<1>10. QED
  BY <1>5, <1>9 DEF Fitting

LEMMA StateTracks ==
  ASSUME order.version \in Nat, NEW M, NEW v \in 0..order.version, Delivered(M, v),
         NEW u, u.list = ListAt(v), u.cells = Ids(u.list), u.pending = <<>>,
         u.version = v, u.seen = v
  PROVE  Tracking(u, M)
<1>1. PICK p : p = u.pending /\ p = <<>> /\ 1..Len(p) = {}
  OBVIOUS
<1>2. Consistent(u)
  BY <1>1 DEF Consistent
<1>3. SameOrder(u)
  BY DEF SameOrder, Has, Ids
<1>4. QED
  BY <1>2, <1>3 DEF Tracking

LEMMA ReplayFits ==
  ASSUME LogInv, order.version \in Nat, NEW c \in Client, NEW s, NEW M,
         Fitting(c, s, M), Messages(M), ~s.astray => Tracking(s, M),
         NEW held, Len(held) \in Nat,
         \A i \in 1..Len(held) : held[i] \in M /\ held[i].author # c,
         \A i, j \in 1..Len(held) : held[i].version = held[j].version => i = j
  PROVE  LET t == Replayed(c, s, held)
             N == M \ {held[i] : i \in 1..Len(held)}
         IN  Fitting(c, t, N) /\ (~t.astray => Tracking(t, N))
<1>1. PICK l, f : /\ l = Len(held) /\ l \in Nat
                  /\ f = [n \in 0..l |->
                            IF n = 0 THEN s ELSE Noted(c, f[n - 1], held[n])]
                  /\ Replayed(c, s, held) = f[l]
  <2>1. PICK f : Replaying(c, s, held, f, Len(held))
    BY ReplayIsDefined
  <2>2. f = [n \in 0..Len(held) |-> IF n = 0 THEN s ELSE Noted(c, f[n - 1], held[n])]
    BY <2>1 DEF Replaying
  <2>3. QED
    BY <2>2 DEF Replayed
<1> DEFINE Left(n) == M \ {held[i] : i \in 1..n}
           Fine(n) == /\ Fitting(c, f[n], Left(n))
                      /\ ~f[n].astray => Tracking(f[n], Left(n))
           bad == {n \in 0..l : ~ Fine(n)}
<1>2. bad \in SUBSET Nat
  BY <1>1
<1>3. ASSUME bad # {}
      PROVE  FALSE
  <2>1. PICK m \in bad : \A n \in bad : m <= n
    <3> HIDE DEF bad
    <3>1. QED
      BY <1>2, <1>3, LeastOf
  <2>2. m \in 0..l /\ ~ Fine(m)
    BY <2>1
  <2>3. CASE m = 0
    <3>1. f[m] = s /\ Left(m) = M
      BY <1>1, <2>2, <2>3
    <3>2. QED
      BY <2>2, <3>1
  <2>4. CASE m # 0
    <3>1. /\ m - 1 \in 0..l /\ m \in 1..l /\ ~ (m <= m - 1) /\ m - 1 \notin bad
          /\ m \in Int
      <4>1. m - 1 \in 0..l /\ m \in 1..l /\ ~ (m <= m - 1) /\ m \in Int
        BY <1>1, <2>2, <2>4
      <4>2. QED
        BY <2>1, <4>1
    <3>2. Fine(m - 1)
      BY <3>1
    <3>3. PICK u, N, h, t : /\ u = f[m - 1] /\ N = Left(m - 1)
                            /\ h = held[m] /\ t = f[m]
      OBVIOUS
    <3>4. t = Noted(c, u, h)
      BY <1>1, <2>4, <3>1, <3>3
    <3>5. h \in N /\ h.author # c
      <4>1. h \in M /\ h.author # c
        BY <1>1, <3>1, <3>3
      <4>2. ASSUME NEW i \in 1..m - 1, held[i] = h
            PROVE  FALSE
        <5>1. i \in 1..l /\ i # m
          BY <1>1, <3>1
        <5>2. QED
          BY <1>1, <3>1, <3>3, <4>2, <5>1
      <4>3. QED
        BY <3>3, <4>1, <4>2
    <3>6. Left(m) = N \ {h}
      <4>1. 1..m = 1..m - 1 \cup {m}
        BY <1>1, <3>1
      <4>2. QED
        BY <3>3, <4>1
    <3>7. Messages(N)
      BY <3>3 DEF Messages
    <3>8. Fitting(c, u, N) /\ (~u.astray => Tracking(u, N))
      BY <3>2, <3>3
    <3> HIDE DEF Left, Fine, bad
    <3>9. Fitting(c, t, N \ {h})
      BY <3>4, <3>5, <3>7, <3>8, ForeignOrderly
    <3>10. ~t.astray => Tracking(t, N \ {h})
      BY <3>4, <3>5, <3>7, <3>8, ForeignTracks
    <3>11. Fine(m)
      BY <3>3, <3>6, <3>9, <3>10 DEF Fine
    <3>12. QED
      BY <2>2, <3>11
  <2>5. QED
    BY <2>3, <2>4
<1>4. l \in 0..l
  BY <1>1
<1>5. Fine(l)
  BY <1>3, <1>4
<1>6. QED
  BY <1>1, <1>5

----------------------------------------------------------------------------
(* What a step leaves of what is known of the messages and of a store.     *)

\* Nothing that was is forgotten.
Later ==
  /\ order.version \in Nat /\ order'.version \in Nat
  /\ order.version <= order'.version
  /\ \A v \in 0..order.version : ListAt(v)' = ListAt(v)
  /\ \A d \in Client :
       /\ Taken(d) \in Int /\ Taken(d)' \in Int /\ Taken(d) <= Taken(d)'
       /\ made[d] \in Nat /\ made'[d] \in Nat /\ made[d] <= made'[d]

LEMMA LaterCells ==
  ASSUME Later, NEW c \in Client
  PROVE  TakenCells \subseteq TakenCells' /\ OwnCells(c) \subseteq OwnCells(c)'
<1>1. ASSUME NEW d \in Client
      PROVE  {<<d, n>> : n \in 1..Taken(d)} \subseteq {<<d, n>> : n \in 1..Taken(d)'}
  <2>1. 1..Taken(d) \subseteq 1..Taken(d)'
    BY DEF Later
  <2>2. QED
    BY <2>1
<1>2. TakenCells \subseteq TakenCells'
  BY <1>1 DEF TakenCells
<1>3. 1..made[c] \subseteq 1..made'[c]
  BY DEF Later
<1>4. OwnCells(c) \subseteq OwnCells(c)'
  BY <1>3 DEF OwnCells
<1>5. QED
  BY <1>2, <1>4

LEMMA LaterMessage ==
  ASSUME Later, NEW m, Message(m)
  PROVE  Message(m)'
<1>1. /\ m.version \in 1..order.version /\ m.version \in 1..order'.version
      /\ m.version \in 0..order.version /\ m.version - 1 \in 0..order.version
  BY DEF Later, Message
<1>2. ListAt(m.version)' = ListAt(m.version) /\ ListAt(m.version - 1)' = ListAt(m.version - 1)
  BY <1>1 DEF Later
<1>3. PICK a, b : a = ListAt(m.version) /\ b = ListAt(m.version - 1)
  OBVIOUS
<1>4. ListAt(m.version)' = Reordered(ListAt(m.version - 1)', m)
  BY <1>2 DEF Message
<1>5. \A i \in m.index : ~Occupied(ListAt(m.version - 1)', i)
  BY <1>2 DEF Message
<1>6. ASSUME m.type = "cell_insert"
      PROVE  /\ m.cell \in {<<m.author, n>> : n \in 1..Taken(m.author)'}
             /\ \A v \in 0..m.version - 1 : m.cell \notin Ids(ListAt(v)')
  <2>1. 1..Taken(m.author) \subseteq 1..Taken(m.author)'
    BY DEF Later, Message
  <2>2. m.cell \in {<<m.author, n>> : n \in 1..Taken(m.author)}
    BY <1>6 DEF Message
  <2>3. ASSUME NEW v \in 0..m.version - 1
        PROVE  m.cell \notin Ids(ListAt(v)')
    <3>1. v \in 0..order.version
      BY <1>1 DEF Later
    <3>2. ListAt(v)' = ListAt(v)
      BY <3>1 DEF Later
    <3>3. m.cell \notin Ids(ListAt(v))
      BY <1>6 DEF Message
    <3>4. QED
      BY <3>2, <3>3
  <2>4. QED
    BY <2>1, <2>2, <2>3
<1>7. Operates(m) /\ m.author \in Client
  BY DEF Message
<1>8. QED
  BY <1>1, <1>4, <1>5, <1>6, <1>7 DEF Message

LEMMA LaterFits ==
  ASSUME Later, NEW c \in Client, NEW s, NEW M, Fitting(c, s, M), NEW N,
         \A m \in N \ M :
           m.author # c /\ m.type = "cell_insert" /\ m.version > s.version =>
             m.cell \notin Known(s)
  PROVE  Orderly(c, s, N)'
<1>1. Known(s) \subseteq TakenCells' \cup OwnCells(c)'
  BY LaterCells DEF Fitting, Orderly
<1>2. QED
  BY <1>1 DEF Fitting, Orderly

LEMMA LaterTracks ==
  ASSUME Later, NEW s, s.version \in Nat, NEW M, Tracking(s, M), NEW N, M \subseteq N,
         \A w \in order.version + 1..order'.version : \E m \in N : m.version = w
  PROVE  Tracking(s, N)'
<1>1. /\ s.seen \in s.version..order.version /\ s.seen \in 0..order.version
      /\ s.seen \in s.version..order'.version
  BY DEF Later, Tracking
<1>2. ListAt(s.seen)' = ListAt(s.seen)
  BY <1>1 DEF Later
<1>3. SameOrder(s)' /\ Consistent(s)'
  BY <1>2 DEF Tracking, SameOrder, Consistent
<1>4. Delivered(N, s.seen)'
  <2>1. ASSUME NEW w \in s.seen + 1..order'.version
        PROVE  \E m \in N : m.version = w
    <3>1. CASE w <= order.version
      <4>1. w \in s.seen + 1..order.version
        BY <1>1, <3>1 DEF Later
      <4>2. QED
        BY <4>1 DEF Tracking, Delivered
    <3>2. CASE ~ (w <= order.version)
      <4>1. w \in order.version + 1..order'.version
        BY <1>1, <3>2 DEF Later
      <4>2. QED
        BY <4>1
    <3>3. QED
      BY <3>1, <3>2
  <2>2. QED
    BY <2>1 DEF Delivered
<1>5. QED
  BY <1>1, <1>3, <1>4 DEF Tracking

LEMMA LaterDelivered ==
  ASSUME Later, NEW v \in Nat, NEW M, Delivered(M, v), NEW N, M \subseteq N,
         \A w \in order.version + 1..order'.version : \E m \in N : m.version = w
  PROVE  Delivered(N, v)'
<1>1. ASSUME NEW w \in v + 1..order'.version
      PROVE  \E m \in N : m.version = w
  <2>1. CASE w <= order.version
    <3>1. w \in v + 1..order.version
      BY <2>1 DEF Later
    <3>2. QED
      BY <3>1 DEF Delivered
  <2>2. CASE ~ (w <= order.version)
    <3>1. w \in order.version + 1..order'.version
      BY <2>2 DEF Later
    <3>2. QED
      BY <3>1
  <2>3. QED
    BY <2>1, <2>2
<1>2. QED
  BY <1>1 DEF Delivered

LEMMA LaterState ==
  ASSUME Later, NEW l, NEW v \in 0..order.version, StateOf(l, v),
         NEW w \in Nat, v <= w
  PROVE  StateOf(l, w)'
<1>1. PICK u \in 0..v : l = ListAt(u)
  BY DEF StateOf
<1>2. u \in 0..order.version /\ u \in 0..w
  BY DEF Later
<1>3. ListAt(u)' = ListAt(u)
  BY <1>2 DEF Later
<1>4. QED
  BY <1>1, <1>2, <1>3 DEF StateOf

----------------------------------------------------------------------------
(* What a step makes of the operations that come to a client.              *)

LEMMA JoinedIs ==
  ASSUME NEW h, NEW q, IsSequence(h), IsSequence(q)
  PROVE  /\ IsSequence(Joined(h, q)) /\ Len(Joined(h, q)) = Len(h) + Len(q)
         /\ \A i \in 1..Len(h) : Joined(h, q)[i] = h[i]
         /\ \A i \in 1..Len(q) : Joined(h, q)[Len(h) + i] = q[i]
<1>1. PICK a, b, n, f : a = Len(h) /\ b = Len(q) /\ n = a + b /\ f = Joined(h, q)
  OBVIOUS
<1>2. a \in Nat /\ b \in Nat /\ n \in Nat
  BY <1>1 DEF IsSequence
<1>3. f = [i \in 1..n |-> IF i <= a THEN h[i] ELSE q[i - a]]
  BY <1>1 DEF Joined
<1>4. f \in Seq({f[i] : i \in 1..n})
  <2>1. PICK S : S = {f[i] : i \in 1..n}
    OBVIOUS
  <2>2. f \in [1..n -> S]
    BY <1>3, <2>1
  <2>3. f \in Seq(S)
    BY <1>2, <2>2
  <2>4. QED
    BY <2>1, <2>3
<1>5. IsSequence(f) /\ DOMAIN f = 1..n
  BY <1>3, <1>4, SeqIsSequence
<1>6. Len(f) = n
  BY <1>2, <1>4, <1>5, LenProperties
<1>7. ASSUME NEW i \in 1..a
      PROVE  f[i] = h[i]
  <2>1. i \in 1..n /\ i <= a
    BY <1>1, <1>2
  <2>2. QED
    BY <1>3, <2>1
<1>8. ASSUME NEW i \in 1..b
      PROVE  f[a + i] = q[i]
  <2>1. a + i \in 1..n /\ ~ (a + i <= a) /\ (a + i) - a = i
    BY <1>1, <1>2
  <2>2. f[a + i] = q[(a + i) - a]
    BY <1>3, <2>1
  <2>3. QED
    BY <2>1, <2>2
<1>9. QED
  BY <1>1, <1>5, <1>6, <1>7, <1>8

\* The operations on a line.
OpsOf(l) == {i \in 1..Len(l) : l[i].type # "full_state"}

\* m is put behind the line.
Behind(l, k, m) ==
  /\ Len(l) \in Nat /\ Len(k) = Len(l) + 1
  /\ \A i \in 1..Len(l) : k[i] = l[i]
  /\ k[Len(l) + 1] = m

\* The first n of the line are taken off it.
Advanced(l, k, n) ==
  /\ Len(l) \in Nat /\ n \in 0..Len(l) /\ Len(k) = Len(l) - n
  /\ \A i \in 1..Len(l) - n : k[i] = l[i + n]

LEMMA OpsBehind ==
  ASSUME NEW l, NEW k, NEW m, Behind(l, k, m)
  PROVE  /\ OpsOf(k) = IF m.type = "full_state" THEN OpsOf(l)
                       ELSE OpsOf(l) \cup {Len(l) + 1}
         /\ \A i \in OpsOf(l) : k[i] = l[i]
         /\ Len(l) + 1 \notin OpsOf(l)
<1>1. \A i \in 1..Len(k) : i \in 1..Len(l) \/ i = Len(l) + 1
  BY DEF Behind
<1>2. Len(l) + 1 \in 1..Len(k) /\ Len(l) + 1 \notin 1..Len(l)
  BY DEF Behind
<1>3. \A i \in 1..Len(l) : i \in 1..Len(k)
  BY DEF Behind
<1>4. ASSUME NEW i
      PROVE  i \in OpsOf(k) <=> i \in OpsOf(l) \/ (i = Len(l) + 1 /\ m.type # "full_state")
  BY <1>1, <1>2, <1>3 DEF Behind, OpsOf
<1>5. QED
  BY <1>2, <1>4 DEF OpsOf, Behind

LEMMA OpsAdvanced ==
  ASSUME NEW l, NEW k, NEW n, Advanced(l, k, n)
  PROVE  /\ \A i \in OpsOf(k) : i + n \in OpsOf(l) /\ k[i] = l[i + n] /\ i \in Nat
         /\ \A i \in OpsOf(l) : i \in 1..n \/ (i - n \in OpsOf(k) /\ k[i - n] = l[i])
<1>1. Len(l) \in Nat /\ n \in Nat /\ Len(k) = Len(l) - n
  BY DEF Advanced
<1>2. ASSUME NEW i \in OpsOf(k)
      PROVE  i + n \in OpsOf(l) /\ k[i] = l[i + n] /\ i \in Nat
  <2>1. i \in 1..Len(l) - n /\ i + n \in 1..Len(l)
    BY <1>1 DEF OpsOf
  <2>2. k[i] = l[i + n]
    BY <2>1 DEF Advanced
  <2>3. QED
    BY <2>1, <2>2 DEF OpsOf
<1>3. ASSUME NEW i \in OpsOf(l), i \notin 1..n
      PROVE  i - n \in OpsOf(k) /\ k[i - n] = l[i]
  <2>1. i - n \in 1..Len(l) - n /\ (i - n) + n = i
    BY <1>1, <1>3 DEF OpsOf
  <2>2. k[i - n] = l[i]
    BY <2>1 DEF Advanced
  <2>3. QED
    BY <1>1, <2>1, <2>2 DEF OpsOf
<1>4. QED
  BY <1>2, <1>3

LEMMA ComingParts ==
  ASSUME NEW c, NEW l, l = Line(c)
  PROVE  /\ \A m : m \in Coming(c) <=>
              \/ \E i \in OpsOf(l) : m = l[i]
              \/ \E d \in Client : Owed(d, c) /\ m = task[d].message
         /\ OnceInv(c) <=>
              /\ \A i, j \in OpsOf(l) : l[i].version = l[j].version => i = j
              /\ \A i \in OpsOf(l), d \in Client :
                   Owed(d, c) => l[i].version # task[d].message.version
<1>1. Ops(c) = OpsOf(l)
  BY DEF Ops, OpsOf
<1>2. QED
  BY <1>1 DEF Coming, Owing, OnceInv

LEMMA ComingPartsNext ==
  ASSUME NEW c, NEW l, l = Line(c)'
  PROVE  /\ \A m : m \in Coming(c)' <=>
              \/ \E i \in OpsOf(l) : m = l[i]
              \/ \E d \in Client : Owed(d, c)' /\ m = task'[d].message
         /\ OnceInv(c)' <=>
              /\ \A i, j \in OpsOf(l) : l[i].version = l[j].version => i = j
              /\ \A i \in OpsOf(l), d \in Client :
                   Owed(d, c)' => l[i].version # task'[d].message.version
<1>1. Ops(c)' = OpsOf(l)
  BY DEF Ops, OpsOf
<1>2. QED
  BY <1>1 DEF Coming, Owing, OnceInv

\* The answers still to be sent to c are among those before.
OwedBefore(c) ==
  \A d \in Client : Owed(d, c)' => Owed(d, c) /\ task'[d].message = task[d].message

StillOwed(c) == \A d \in Client : Owed(d, c) => Owed(d, c)'

LEMMA ComingShrinks ==
  ASSUME NEW c, OnceInv(c), Line(c)' = Line(c), OwedBefore(c)
  PROVE  /\ OnceInv(c)' /\ Coming(c)' \subseteq Coming(c)
         /\ StillOwed(c) => Coming(c)' = Coming(c)
<1>1. PICK l : l = Line(c) /\ l = Line(c)'
  OBVIOUS
<1>2. /\ \A m : m \in Coming(c) <=>
           \/ \E i \in OpsOf(l) : m = l[i]
           \/ \E d \in Client : Owed(d, c) /\ m = task[d].message
      /\ OnceInv(c) <=>
           /\ \A i, j \in OpsOf(l) : l[i].version = l[j].version => i = j
           /\ \A i \in OpsOf(l), d \in Client :
                Owed(d, c) => l[i].version # task[d].message.version
  BY <1>1, ComingParts
<1>3. /\ \A m : m \in Coming(c)' <=>
           \/ \E i \in OpsOf(l) : m = l[i]
           \/ \E d \in Client : Owed(d, c)' /\ m = task'[d].message
      /\ OnceInv(c)' <=>
           /\ \A i, j \in OpsOf(l) : l[i].version = l[j].version => i = j
           /\ \A i \in OpsOf(l), d \in Client :
                Owed(d, c)' => l[i].version # task'[d].message.version
  BY <1>1, ComingPartsNext
<1>4. OnceInv(c)'
  BY <1>2, <1>3 DEF OwedBefore
<1>5. \A m : m \in Coming(c)' => m \in Coming(c)
  BY <1>2, <1>3 DEF OwedBefore
<1>6. ASSUME StillOwed(c)
      PROVE  \A m : m \in Coming(c) => m \in Coming(c)'
  BY <1>2, <1>3, <1>6 DEF OwedBefore, StillOwed
<1>7. QED
  BY <1>4, <1>5, <1>6

\* An operation is applied.
LEMMA ComingGains ==
  ASSUME NEW c, OnceInv(c), Line(c)' = Line(c), NEW d \in Client, NEW m,
         ~Owed(d, c), Owed(d, c)', task'[d].message = m,
         \A e \in Client : e # d => (Owed(e, c)' <=> Owed(e, c)) /\ task'[e] = task[e],
         \A n \in Coming(c) : n.version # m.version
  PROVE  OnceInv(c)' /\ Coming(c)' = Coming(c) \cup {m}
<1>1. PICK l : l = Line(c) /\ l = Line(c)'
  OBVIOUS
<1>2. /\ \A n : n \in Coming(c) <=>
           \/ \E i \in OpsOf(l) : n = l[i]
           \/ \E e \in Client : Owed(e, c) /\ n = task[e].message
      /\ OnceInv(c) <=>
           /\ \A i, j \in OpsOf(l) : l[i].version = l[j].version => i = j
           /\ \A i \in OpsOf(l), e \in Client :
                Owed(e, c) => l[i].version # task[e].message.version
  BY <1>1, ComingParts
<1>3. /\ \A n : n \in Coming(c)' <=>
           \/ \E i \in OpsOf(l) : n = l[i]
           \/ \E e \in Client : Owed(e, c)' /\ n = task'[e].message
      /\ OnceInv(c)' <=>
           /\ \A i, j \in OpsOf(l) : l[i].version = l[j].version => i = j
           /\ \A i \in OpsOf(l), e \in Client :
                Owed(e, c)' => l[i].version # task'[e].message.version
  BY <1>1, ComingPartsNext
<1>4. \A i \in OpsOf(l) : l[i].version # m.version
  BY <1>2
<1>5. OnceInv(c)'
  BY <1>2, <1>3, <1>4
<1>6. \A n : n \in Coming(c)' <=> n \in Coming(c) \/ n = m
  BY <1>2, <1>3
<1>7. QED
  BY <1>5, <1>6

\* An answer is sent.
LEMMA ComingSent ==
  ASSUME NEW c, OnceInv(c), NEW d \in Client, NEW m, m = task[d].message,
         m.type # "full_state", Behind(Line(c), Line(c)', m),
         \A e \in Client : Owed(e, c) /\ e # d => task[e].message.version # m.version,
         Owed(d, c), ~Owed(d, c)',
         \A e \in Client : e # d => (Owed(e, c)' <=> Owed(e, c)) /\ task'[e] = task[e]
  PROVE  OnceInv(c)' /\ Coming(c)' = Coming(c)
<1>1. PICK l, k, n : l = Line(c) /\ k = Line(c)' /\ n = Len(l) + 1
  OBVIOUS
<1>2. /\ \A x : x \in Coming(c) <=>
           \/ \E i \in OpsOf(l) : x = l[i]
           \/ \E e \in Client : Owed(e, c) /\ x = task[e].message
      /\ OnceInv(c) <=>
           /\ \A i, j \in OpsOf(l) : l[i].version = l[j].version => i = j
           /\ \A i \in OpsOf(l), e \in Client :
                Owed(e, c) => l[i].version # task[e].message.version
  BY <1>1, ComingParts
<1>3. /\ \A x : x \in Coming(c)' <=>
           \/ \E i \in OpsOf(k) : x = k[i]
           \/ \E e \in Client : Owed(e, c)' /\ x = task'[e].message
      /\ OnceInv(c)' <=>
           /\ \A i, j \in OpsOf(k) : k[i].version = k[j].version => i = j
           /\ \A i \in OpsOf(k), e \in Client :
                Owed(e, c)' => k[i].version # task'[e].message.version
  BY <1>1, ComingPartsNext
<1>4. Behind(l, k, m)
  BY <1>1
<1>5. /\ OpsOf(k) = OpsOf(l) \cup {n} /\ n \notin OpsOf(l)
      /\ \A i \in OpsOf(l) : k[i] = l[i]
      /\ k[n] = m
  <2>1. k[n] = m
    BY <1>1, <1>4 DEF Behind
  <2>2. QED
    BY <1>1, <1>4, <2>1, OpsBehind
<1>6. \A i \in OpsOf(l) : k[i].version # m.version
  BY <1>2, <1>5
<1>7. OnceInv(c)'
  <2>1. \A i, j \in OpsOf(k) : k[i].version = k[j].version => i = j
    BY <1>2, <1>5, <1>6
  <2>2. \A i \in OpsOf(k), e \in Client :
          Owed(e, c)' => k[i].version # task'[e].message.version
    BY <1>2, <1>5
  <2>3. QED
    BY <1>3, <2>1, <2>2
<1>8. \A x : x \in Coming(c)' <=> x \in Coming(c)
  BY <1>2, <1>3, <1>5
<1>9. QED
  BY <1>7, <1>8

\* A state is sent.
LEMMA ComingBeforeState ==
  ASSUME NEW c, OnceInv(c), NEW m, m.type = "full_state",
         Behind(Line(c), Line(c)', m), OwedBefore(c), StillOwed(c)
  PROVE  OnceInv(c)' /\ Coming(c)' = Coming(c)
<1>1. PICK l, k : l = Line(c) /\ k = Line(c)'
  OBVIOUS
<1>2. /\ \A x : x \in Coming(c) <=>
           \/ \E i \in OpsOf(l) : x = l[i]
           \/ \E e \in Client : Owed(e, c) /\ x = task[e].message
      /\ OnceInv(c) <=>
           /\ \A i, j \in OpsOf(l) : l[i].version = l[j].version => i = j
           /\ \A i \in OpsOf(l), e \in Client :
                Owed(e, c) => l[i].version # task[e].message.version
  BY <1>1, ComingParts
<1>3. /\ \A x : x \in Coming(c)' <=>
           \/ \E i \in OpsOf(k) : x = k[i]
           \/ \E e \in Client : Owed(e, c)' /\ x = task'[e].message
      /\ OnceInv(c)' <=>
           /\ \A i, j \in OpsOf(k) : k[i].version = k[j].version => i = j
           /\ \A i \in OpsOf(k), e \in Client :
                Owed(e, c)' => k[i].version # task'[e].message.version
  BY <1>1, ComingPartsNext
<1>4. OpsOf(k) = OpsOf(l) /\ \A i \in OpsOf(l) : k[i] = l[i]
  <2>1. Behind(l, k, m)
    BY <1>1
  <2>2. QED
    BY <2>1, OpsBehind
<1>5. OnceInv(c)'
  BY <1>2, <1>3, <1>4 DEF OwedBefore
<1>6. \A x : x \in Coming(c)' <=> x \in Coming(c)
  BY <1>2, <1>3, <1>4 DEF OwedBefore, StillOwed
<1>7. QED
  BY <1>5, <1>6

\* The first messages are received.
LEMMA ComingReceived ==
  ASSUME NEW c, OnceInv(c), NEW n, Advanced(Line(c), Line(c)', n),
         NEW l, l = Line(c), OwedBefore(c), StillOwed(c)
  PROVE  /\ OnceInv(c)'
         /\ Coming(c)' = Coming(c) \ {l[i] : i \in OpsOf(l) \cap (1..n)}
<1>1. PICK k : k = Line(c)'
  OBVIOUS
<1>2. /\ \A x : x \in Coming(c) <=>
           \/ \E i \in OpsOf(l) : x = l[i]
           \/ \E e \in Client : Owed(e, c) /\ x = task[e].message
      /\ \A i, j \in OpsOf(l) : l[i].version = l[j].version => i = j
      /\ \A i \in OpsOf(l), e \in Client :
           Owed(e, c) => l[i].version # task[e].message.version
  BY ComingParts
<1>3. /\ \A x : x \in Coming(c)' <=>
           \/ \E i \in OpsOf(k) : x = k[i]
           \/ \E e \in Client : Owed(e, c)' /\ x = task'[e].message
      /\ OnceInv(c)' <=>
           /\ \A i, j \in OpsOf(k) : k[i].version = k[j].version => i = j
           /\ \A i \in OpsOf(k), e \in Client :
                Owed(e, c)' => k[i].version # task'[e].message.version
  BY <1>1, ComingPartsNext
<1>4. Advanced(l, k, n) /\ n \in Nat
  BY <1>1 DEF Advanced
<1>5. /\ \A i \in OpsOf(k) : i + n \in OpsOf(l) /\ k[i] = l[i + n] /\ i \in Nat
      /\ \A i \in OpsOf(l) : i \in 1..n \/ (i - n \in OpsOf(k) /\ k[i - n] = l[i])
  BY <1>4, OpsAdvanced
<1>6. OnceInv(c)'
  <2>1. ASSUME NEW i \in OpsOf(k), NEW j \in OpsOf(k), k[i].version = k[j].version
        PROVE  i = j
    <3>1. /\ i + n \in OpsOf(l) /\ j + n \in OpsOf(l) /\ i \in Nat /\ j \in Nat
          /\ l[i + n].version = l[j + n].version
      BY <1>5, <2>1
    <3>2. i + n = j + n
      BY <1>2, <3>1
    <3>3. QED
      BY <1>4, <3>1, <3>2
  <2>2. \A i \in OpsOf(k), e \in Client :
          Owed(e, c)' => k[i].version # task'[e].message.version
    BY <1>2, <1>5 DEF OwedBefore
  <2>3. QED
    BY <1>3, <2>1, <2>2
<1>7. ASSUME NEW x \in Coming(c)'
      PROVE  x \in Coming(c) /\ ~ \E i \in OpsOf(l) \cap (1..n) : x = l[i]
  <2>1. CASE \E i \in OpsOf(k) : x = k[i]
    <3>1. PICK i \in OpsOf(k) : x = k[i]
      BY <2>1
    <3>2. i + n \in OpsOf(l) /\ x = l[i + n] /\ i \in Nat
      BY <1>5, <3>1
    <3>3. i \in 1..Len(k)
      BY DEF OpsOf
    <3>4. ASSUME NEW j \in OpsOf(l) \cap (1..n), x = l[j]
          PROVE  FALSE
      <4>1. i + n = j
        BY <1>2, <3>2, <3>4
      <4>2. QED
        BY <1>4, <3>2, <3>3, <4>1
    <3>5. QED
      BY <1>2, <3>2, <3>4
  <2>2. CASE \E e \in Client : Owed(e, c)' /\ x = task'[e].message
    <3>1. PICK e \in Client : Owed(e, c) /\ x = task[e].message
      BY <2>2 DEF OwedBefore
    <3>2. QED
      BY <1>2, <3>1
  <2>3. QED
    BY <1>3, <2>1, <2>2
<1>8. ASSUME NEW x \in Coming(c), ~ \E i \in OpsOf(l) \cap (1..n) : x = l[i]
      PROVE  x \in Coming(c)'
  <2>1. CASE \E i \in OpsOf(l) : x = l[i]
    <3>1. PICK i \in OpsOf(l) : x = l[i]
      BY <2>1
    <3>2. i - n \in OpsOf(k) /\ k[i - n] = x
      BY <1>5, <1>8, <3>1
    <3>3. QED
      BY <1>3, <3>2
  <2>2. CASE \E e \in Client : Owed(e, c) /\ x = task[e].message
    BY <1>3, <2>2 DEF OwedBefore, StillOwed
  <2>3. QED
    BY <1>2, <2>1, <2>2
<1>9. QED
  BY <1>6, <1>7, <1>8

\* What comes are messages, each once.
LEMMA ComingAreMessages ==
  ASSUME NEW c \in Client, OnceInv(c), AnswersDiffer, MessagesInv(c),
         \A d \in Client : HasAnswer(d) => Message(task[d].message)
  PROVE  Messages(Coming(c))
<1>1. PICK l : l = Line(c)
  OBVIOUS
<1>2. /\ \A m : m \in Coming(c) <=>
           \/ \E i \in OpsOf(l) : m = l[i]
           \/ \E d \in Client : Owed(d, c) /\ m = task[d].message
      /\ \A i, j \in OpsOf(l) : l[i].version = l[j].version => i = j
      /\ \A i \in OpsOf(l), d \in Client :
           Owed(d, c) => l[i].version # task[d].message.version
  BY <1>1, ComingParts
<1>3. \A i \in OpsOf(l) : Message(l[i])
  BY <1>1 DEF MessagesInv, Ops, OpsOf
<1>4. \A d \in Client : Owed(d, c) => HasAnswer(d)
  BY DEF Owed, HasAnswer
<1>5. \A m \in Coming(c) : Message(m)
  BY <1>2, <1>3, <1>4
<1>6. ASSUME NEW m \in Coming(c), NEW n \in Coming(c), m.version = n.version
      PROVE  m = n
  <2>1. CASE \E i \in OpsOf(l) : m = l[i]
    <3>1. \E j \in OpsOf(l) : n = l[j]
      BY <1>2, <1>6, <2>1
    <3>2. QED
      BY <1>2, <1>6, <2>1, <3>1
  <2>2. CASE \E d \in Client : Owed(d, c) /\ m = task[d].message
    <3>1. PICK d \in Client : Owed(d, c) /\ m = task[d].message
      BY <2>2
    <3>2. PICK e \in Client : Owed(e, c) /\ n = task[e].message
      BY <1>2, <1>6, <3>1
    <3>3. d = e
      BY <1>4, <1>6, <3>1, <3>2 DEF AnswersDiffer
    <3>4. QED
      BY <3>1, <3>2, <3>3
  <2>3. QED
    BY <1>2, <2>1, <2>2
<1>7. QED
  BY <1>5, <1>6 DEF Messages

\* What is said of the messages on the line.
LEMMA MessagesFrom ==
  ASSUME NEW c \in Client,
         \A m \in Coming(c)' : Message(m)'
  PROVE  \A i \in Ops(c)' : Message(Line(c)[i])'
<1>1. PICK l : l = Line(c)'
  OBVIOUS
<1>2. \A m : m \in Coming(c)' <=>
        \/ \E i \in OpsOf(l) : m = l[i]
        \/ \E d \in Client : Owed(d, c)' /\ m = task'[d].message
  BY <1>1, ComingPartsNext
<1>3. \A i \in OpsOf(l) : Message(l[i])'
  BY <1>2
<1>4. Ops(c)' = OpsOf(l)
  BY <1>1 DEF Ops, OpsOf
<1>5. QED
  BY <1>1, <1>3, <1>4

----------------------------------------------------------------------------
(* A client that is not the one that acts.                                 *)

Answers == \A d \in Client : HasAnswer(d) => Message(task[d].message)

\* The stores are alike but for who is connected and what is held back.
SameStore(s, t) ==
  /\ DOMAIN t = StoreFields
  /\ t.list = s.list /\ t.cells = s.cells /\ t.pending = s.pending
  /\ t.version = s.version /\ t.seen = s.seen /\ t.astray = s.astray

LEMMA StoreFits ==
  ASSUME NEW c \in Client, order.version \in Nat, StoreInv(c), StoreOrderly(c)
  PROVE  Fitting(c, client[c], Coming(c))
<1>1. PICK s : s = client[c]
  OBVIOUS
<1>2. DOMAIN s = StoreFields /\ IsSequence(s.pending) /\ s.version \in Nat
  BY <1>1 DEF StoreInv
<1>3. Orderly(c, s, Coming(c))
  BY <1>1 DEF StoreOrderly
<1>4. Stored(s)
  BY <1>2, <1>3 DEF Stored, Orderly
<1>5. QED
  BY <1>1, <1>3, <1>4 DEF Fitting

LEMMA SameFits ==
  ASSUME NEW c, NEW s, NEW t, SameStore(s, t), NEW M, Fitting(c, s, M)
  PROVE  /\ Fitting(c, t, M) /\ Known(t) = Known(s)
         /\ Tracking(s, M) => Tracking(t, M)
<1>1. Known(t) = Known(s) /\ PendingCells(t) = PendingCells(s)
  BY DEF Known, PendingCells, SameStore
<1>2. Stored(t)
  BY DEF Fitting, Stored, SameStore
<1>3. Orderly(c, t, M)
  BY <1>1 DEF Fitting, Orderly, SameStore
<1>4. \A k : Superseded(t, k) <=> Superseded(s, k)
  BY DEF Superseded, SameStore
<1>5. ASSUME Tracking(s, M)
      PROVE  Tracking(t, M)
  <2>1. SameOrder(t)
    BY <1>1, <1>5 DEF Tracking, SameOrder, SameStore
  <2>2. Consistent(t)
    BY <1>4, <1>5 DEF Tracking, Consistent, SameStore
  <2>3. QED
    BY <1>5, <2>1, <2>2 DEF Tracking, SameStore
<1>6. QED
  BY <1>1, <1>2, <1>3, <1>5 DEF Fitting

\* What comes to c, after the step, is what came before, and new operations on cells
\* that c does not know.
ComesAnew(c) ==
  /\ OnceInv(c)'
  /\ \A m \in Coming(c)' \ Coming(c) :
       /\ Message(m)'
       /\ m.author # c /\ m.type = "cell_insert" =>
            m.cell \notin TakenCells \cup OwnCells(c)
       /\ m.author = c => \E k \in 1..Len(client'[c].pending) :
            /\ client'[c].pending[k].id = m.id /\ client'[c].pending[k].cell = m.cell
            /\ client'[c].pending[k].type = m.type

NoneLost(c) ==
  /\ Coming(c) \subseteq Coming(c)'
  /\ \A w \in order.version + 1..order'.version : \E m \in Coming(c)' : m.version = w

LEMMA StoreStays ==
  ASSUME Later, NEW c \in Client, StoreInv(c), StoreOrderly(c), ComesAnew(c),
         SameStore(client[c], client'[c]),
         client'[c].session = "joined" => client[c].session = "joined" /\ NoneLost(c)
  PROVE  StoreOrderly(c)'
<1>1. PICK s, t, M, N : /\ s = client[c] /\ t = client'[c]
                        /\ M = Coming(c) /\ N = Coming(c)'
  OBVIOUS
<1>2. Fitting(c, s, M) /\ s.version \in Nat
  BY <1>1, StoreFits DEF Later, StoreInv
<1>3. Fitting(c, t, M) /\ Known(t) = Known(s) /\ (Tracking(s, M) => Tracking(t, M))
  BY <1>1, <1>2, SameFits
<1>4. \A m \in N \ M :
        m.author # c /\ m.type = "cell_insert" /\ m.version > t.version =>
          m.cell \notin Known(t)
  BY <1>1, <1>3 DEF ComesAnew, Fitting, Orderly
<1>5. Orderly(c, t, N)'
  BY <1>3, <1>4, LaterFits
<1>6. ASSUME t.session = "joined", ~t.astray
      PROVE  Tracking(t, N)'
  <2>1. s.session = "joined" /\ ~s.astray /\ NoneLost(c)
    BY <1>1, <1>6 DEF SameStore
  <2>2. Tracking(t, M)
    BY <1>1, <1>3, <2>1 DEF StoreOrderly
  <2>3. t.version \in Nat
    BY <1>1, <1>2 DEF SameStore
  <2>4. M \subseteq N /\ \A w \in order.version + 1..order'.version :
                           \E m \in N : m.version = w
    BY <1>1, <2>1 DEF NoneLost
  <2>5. QED
    BY <2>2, <2>3, <2>4, LaterTracks
<1>7. QED
  BY <1>1, <1>5, <1>6 DEF StoreOrderly

LEMMA MessagesStay ==
  ASSUME Later, NEW c \in Client, Answers, AnswersDiffer, OnceInv(c), MessagesInv(c),
         ComesAnew(c), HasAnswer(c)' => Message(task[c].message)',
         client'[c].held = client[c].held,
         client'[c].session = "joined" => client[c].session = "joined"
  PROVE  MessagesInv(c)'
<1>1. Messages(Coming(c))
  BY ComingAreMessages DEF Answers
<1>2. \A m \in Coming(c) : Message(m)'
  BY <1>1, LaterMessage DEF Messages
<1>3. \A m \in Coming(c)' : Message(m)'
  BY <1>2 DEF ComesAnew
<1>4. \A i \in Ops(c)' : Message(Line(c)[i])'
  BY <1>3, MessagesFrom
<1>5. QED
  BY <1>4 DEF MessagesInv

LEMMA JoinerStays ==
  ASSUME Later, NEW c \in Client, TaskInv(c), JoinInv(c), VersionsInv(c), JoinerInv(c),
         client'[c].session # "joined" => client[c].session # "joined",
         client'[c].version = client[c].version,
         task'[c].at \in {"version", "state"} => task'[c] = task[c],
         States(c)' = States(c),
         \A i \in States(c) : toClient'[c][i] = toClient[c][i],
         client[c].session = "joining" => NoneLost(c)
  PROVE  JoinerInv(c)'
<1>1. client'[c].session # "joined" => client'[c].version = 0
  BY DEF JoinerInv
<1>2. ASSUME task'[c].at = "version"
      PROVE  StateOf(task[c].list, order.version)'
  <2>1. PICK l : l = task[c].list /\ l = task'[c].list
    BY <1>2
  <2>2. StateOf(l, order.version) /\ order.version \in 0..order.version
    BY <1>2, <2>1 DEF JoinerInv, Later
  <2>3. PICK w : w = order'.version
    OBVIOUS
  <2>4. StateOf(l, w)'
    BY <2>2, <2>3, LaterState DEF Later
  <2>5. QED
    BY <2>1, <2>3, <2>4 DEF StateOf
<1>3. ASSUME task'[c].at = "state"
      PROVE  /\ StateOf(task[c].list, task[c].version)'
             /\ Delivered(Coming(c), task[c].version)'
  <2>1. PICK l, v, M, N : /\ l = task[c].list /\ l = task'[c].list
                          /\ v = task[c].version /\ v = task'[c].version
                          /\ M = Coming(c) /\ N = Coming(c)'
    BY <1>3
  <2>2. v \in 0..order.version /\ v \in Nat /\ v <= v /\ NoneLost(c)
    BY <1>3, <2>1 DEF TaskInv, JoinInv, Reading
  <2>3. StateOf(l, v) /\ Delivered(M, v)
    BY <1>3, <2>1 DEF JoinerInv
  <2>4. StateOf(l, v)'
    BY <2>2, <2>3, LaterState
  <2>5. M \subseteq N /\ \A w \in order.version + 1..order'.version :
                           \E m \in N : m.version = w
    BY <2>1, <2>2 DEF NoneLost
  <2>6. Delivered(N, v)'
    BY <2>2, <2>3, <2>5, LaterDelivered
  <2>7. QED
    BY <2>1, <2>4, <2>6 DEF StateOf, Delivered
<1>4. ASSUME NEW i \in States(c)'
      PROVE  /\ StateOf(toClient[c][i].list, toClient[c][i].version)'
             /\ Delivered(Coming(c), toClient[c][i].version)'
  <2>1. i \in States(c) /\ toClient'[c][i] = toClient[c][i]
    BY <1>4
  <2>2. PICK l, v, M, N :
          /\ l = toClient[c][i].list /\ l = toClient'[c][i].list
          /\ v = toClient[c][i].version /\ v = toClient'[c][i].version
          /\ M = Coming(c) /\ N = Coming(c)'
    BY <2>1
  <2>3. v \in 0..order.version /\ v \in Nat /\ v <= v /\ NoneLost(c)
    BY <2>1, <2>2 DEF VersionsInv, JoinInv
  <2>4. StateOf(l, v) /\ Delivered(M, v)
    BY <2>1, <2>2 DEF JoinerInv
  <2>5. StateOf(l, v)'
    BY <2>3, <2>4, LaterState
  <2>6. M \subseteq N /\ \A w \in order.version + 1..order'.version :
                           \E m \in N : m.version = w
    BY <2>2, <2>3 DEF NoneLost
  <2>7. Delivered(N, v)'
    BY <2>3, <2>4, <2>6, LaterDelivered
  <2>8. QED
    BY <2>2, <2>5, <2>7 DEF StateOf, Delivered
<1>5. QED
  BY <1>1, <1>2, <1>3, <1>4 DEF JoinerInv

LEMMA OwnStays ==
  ASSUME NEW c \in Client, OwnInv(c), ComesAnew(c),
         client'[c].pending = client[c].pending,
         \A i \in 1..Len(toServer'[c]) : toServer'[c][i].type # "join" =>
           \E j \in 1..Len(toServer[c]) : toServer'[c][i] = toServer[c][j]
  PROVE  OwnInv(c)'
<1>1. PICK p : p = client[c].pending /\ p = client'[c].pending
  OBVIOUS
<1>2. /\ \A i \in 1..Len(toServer[c]) :
           toServer[c][i].type # "join" => \E k \in 1..Len(p) : p[k] = toServer[c][i]
      /\ \A m \in Coming(c) : m.author = c =>
           \E k \in 1..Len(p) :
             p[k].id = m.id /\ p[k].cell = m.cell /\ p[k].type = m.type
  BY <1>1 DEF OwnInv
<1>3. \A i \in 1..Len(toServer'[c]) :
        toServer'[c][i].type # "join" => \E k \in 1..Len(p) : p[k] = toServer'[c][i]
  BY <1>2
<1>4. \A m \in Coming(c)' : m.author = c =>
        \E k \in 1..Len(p) :
          p[k].id = m.id /\ p[k].cell = m.cell /\ p[k].type = m.type
  BY <1>1, <1>2 DEF ComesAnew
<1>5. QED
  BY <1>1, <1>3, <1>4 DEF OwnInv

\* Nothing that c has or is sent changes but for new operations.
Witness(c) ==
  /\ client'[c] = client[c]
  /\ task'[c].at \in {"version", "state"} => task'[c] = task[c]
  /\ \A i \in 1..Len(toServer'[c]) : toServer'[c][i].type # "join" =>
       \E j \in 1..Len(toServer[c]) : toServer'[c][i] = toServer[c][j]
  /\ States(c)' = States(c)
  /\ \A i \in States(c) : toClient'[c][i] = toClient[c][i]
  /\ ComesAnew(c)
  /\ Connected(c) => NoneLost(c)
  /\ HasAnswer(c)' => Message(task[c].message)'

LEMMA WitnessKeeps ==
  ASSUME Later, NEW c \in Client, LocalInv(c), Answers, AnswersDiffer, ListInvOf(c),
         Witness(c)
  PROVE  ListInvOf(c)'
<1>1. client'[c] = client[c] /\ ComesAnew(c) /\ (Connected(c) => NoneLost(c))
  BY DEF Witness
<1>2. /\ StoreInv(c) /\ TaskInv(c) /\ JoinInv(c) /\ VersionsInv(c)
      /\ OnceInv(c) /\ MessagesInv(c) /\ StoreOrderly(c) /\ JoinerInv(c) /\ OwnInv(c)
  BY DEF LocalInv, ListInvOf
<1>3. SameStore(client[c], client'[c])
  BY <1>1, <1>2 DEF SameStore, StoreInv
<1>4. OnceInv(c)'
  BY <1>1 DEF ComesAnew
<1>5. MessagesInv(c)'
  BY <1>1, <1>2, MessagesStay DEF Witness
<1>6. StoreOrderly(c)'
  BY <1>1, <1>2, <1>3, StoreStays DEF Connected
<1>7. JoinerInv(c)'
  BY <1>1, <1>2, JoinerStays DEF Witness, Connected
<1>8. OwnInv(c)'
  BY <1>1, <1>2, OwnStays DEF Witness
<1>9. QED
  BY <1>4, <1>5, <1>6, <1>7, <1>8 DEF ListInvOf

----------------------------------------------------------------------------
(* What the server has taken.                                              *)

LEMMA TakenNumbers ==
  ASSUME IInv, NEW c \in Client
  PROVE  /\ Taken(c) \in Int /\ Taken(c) <= made[c] /\ made[c] \in Nat
         /\ Taken(c) = made[c] - Len(toServer[c]) + (IF HasJoin(c) THEN 1 ELSE 0)
         /\ Len(toServer[c]) \in Nat
<1>1. FormInv /\ LocalInv(c)
  BY DEF IInv
<1>2. Taken(c) \in Int /\ Taken(c) <= made[c] /\ made[c] \in Nat /\ Len(toServer[c]) \in Nat
  BY <1>1, NumbersOf
<1>3. QED
  BY <1>2 DEF Taken

LEMMA TakenNumbersNext ==
  ASSUME IInv', NEW c \in Client
  PROVE  /\ Taken(c)' \in Int /\ made'[c] \in Nat /\ Len(toServer'[c]) \in Nat
         /\ Taken(c)' = made'[c] - Len(toServer'[c]) + (IF HasJoin(c)' THEN 1 ELSE 0)
<1>1. made'[c] \in Nat
  BY DEF IInv, FormInv
<1>2. Len(toServer'[c]) \in Nat
  BY DEF IInv, LocalInv, StoreInv, IsSequence
<1>3. Taken(c)' = made'[c] - Len(toServer'[c]) + (IF HasJoin(c)' THEN 1 ELSE 0)
  BY DEF Taken
<1>4. PICK h \in {0, 1} : h = IF HasJoin(c)' THEN 1 ELSE 0
  OBVIOUS
<1>5. QED
  BY <1>1, <1>2, <1>3, <1>4

\* Nothing is taken but by ApplyOperation.
LEMMA TakenSame ==
  ASSUME NEW c, toServer'[c] = toServer[c], made'[c] = made[c]
  PROVE  Taken(c)' = Taken(c)
BY DEF Taken, HasJoin

LEMMA LaterWhenSame ==
  ASSUME IInv, IInv', UNCHANGED <<order, log>>,
         \A d \in Client : Taken(d)' = Taken(d) /\ made[d] <= made'[d]
  PROVE  Later
<1>1. order.version \in Nat
  BY DEF IInv, FormInv
<1>2. \A v : ListAt(v)' = ListAt(v)
  BY DEF ListAt
<1>3. ASSUME NEW d \in Client
      PROVE  /\ Taken(d) \in Int /\ Taken(d)' \in Int /\ Taken(d) <= Taken(d)'
             /\ made[d] \in Nat /\ made'[d] \in Nat /\ made[d] <= made'[d]
  <2>1. Taken(d) \in Int /\ made[d] \in Nat
    BY TakenNumbers
  <2>2. made'[d] \in Nat
    BY TakenNumbersNext
  <2>3. QED
    BY <2>1, <2>2
<1>4. QED
  BY <1>1, <1>2, <1>3 DEF Later

LEMMA LogStays ==
  ASSUME LogInv, Later, UNCHANGED <<order, log>>
  PROVE  LogInv'
<1>1. \A v : ListAt(v)' = ListAt(v)
  BY DEF ListAt
<1>2. TakenCells \subseteq TakenCells'
  <2>1. ASSUME NEW d \in Client
        PROVE  {<<d, n>> : n \in 1..Taken(d)} \subseteq {<<d, n>> : n \in 1..Taken(d)'}
    <3>1. 1..Taken(d) \subseteq 1..Taken(d)'
      BY DEF Later
    <3>2. QED
      BY <3>1
  <2>2. QED
    BY <2>1 DEF TakenCells
<1>3. QED
  BY <1>1, <1>2 DEF LogInv

LEMMA TasksSame ==
  ASSUME UNCHANGED task, AnswersDiffer, Answers, Later
  PROVE  AnswersDiffer' /\ Answers'
<1>1. AnswersDiffer'
  BY DEF AnswersDiffer, HasAnswer
<1>2. ASSUME NEW d \in Client, HasAnswer(d)'
      PROVE  Message(task[d].message)'
  <2>1. PICK m : m = task[d].message /\ m = task'[d].message
    OBVIOUS
  <2>2. Message(m)
    BY <1>2, <2>1 DEF Answers, HasAnswer
  <2>3. Message(m)'
    BY <2>2, LaterMessage
  <2>4. QED
    BY <2>1, <2>3 DEF Message
<1>3. QED
  BY <1>1, <1>2 DEF Answers

LEMMA OwedSame ==
  ASSUME NEW c, UNCHANGED task
  PROVE  OwedBefore(c) /\ StillOwed(c)
BY DEF OwedBefore, StillOwed, Owed

LEMMA SameLine ==
  ASSUME NEW c, client'[c].held = client[c].held, toClient'[c] = toClient[c]
  PROVE  Line(c)' = Line(c)
BY DEF Line

\* What comes stays the same.
LEMMA SameComing ==
  ASSUME NEW c, OnceInv(c)', Coming(c)' = Coming(c), UNCHANGED order,
         order.version \in Nat
  PROVE  ComesAnew(c) /\ NoneLost(c)
<1>1. order.version + 1..order'.version = {}
  OBVIOUS
<1>2. QED
  BY <1>1 DEF ComesAnew, NoneLost

----------------------------------------------------------------------------
(* What a user does.                                                       *)

LEMMA BystanderStays ==
  ASSUME Later, Answers, AnswersDiffer, NEW c \in Client, LocalInv(c), ListInvOf(c),
         UNCHANGED <<order, task>>, client'[c] = client[c],
         toServer'[c] = toServer[c], toClient'[c] = toClient[c]
  PROVE  ListInvOf(c)'
<1>1. OnceInv(c)' /\ Coming(c)' = Coming(c)
  <2>1. Line(c)' = Line(c) /\ OwedBefore(c) /\ StillOwed(c)
    BY SameLine, OwedSame
  <2>2. OnceInv(c)
    BY DEF ListInvOf
  <2>3. QED
    BY <2>1, <2>2, ComingShrinks
<1>2. ComesAnew(c) /\ NoneLost(c)
  BY <1>1, SameComing DEF Later
<1>3. States(c)' = States(c) /\ \A i \in States(c) : toClient'[c][i] = toClient[c][i]
  BY DEF States
<1>4. HasAnswer(c)' => Message(task[c].message)'
  BY TasksSame DEF Answers
<1>5. Witness(c)
  BY <1>2, <1>3, <1>4 DEF Witness
<1>6. QED
  BY <1>5, WitnessKeeps

LEMMA ConnectTakesNone ==
  ASSUME NEW c \in Client, IInv, IInv', Connect(c)
  PROVE  /\ \A d \in Client : Taken(d)' = Taken(d) /\ made[d] <= made'[d]
         /\ toServer'[c] = <<Join>> /\ UNCHANGED <<order, task, toClient, made, log>>
         /\ client'[c] = [client[c] EXCEPT !.session = "joining"]
         /\ client[c].session = "away"
         /\ \A d \in Client : d # c => client'[d] = client[d] /\ toServer'[d] = toServer[d]
<1>1. /\ toServer'[c] = <<Join>> /\ UNCHANGED <<order, task, toClient, made, log>>
      /\ client'[c] = [client[c] EXCEPT !.session = "joining"]
      /\ client[c].session = "away"
      /\ \A d \in Client : d # c => client'[d] = client[d] /\ toServer'[d] = toServer[d]
  BY DEF Connect, Connected, IInv, FormInv
<1>2. toServer[c] = <<>>
  BY <1>1 DEF IInv, LocalInv, AwayInv
<1>3. ~HasJoin(c) /\ HasJoin(c)' /\ Len(toServer[c]) = 0 /\ Len(toServer'[c]) = 1
  BY <1>1, <1>2 DEF HasJoin, Join
<1>4. Taken(c)' = Taken(c)
  <2>1. Taken(c) = made[c] - 0 + 0 /\ Taken(c)' = made[c] - 1 + 1 /\ made[c] \in Nat
    BY <1>1, <1>3, TakenNumbers, TakenNumbersNext
  <2>2. QED
    BY <2>1
<1>5. ASSUME NEW d \in Client
      PROVE  Taken(d)' = Taken(d) /\ made[d] <= made'[d]
  <2>1. made[d] \in Nat
    BY TakenNumbers
  <2>2. QED
    BY <1>1, <1>4, <2>1, TakenSame
<1>6. QED
  BY <1>1, <1>5

LEMMA MakeTakesNone ==
  ASSUME NEW c \in Client, IInv, IInv', NEW op, op.type \in OperationTypes, Make(c, op)
  PROVE  /\ \A d \in Client : Taken(d)' = Taken(d) /\ made[d] <= made'[d]
         /\ toServer'[c] = Append(toServer[c], op) /\ UNCHANGED <<order, task, toClient, log>>
         /\ client'[c] = Enlarged(client[c], op) /\ made'[c] = made[c] + 1
         /\ \A d \in Client : d # c => client'[d] = client[d] /\ toServer'[d] = toServer[d]
<1>1. /\ toServer'[c] = Append(toServer[c], op) /\ UNCHANGED <<order, task, toClient, log>>
      /\ made'[c] = made[c] + 1
      /\ \A d \in Client : d # c => /\ client'[d] = client[d] /\ toServer'[d] = toServer[d]
                                    /\ made'[d] = made[d]
  BY DEF Make, IInv, FormInv
<1>2. client'[c] = Enlarged(client[c], op)
  BY DEF Make, IInv, FormInv, Enlarged, CellsMade
<1>3. HasJoin(c)' <=> HasJoin(c)
  <2>1. PICK q, r : q = toServer[c] /\ r = toServer'[c] /\ r = Append(q, op) /\ IsSequence(q)
    BY <1>1 DEF IInv, LocalInv, StoreInv
  <2>2. /\ IsSequence(r) /\ Len(r) = Len(q) + 1 /\ Len(q) \in Nat
        /\ \A i \in 1..Len(q) : r[i] = q[i]
        /\ r[Len(q) + 1] = op
    BY <2>1, AppendIsSequence DEF IsSequence
  <2>3. r # <<>>
    BY <2>2
  <2>4. CASE q = <<>>
    <3>1. r[1] = op /\ op.type # "join"
      BY <2>2, <2>4 DEF OperationTypes
    <3>2. QED
      BY <2>1, <2>4, <3>1 DEF HasJoin
  <2>5. CASE q # <<>>
    <3>1. Len(q) > 0
      BY <2>1, <2>5, HeadOfSequence
    <3>2. r[1] = q[1]
      BY <2>2, <3>1
    <3>3. QED
      BY <2>1, <2>3, <2>5, <3>2 DEF HasJoin
  <2>6. QED
    BY <2>4, <2>5
<1>4. Taken(c)' = Taken(c)
  <2>1. PICK h \in {0, 1} : h = (IF HasJoin(c) THEN 1 ELSE 0) /\ h = (IF HasJoin(c)' THEN 1 ELSE 0)
    BY <1>3
  <2>2. Len(toServer'[c]) = Len(toServer[c]) + 1 /\ Len(toServer[c]) \in Nat
    <3>1. PICK q : q = toServer[c] /\ IsSequence(q)
      BY DEF IInv, LocalInv, StoreInv
    <3>2. Len(Append(q, op)) = Len(q) + 1 /\ Len(q) \in Nat
      BY <3>1, AppendIsSequence DEF IsSequence
    <3>3. QED
      BY <1>1, <3>1, <3>2
  <2>3. Taken(c) = made[c] - Len(toServer[c]) + h /\ made[c] \in Nat
    BY <2>1, TakenNumbers
  <2>4. Taken(c)' = made'[c] - Len(toServer'[c]) + h
    BY <2>1, TakenNumbersNext
  <2>5. QED
    BY <1>1, <2>2, <2>3, <2>4
<1>5. ASSUME NEW d \in Client
      PROVE  Taken(d)' = Taken(d) /\ made[d] <= made'[d]
  <2>1. made[d] \in Nat /\ made[c] \in Nat
    BY TakenNumbers
  <2>2. CASE d = c
    BY <1>1, <1>4, <2>1, <2>2
  <2>3. CASE d # c
    BY <1>1, <2>1, <2>3, TakenSame
  <2>4. QED
    BY <2>2, <2>3
<1>6. QED
  BY <1>1, <1>2, <1>5

LEMMA ConnectOrders ==
  ASSUME IInv, IInv', Later, Answers, AnswersDiffer, NEW c \in Client, ListInvOf(c),
         Connect(c)
  PROVE  ListInvOf(c)'
<1>1. /\ toServer'[c] = <<Join>> /\ UNCHANGED <<order, task, toClient, made, log>>
      /\ client'[c] = [client[c] EXCEPT !.session = "joining"]
      /\ client[c].session = "away"
  BY ConnectTakesNone
<1>2. LocalInv(c) /\ StoreInv(c) /\ DOMAIN client[c] = StoreFields
  BY DEF IInv, LocalInv, StoreInv
<1>3. SameStore(client[c], client'[c]) /\ client'[c].held = client[c].held
      /\ client'[c].session = "joining"
  BY <1>1, <1>2 DEF SameStore, StoreFields
<1>4. OnceInv(c)' /\ Coming(c)' = Coming(c)
  <2>1. Line(c)' = Line(c) /\ OwedBefore(c) /\ StillOwed(c)
    BY <1>1, <1>3, SameLine, OwedSame
  <2>2. OnceInv(c)
    BY DEF ListInvOf
  <2>3. QED
    BY <2>1, <2>2, ComingShrinks
<1>5. ComesAnew(c) /\ NoneLost(c)
  BY <1>1, <1>4, SameComing DEF Later
<1>6. /\ TaskInv(c) /\ JoinInv(c) /\ VersionsInv(c)
      /\ OnceInv(c) /\ MessagesInv(c) /\ StoreOrderly(c) /\ JoinerInv(c) /\ OwnInv(c)
  BY <1>2 DEF LocalInv, ListInvOf
<1>7. HasAnswer(c)' => Message(task[c].message)'
  BY <1>1, TasksSame DEF Answers
<1>8. MessagesInv(c)'
  BY <1>3, <1>5, <1>6, <1>7, MessagesStay
<1>9. StoreOrderly(c)'
  BY <1>2, <1>3, <1>5, <1>6, StoreStays
<1>10. States(c)' = States(c) /\ \A i \in States(c) : toClient'[c][i] = toClient[c][i]
  BY <1>1 DEF States
<1>11. JoinerInv(c)'
  <2>1. client'[c].version = client[c].version
    BY <1>3 DEF SameStore
  <2>2. QED
    BY <1>1, <1>3, <1>5, <1>6, <1>10, <2>1, JoinerStays
<1>12. OwnInv(c)'
  <2>1. \A i \in 1..Len(toServer'[c]) : toServer'[c][i].type = "join"
    BY <1>1 DEF Join
  <2>2. client'[c].pending = client[c].pending
    BY <1>3 DEF SameStore
  <2>3. QED
    BY <1>5, <1>6, <2>1, <2>2, OwnStays
<1>13. QED
  BY <1>4, <1>8, <1>9, <1>11, <1>12 DEF ListInvOf

LEMMA MakeOrders ==
  ASSUME IInv, IInv', Later, LogInv, Answers, AnswersDiffer, NEW c \in Client,
         ListInvOf(c), NEW op, Make(c, op), Offered(c, client[c], op)
  PROVE  ListInvOf(c)'
<1>1. PICK s, t, M : s = client[c] /\ t = client'[c] /\ M = Coming(c)
  OBVIOUS
<1>2. op.type \in OperationTypes
  BY DEF Offered, Operates
<1>3. /\ toServer'[c] = Append(toServer[c], op) /\ UNCHANGED <<order, task, toClient, log>>
      /\ t = Enlarged(s, op) /\ made'[c] = made[c] + 1
  BY <1>1, <1>2, MakeTakesNone
<1>4. LocalInv(c) /\ StoreInv(c)
  BY DEF IInv, LocalInv
<1>5. /\ TaskInv(c) /\ JoinInv(c) /\ VersionsInv(c)
      /\ OnceInv(c) /\ MessagesInv(c) /\ StoreOrderly(c) /\ JoinerInv(c) /\ OwnInv(c)
  BY <1>4 DEF LocalInv, ListInvOf
<1>6. Fitting(c, s, M) /\ Stored(s)
  BY <1>1, <1>4, <1>5, StoreFits DEF Later, Fitting
<1>7. /\ DOMAIN t = StoreFields
      /\ t.session = s.session /\ t.version = s.version /\ t.held = s.held
      /\ t.seen = s.seen /\ t.astray = s.astray
      /\ IsSequence(t.pending) /\ Len(t.pending) = Len(s.pending) + 1
      /\ \A k \in 1..Len(s.pending) : t.pending[k] = s.pending[k]
      /\ t.pending[Len(s.pending) + 1] = op
  <2>1. Stored(s) /\ t = Enlarged(s, op)
    BY <1>3, <1>6
  <2>2. QED
    BY ONLY <2>1, MadeFields
<1>8. OnceInv(c)' /\ Coming(c)' = M
  <2>1. Line(c)' = Line(c) /\ OwedBefore(c) /\ StillOwed(c)
    BY <1>1, <1>3, <1>7, SameLine, OwedSame
  <2>2. QED
    BY <1>1, <1>5, <2>1, ComingShrinks
<1>9. ComesAnew(c) /\ NoneLost(c)
  BY <1>1, <1>3, <1>8, SameComing DEF Later
<1>10. HasAnswer(c)' => Message(task[c].message)'
  BY <1>3, TasksSame DEF Answers
<1>11. MessagesInv(c)'
  BY <1>1, <1>5, <1>7, <1>9, <1>10, MessagesStay
<1>12. NewId(c) \notin TakenCells \cup OwnCells(c)
  <2>1. \A d \in Client : Taken(d) \in Int /\ Taken(d) <= made[d]
    BY TakenNumbers
  <2>2. made \in [Client -> Nat]
    BY DEF IInv, FormInv
  <2>3. QED
    BY <2>1, <2>2, NewIdIsNew
<1>13. NewId(c) \notin Known(s)
  BY <1>6, <1>12 DEF Fitting, Orderly
<1>14. Stored(t) /\ Known(t) \subseteq Known(s) \cup {NewId(c)}
  <2>1. Stored(s) /\ Offered(c, s, op) /\ NewId(c) \notin Known(s) /\ t = Enlarged(s, op)
    BY <1>1, <1>3, <1>6, <1>13
  <2>2. QED
    BY <2>1, MadeFits
<1>15. NewId(c) \in OwnCells(c)'
  <2>1. made[c] \in Nat /\ made'[c] \in 1..made'[c]
    <3>1. made[c] \in Nat
      BY DEF Later
    <3>2. QED
      BY <1>3, <3>1
  <2>2. NewId(c) = <<c, made'[c]>>
    BY <1>3 DEF NewId
  <2>3. QED
    BY <2>1, <2>2 DEF OwnCells
<1>16. Orderly(c, t, M)'
  <2>1. TakenCells \subseteq TakenCells' /\ OwnCells(c) \subseteq OwnCells(c)'
    BY LaterCells
  <2>2. Known(s) \subseteq TakenCells \cup OwnCells(c)
    BY <1>6 DEF Fitting, Orderly
  <2>3. Known(t) \subseteq TakenCells' \cup OwnCells(c)'
    BY <1>14, <1>15, <2>1, <2>2
  <2>4. ASSUME NEW m \in M, m.author # c, m.type = "cell_insert", m.version > t.version
        PROVE  m.cell \notin Known(t)
    <3>1. m.cell \notin Known(s)
      BY <1>6, <1>7, <2>4 DEF Fitting, Orderly
    <3>2. Message(m)
      <4>1. Messages(M)
        BY <1>1, <1>5, ComingAreMessages DEF Answers
      <4>2. QED
        BY <4>1 DEF Messages
    <3>3. m.cell # NewId(c)
      BY <2>4, <3>2 DEF Message, NewId
    <3>4. QED
      BY <1>14, <3>1, <3>3
  <2>5. QED
    BY <1>14, <2>3, <2>4 DEF Orderly, Stored
<1>17. ASSUME t.session = "joined", ~t.astray
       PROVE  Tracking(t, M)'
  <2>1. Tracking(s, M)
    BY <1>1, <1>5, <1>7, <1>17 DEF StoreOrderly
  <2>2. s.version \in Nat /\ s.seen \in 0..order.version
    BY <1>6, <2>1 DEF Tracking, Stored
  <2>3. NewId(c) \notin Ids(ListAt(s.seen))
    BY <1>12, <2>2 DEF LogInv
  <2>4. SameOrder(t) /\ Consistent(t)
    <3>1. /\ Stored(s) /\ Offered(c, s, op) /\ NewId(c) \notin Known(s)
          /\ t = Enlarged(s, op) /\ SameOrder(s) /\ Consistent(s)
      BY <1>1, <1>3, <1>6, <1>13, <2>1 DEF Tracking
    <3>2. QED
      BY <2>3, <3>1, MadeTracks
  <2>5. Tracking(t, M)
    BY <1>7, <2>1, <2>4 DEF Tracking
  <2>6. \A w \in order.version + 1..order'.version : \E m \in M : m.version = w
    BY <1>1, <1>8, <1>9 DEF NoneLost
  <2>7. t.version \in Nat
    BY <1>7, <2>2
  <2>8. QED
    BY <2>5, <2>6, <2>7, LaterTracks
<1>18. StoreOrderly(c)'
  BY <1>1, <1>8, <1>16, <1>17 DEF StoreOrderly
<1>19. States(c)' = States(c) /\ \A i \in States(c) : toClient'[c][i] = toClient[c][i]
  BY <1>3 DEF States
<1>20. JoinerInv(c)'
  BY <1>1, <1>3, <1>5, <1>7, <1>9, <1>19, JoinerStays
<1>21. OwnInv(c)'
  <2>1. PICK p, n, q, r : /\ p = t.pending /\ n = Len(s.pending)
                          /\ q = toServer[c] /\ r = toServer'[c]
    OBVIOUS
  <2>2. IsSequence(q) /\ r = Append(q, op) /\ Len(p) = n + 1 /\ n \in Nat
    <3>1. IsSequence(s.pending)
      BY <1>6 DEF Stored
    <3>2. QED
      BY <1>3, <1>4, <1>7, <2>1, <3>1 DEF StoreInv, IsSequence
  <2>3. /\ IsSequence(r) /\ Len(r) = Len(q) + 1 /\ Len(q) \in Nat
        /\ \A i \in 1..Len(q) : r[i] = q[i]
        /\ r[Len(q) + 1] = op
    BY <2>2, AppendIsSequence DEF IsSequence
  <2>4. p[n + 1] = op /\ \A k \in 1..n : k \in 1..Len(p) /\ p[k] = s.pending[k]
    BY <1>7, <2>1, <2>2
  <2>5. ASSUME NEW i \in 1..Len(r), r[i].type # "join"
        PROVE  \E k \in 1..Len(p) : p[k] = r[i]
    <3>1. CASE i \in 1..Len(q)
      <4>1. PICK k \in 1..n : s.pending[k] = r[i]
        BY <1>1, <1>5, <2>1, <2>3, <2>5, <3>1 DEF OwnInv
      <4>2. QED
        BY <2>4, <4>1
    <3>2. CASE i = Len(q) + 1
      <4>1. n + 1 \in 1..Len(p)
        BY <2>2
      <4>2. QED
        BY <2>3, <2>4, <3>2, <4>1
    <3>3. QED
      BY <2>3, <3>1, <3>2
  <2>6. ASSUME NEW m \in M, m.author = c
        PROVE  \E k \in 1..Len(p) :
                 p[k].id = m.id /\ p[k].cell = m.cell /\ p[k].type = m.type
    <3>1. PICK k \in 1..n : /\ s.pending[k].id = m.id /\ s.pending[k].cell = m.cell
                            /\ s.pending[k].type = m.type
      BY <1>1, <1>5, <2>1, <2>6 DEF OwnInv
    <3>2. QED
      BY <2>4, <3>1
  <2>7. QED
    BY <1>1, <1>8, <2>1, <2>5, <2>6 DEF OwnInv
<1>22. QED
  BY <1>8, <1>11, <1>18, <1>20, <1>21 DEF ListInvOf

----------------------------------------------------------------------------
(* The server applies an operation.                                        *)

LEMMA NextCellIsNew ==
  ASSUME IInv, NEW c \in Client
  PROVE  /\ <<c, Taken(c) + 1>> \notin TakenCells
         /\ \A e \in Client : e # c => <<c, Taken(c) + 1>> \notin OwnCells(e)
         /\ Taken(c) \in Nat
<1>1. Taken(c) \in Nat
  <2>1. FormInv /\ LocalInv(c)
    BY DEF IInv
  <2>2. /\ Settled(c) \in Nat /\ Taken(c) \in Int /\ Settled(c) <= Echoed(c)
        /\ Echoed(c) = IF Sending(c) THEN Taken(c) - 1 ELSE Taken(c)
    BY <2>1, NumbersOf
  <2>3. Echoed(c) \in Int /\ Echoed(c) <= Taken(c)
    BY <2>2
  <2>4. QED
    BY <2>2, <2>3
<1>2. PICK n : n = Taken(c) + 1 /\ n \in Nat
  BY <1>1
<1>3. <<c, n>> \notin Range(InitialCells)
  BY <1>2, CellsAssumption
<1>4. ASSUME NEW d \in Client, <<c, n>> \in {<<d, k>> : k \in 1..Taken(d)}
      PROVE  FALSE
  <2>1. PICK k \in 1..Taken(d) : <<c, n>> = <<d, k>>
    BY <1>4
  <2>2. d = c /\ k = n
    BY <2>1
  <2>3. QED
    BY <1>1, <1>2, <2>1, <2>2
<1>5. <<c, n>> \notin TakenCells
  BY <1>3, <1>4 DEF TakenCells
<1>6. \A e \in Client : e # c => <<c, n>> \notin OwnCells(e)
  BY DEF OwnCells
<1>7. QED
  BY <1>1, <1>2, <1>5, <1>6

\* The request that is applied, and what becomes of the order.
Applies(c, op, m) ==
  /\ op = Head(toServer[c]) /\ m = Confirmed(op, order.list, c, order.version + 1)
  /\ task[c].at = "idle" /\ task'[c] = Applied(m)
  /\ order' = [version |-> order.version + 1, list |-> Reordered(order.list, op)]
  /\ log' = Append(log, Reordered(order.list, op))
  /\ UNCHANGED <<toClient, client, made>>
  /\ \A d \in Client : d # c => task'[d] = task[d] /\ toServer'[d] = toServer[d]
  /\ \A i \in 1..Len(toServer'[c]) :
       \E j \in 1..Len(toServer[c]) : toServer'[c][i] = toServer[c][j]
  /\ \E k \in 1..Len(client[c].pending) : client[c].pending[k] = op
  /\ Operates(op) /\ op.id = <<c, Taken(c) + 1>>
  /\ op.type = "cell_insert" => op.cell = op.id
  /\ Taken(c)' = Taken(c) + 1

LEMMA ApplyApplies ==
  ASSUME IInv, IInv', NEW c \in Client, ListInvOf(c), ApplyOperation(c)
  PROVE  \E op, m : Applies(c, op, m)
<1>1. PICK q, r, op, m :
        /\ q = toServer[c] /\ r = toServer'[c] /\ op = Head(q)
        /\ m = Confirmed(op, order.list, c, order.version + 1)
  OBVIOUS
<1>2. LocalInv(c) /\ FormInv /\ IsSequence(q)
  BY <1>1 DEF IInv, LocalInv, StoreInv
<1>3. /\ Takes(c) /\ op.type # "join" /\ order' = OrderAfter(op)
      /\ task' = [task EXCEPT ![c] = Applied(Confirmed(op, order.list, c, order'.version))]
      /\ log' = Append(log, order'.list)
      /\ UNCHANGED <<toClient, client, made>>
  BY <1>1 DEF ApplyOperation, SetTask
<1>4. /\ order' = [version |-> order.version + 1, list |-> Reordered(order.list, op)]
      /\ order'.version = order.version + 1 /\ order'.list = Reordered(order.list, op)
  BY <1>3 DEF OrderAfter
<1>5. /\ task'[c] = Applied(m) /\ log' = Append(log, Reordered(order.list, op))
      /\ \A d \in Client : d # c => task'[d] = task[d] /\ toServer'[d] = toServer[d]
  BY <1>1, <1>2, <1>3, <1>4 DEF FormInv, Takes
<1>6. q # <<>> /\ r = Tail(q)
  BY <1>1, <1>2, <1>3 DEF Takes, FormInv
<1>7. op = q[1] /\ Len(q) \in Nat /\ Len(q) > 0
  BY <1>1, <1>2, <1>6, HeadOfSequence
<1>8. Len(r) = Len(q) - 1 /\ \A i \in 1..Len(q) - 1 : r[i] = q[i + 1]
  BY <1>2, <1>6, <1>7, TailIsSequence
<1>9. \A i \in 1..Len(r) : \E j \in 1..Len(q) : r[i] = q[j]
  <2>1. \A i \in 1..Len(r) : i + 1 \in 1..Len(q) /\ r[i] = q[i + 1]
    BY <1>7, <1>8
  <2>2. QED
    BY <2>1
<1>10. 1 \in 1..Len(q)
  BY <1>7
<1>11. PICK k \in 1..Len(client[c].pending) : client[c].pending[k] = op
  BY <1>1, <1>3, <1>7, <1>10 DEF ListInvOf, OwnInv
<1>12. Operates(op) /\ (op.type = "cell_insert" => op.cell = op.id)
  BY <1>11 DEF ListInvOf, StoreOrderly, Orderly
<1>13. ~HasJoin(c) /\ ~HasJoin(c)' /\ task[c].at = "idle"
  <2>1. ~HasJoin(c)
    BY <1>1, <1>3, <1>7 DEF HasJoin
  <2>2. QED
    BY <1>2, <1>3, <2>1, NextRequest DEF LocalInv
<1>14. Taken(c) = made[c] - Len(q) /\ Taken(c)' = Taken(c) + 1
  <2>1. Taken(c) = made[c] - Len(q) + 0 /\ made[c] \in Nat
    BY <1>1, <1>13, TakenNumbers
  <2>2. Taken(c)' = made[c] - Len(r) + 0
    BY <1>1, <1>3, <1>13, TakenNumbersNext
  <2>3. QED
    BY <1>7, <1>8, <2>1, <2>2
<1>15. op.id = <<c, Taken(c) + 1>>
  <2>1. op.id = <<c, made[c] - Len(q) + 1>>
    BY <1>1, <1>2, <1>7, <1>10, <1>13 DEF LocalInv, RequestsInv
  <2>2. made[c] - Len(q) + 1 = Taken(c) + 1
    BY <1>14
  <2>3. QED
    BY <2>1, <2>2
<1>16. Applies(c, op, m)
  BY <1>1, <1>3, <1>4, <1>5, <1>9, <1>11, <1>12, <1>13, <1>14, <1>15 DEF Applies
<1>17. QED
  BY <1>16

LEMMA LogGrows ==
  ASSUME IInv, IInv', LogInv, NEW c \in Client, NEW op, NEW m, Applies(c, op, m)
  PROVE  /\ Later /\ LogInv' /\ Message(m)'
         /\ m.version = order.version + 1 /\ m.author = c /\ m.type = op.type
         /\ m.cell = op.cell /\ m.id = op.id
<1>1. PICK v, l, n : v = order.version /\ l = order.list /\ n = Reordered(l, op)
  OBVIOUS
<1>2. /\ v \in Nat /\ IsSequence(log) /\ Len(log) = v /\ l = ListAt(v)
      /\ WellFormed(l) /\ Ids(l) \subseteq TakenCells /\ Operates(op)
  <2>1. v \in Nat /\ v \in 0..v
    BY <1>1 DEF IInv, FormInv
  <2>2. QED
    BY <1>1, <2>1 DEF LogInv, Applies
<1>3. order'.version = v + 1 /\ order'.list = n /\ log' = Append(log, n)
  BY <1>1 DEF Applies
<1>4. /\ IsSequence(log') /\ Len(log') = v + 1
      /\ \A i \in 1..v : log'[i] = log[i]
      /\ log'[v + 1] = n
  <2>1. PICK g : g = log /\ IsSequence(g) /\ Len(g) = v
    BY <1>2
  <2>2. /\ IsSequence(Append(g, n)) /\ Len(Append(g, n)) = Len(g) + 1
        /\ \A i \in 1..Len(g) : Append(g, n)[i] = g[i]
        /\ Append(g, n)[Len(g) + 1] = n
    BY <2>1, AppendIsSequence
  <2>3. QED
    BY <1>3, <2>1, <2>2
<1>5. \A w \in 0..v : ListAt(w)' = ListAt(w)
  <2>1. \A w \in 0..v : w = 0 \/ w \in 1..v
    BY <1>2
  <2>2. QED
    BY <1>4, <2>1 DEF ListAt
<1>6. ListAt(v + 1)' = n
  BY <1>2, <1>4 DEF ListAt
<1>7. ASSUME NEW d \in Client
      PROVE  /\ Taken(d) \in Int /\ Taken(d)' \in Int /\ Taken(d) <= Taken(d)'
             /\ made[d] \in Nat /\ made'[d] \in Nat /\ made[d] <= made'[d]
  <2>1. Taken(d) \in Int /\ made[d] \in Nat /\ made' = made
    BY TakenNumbers DEF Applies
  <2>2. Taken(d)' = Taken(d) \/ Taken(d)' = Taken(d) + 1
    BY <2>1, TakenSame DEF Applies
  <2>3. QED
    BY <2>1, <2>2
<1>8. Later
  BY <1>1, <1>2, <1>3, <1>5, <1>7 DEF Later
<1>9. <<c, Taken(c) + 1>> \notin TakenCells /\ Taken(c) \in Nat
  BY NextCellIsNew
<1>10. op.type = "cell_insert" => op.cell = <<c, Taken(c) + 1>> /\ ~Has(l, op.cell)
  BY <1>2, <1>9 DEF Applies, Has, Ids
<1>11. WellFormed(n)
  BY <1>1, <1>2, <1>10, ReorderedFits
<1>12. TakenCells \subseteq TakenCells' /\ <<c, Taken(c) + 1>> \in TakenCells'
  <2>1. TakenCells \subseteq TakenCells'
    BY <1>8, LaterCells
  <2>2. Taken(c)' = Taken(c) + 1 /\ Taken(c)' \in 1..Taken(c)'
    BY <1>9 DEF Applies
  <2>3. QED
    BY <2>1, <2>2 DEF TakenCells
<1>13. Ids(n) \subseteq TakenCells'
  <2>1. ASSUME NEW x \in Ids(n)
        PROVE  x \in TakenCells'
    <3>1. CASE x # op.cell
      <4>1. Has(l, x)
        BY <1>1, <2>1, <3>1, ReorderedOthers DEF Has, Ids
      <4>2. QED
        BY <1>2, <1>12, <4>1 DEF Has, Ids
    <3>2. CASE x = op.cell /\ op.type = "cell_insert"
      BY <1>10, <1>12, <3>2
    <3>3. CASE x = op.cell /\ op.type # "cell_insert"
      <4>1. Has(l, x)
        BY <1>1, <1>2, <2>1, <3>3, ReorderedCell DEF Has, Ids, Operates, OperationTypes
      <4>2. QED
        BY <1>2, <1>12, <4>1 DEF Has, Ids
    <3>4. QED
      BY <3>1, <3>2, <3>3
  <2>2. QED
    BY <2>1
<1>14. LogInv'
  <2>1. ASSUME NEW w \in 0..v + 1
        PROVE  WellFormed(ListAt(w)') /\ Ids(ListAt(w)') \subseteq TakenCells'
    <3>1. CASE w \in 0..v
      <4>1. WellFormed(ListAt(w)) /\ Ids(ListAt(w)) \subseteq TakenCells
        BY <1>1, <3>1 DEF LogInv
      <4>2. QED
        BY <1>5, <1>12, <3>1, <4>1
    <3>2. CASE w = v + 1
      BY <1>6, <1>11, <1>13, <3>2
    <3>3. QED
      BY <1>2, <3>1, <3>2
  <2>2. order'.list = ListAt(order.version)'
    BY <1>3, <1>6 DEF ListAt
  <2>3. QED
    BY <1>3, <1>4, <2>1, <2>2 DEF LogInv
<1>15. /\ Operates(m) /\ m.type = op.type /\ m.cell = op.cell /\ m.id = op.id
       /\ m.author = c /\ m.version = v + 1
       /\ Reordered(l, m) = Reordered(l, op)
       /\ \A i \in m.index : ~Occupied(l, i)
  <2>1. m = Confirmed(op, l, c, v + 1)
    BY <1>1 DEF Applies
  <2>2. QED
    BY <1>2, <2>1, ConfirmedDoes
<1>16. Message(m)'
  <2>1. m.version - 1 = v /\ m.version \in 1..order'.version
    BY <1>2, <1>3, <1>15
  <2>2. ListAt(m.version)' = n /\ ListAt(m.version - 1)' = l
    <3>1. v \in 0..v
      BY <1>2
    <3>2. QED
      BY <1>2, <1>5, <1>6, <1>15, <2>1, <3>1
  <2>3. ASSUME m.type = "cell_insert"
        PROVE  /\ m.cell \in {<<m.author, k>> : k \in 1..Taken(m.author)'}
               /\ \A w \in 0..m.version - 1 : m.cell \notin Ids(ListAt(w)')
    <3>1. m.cell = <<c, Taken(c) + 1>>
      BY <1>10, <1>15, <2>3
    <3>2. Taken(c)' = Taken(c) + 1 /\ Taken(c)' \in 1..Taken(c)'
      BY <1>9 DEF Applies
    <3>3. ASSUME NEW w \in 0..m.version - 1
          PROVE  m.cell \notin Ids(ListAt(w)')
      <4>1. w \in 0..v
        BY <2>1
      <4>2. Ids(ListAt(w)') \subseteq TakenCells
        BY <1>1, <1>5, <4>1 DEF LogInv
      <4>3. QED
        BY <1>9, <3>1, <4>2
    <3>4. QED
      BY <1>15, <3>1, <3>2, <3>3
  <2>4. ListAt(m.version)' = Reordered(ListAt(m.version - 1)', m)
    BY <1>1, <1>15, <2>2
  <2>5. \A i \in m.index : ~Occupied(ListAt(m.version - 1)', i)
    BY <1>15, <2>2
  <2>6. QED
    BY <1>15, <2>1, <2>3, <2>4, <2>5 DEF Message
<1>17. QED
  BY <1>1, <1>8, <1>14, <1>15, <1>16

LEMMA ApplyOrders ==
  ASSUME IInv, IInv', LogInv, Answers, AnswersDiffer, NEW c \in Client,
         \A e \in Client : ListInvOf(e), ApplyOperation(c)
  PROVE  LogInv' /\ AnswersDiffer' /\ \A e \in Client : ListInvOf(e)'
<1>1. PICK op, m : Applies(c, op, m)
  BY ApplyApplies
<1>2. /\ Later /\ LogInv' /\ Message(m)'
      /\ m.version = order.version + 1 /\ m.author = c /\ m.type = op.type
      /\ m.cell = op.cell /\ m.id = op.id
  BY <1>1, LogGrows
<1>3. /\ order.version \in Nat /\ order'.version = order.version + 1
      /\ UNCHANGED <<toClient, client, made>>
      /\ task[c].at = "idle" /\ task'[c].at = "applied" /\ task'[c].message = m
      /\ \A d \in Client : d # c => task'[d] = task[d] /\ toServer'[d] = toServer[d]
  BY <1>1, <1>2 DEF Applies, Applied, Later
<1>4. \A d \in Client : HasAnswer(d) => task[d].message.version \in 1..order.version
  BY DEF Answers, Message
<1>5. AnswersDiffer'
  <2>1. ASSUME NEW d \in Client, NEW e \in Client, HasAnswer(d)', HasAnswer(e)',
               task'[d].message.version = task'[e].message.version
        PROVE  d = e
    <3>1. CASE d # c /\ e # c
      BY <1>3, <2>1, <3>1 DEF AnswersDiffer, HasAnswer
    <3>2. ASSUME NEW f \in Client, f # c, HasAnswer(f)'
          PROVE  task'[f].message.version # m.version
      <4>1. task'[f] = task[f] /\ HasAnswer(f)
        BY <1>3, <3>2 DEF HasAnswer
      <4>2. task[f].message.version \in 1..order.version
        BY <1>4, <4>1
      <4>3. QED
        BY <1>2, <1>3, <4>1, <4>2
    <3>3. QED
      BY <1>3, <2>1, <3>1, <3>2
  <2>2. QED
    BY <2>1 DEF AnswersDiffer
<1>6. ASSUME NEW e \in Client
      PROVE  ListInvOf(e)'
  <2>1. LocalInv(e) /\ ListInvOf(e)
    BY DEF IInv
  <2>2. OnceInv(e) /\ MessagesInv(e)
    BY <2>1 DEF ListInvOf
  <2>3. OnceInv(e)' /\ Coming(e)' = Coming(e) \cup {m}
    <3>1. Line(e)' = Line(e)
      BY <1>3, SameLine
    <3>2. ~Owed(c, e) /\ Owed(c, e)' /\ task'[c].message = m
      BY <1>3 DEF Owed
    <3>3. \A d \in Client : d # c => (Owed(d, e)' <=> Owed(d, e)) /\ task'[d] = task[d]
      BY <1>3 DEF Owed
    <3>4. ASSUME NEW n \in Coming(e)
          PROVE  n.version # m.version
      <4>1. Messages(Coming(e))
        BY <2>2, ComingAreMessages DEF Answers
      <4>2. n.version \in 1..order.version
        BY <4>1 DEF Messages, Message
      <4>3. QED
        BY <1>2, <1>3, <4>2
    <3>5. QED
      BY <2>2, <3>1, <3>2, <3>3, <3>4, ComingGains
  <2>4. ASSUME e # c, m.type = "cell_insert"
        PROVE  m.cell \notin TakenCells \cup OwnCells(e)
    <3>1. m.cell = <<c, Taken(c) + 1>>
      BY <1>1, <1>2, <2>4 DEF Applies
    <3>2. QED
      BY <2>4, <3>1, NextCellIsNew
  <2>5. ASSUME e = c
        PROVE  \E k \in 1..Len(client'[e].pending) :
                 /\ client'[e].pending[k].id = m.id /\ client'[e].pending[k].cell = m.cell
                 /\ client'[e].pending[k].type = m.type
    BY <1>1, <1>2, <1>3, <2>5 DEF Applies
  <2>6. ComesAnew(e)
    BY <1>2, <2>3, <2>4, <2>5 DEF ComesAnew
  <2>7. NoneLost(e)
    <3>1. \A w \in order.version + 1..order'.version : w = m.version
      BY <1>2, <1>3
    <3>2. QED
      BY <2>3, <3>1 DEF NoneLost
  <2>8. HasAnswer(e)' => Message(task[e].message)'
    <3>1. CASE e = c
      BY <1>2, <1>3, <3>1 DEF Message
    <3>2. CASE e # c
      <4>1. ASSUME HasAnswer(e)'
            PROVE  Message(task[e].message)'
        <5>1. PICK n : n = task[e].message /\ n = task'[e].message
          BY <1>3, <3>2
        <5>2. Message(n)
          BY <1>3, <3>2, <4>1, <5>1 DEF Answers, HasAnswer
        <5>3. Message(n)'
          BY <1>2, <5>2, LaterMessage
        <5>4. QED
          BY <5>1, <5>3 DEF Message
      <4>2. QED
        BY <4>1
    <3>3. QED
      BY <3>1, <3>2
  <2>9. \A i \in 1..Len(toServer'[e]) :
          \E j \in 1..Len(toServer[e]) : toServer'[e][i] = toServer[e][j]
    <3>1. CASE e = c
      BY <1>1, <3>1 DEF Applies
    <3>2. CASE e # c
      BY <1>3, <3>2
    <3>3. QED
      BY <3>1, <3>2
  <2>10. States(e)' = States(e) /\ \A i \in States(e) : toClient'[e][i] = toClient[e][i]
    BY <1>3 DEF States
  <2>11. task'[e].at \in {"version", "state"} => task'[e] = task[e]
    BY <1>3
  <2>12. Witness(e)
    BY <1>3, <2>6, <2>7, <2>8, <2>9, <2>10, <2>11 DEF Witness
  <2>13. QED
    BY <1>2, <2>1, <2>12, WitnessKeeps
<1>7. QED
  BY <1>2, <1>5, <1>6

----------------------------------------------------------------------------
(* The server sends an answer or a state.                                  *)

\* The task of c passes on what it has, and neither the order nor a client changes.
Passing(c) ==
  /\ UNCHANGED <<order, client, made, log>>
  /\ \A d \in Client : d # c => task'[d] = task[d] /\ toServer'[d] = toServer[d]
  /\ HasAnswer(c)' => HasAnswer(c) /\ task'[c].message = task[c].message
  /\ \A i \in 1..Len(toServer'[c]) :
       \E j \in 1..Len(toServer[c]) : toServer'[c][i] = toServer[c][j]
  /\ Taken(c)' = Taken(c)

LEMMA PassingKeeps ==
  ASSUME IInv, IInv', LogInv, Answers, AnswersDiffer, NEW c \in Client, Passing(c)
  PROVE  /\ Later /\ LogInv' /\ AnswersDiffer'
         /\ \A e \in Client :
              /\ HasAnswer(e)' => Message(task[e].message)'
              /\ \A i \in 1..Len(toServer'[e]) :
                   \E j \in 1..Len(toServer[e]) : toServer'[e][i] = toServer[e][j]
<1>1. UNCHANGED <<order, log, made>>
  BY DEF Passing
<1>2. \A d \in Client : Taken(d)' = Taken(d) /\ made[d] <= made'[d]
  <2>1. \A d \in Client : made[d] \in Nat
    BY TakenNumbers
  <2>2. QED
    BY <1>1, <2>1, TakenSame DEF Passing
<1>3. Later
  BY <1>1, <1>2, LaterWhenSame
<1>4. LogInv'
  BY <1>1, <1>3, LogStays
<1>5. ASSUME NEW d \in Client, HasAnswer(d)'
      PROVE  HasAnswer(d) /\ task'[d].message = task[d].message
  <2>1. CASE d = c
    BY <1>5, <2>1 DEF Passing
  <2>2. CASE d # c
    BY <1>5, <2>2 DEF Passing, HasAnswer
  <2>3. QED
    BY <2>1, <2>2
<1>6. AnswersDiffer'
  <2>1. ASSUME NEW d \in Client, NEW e \in Client, HasAnswer(d)', HasAnswer(e)',
               task'[d].message.version = task'[e].message.version
        PROVE  d = e
    <3>1. HasAnswer(d) /\ HasAnswer(e)
          /\ task[d].message.version = task[e].message.version
      BY <1>5, <2>1
    <3>2. QED
      BY <3>1 DEF AnswersDiffer
  <2>2. QED
    BY <2>1 DEF AnswersDiffer
<1>7. ASSUME NEW e \in Client, HasAnswer(e)'
      PROVE  Message(task[e].message)'
  <2>1. PICK m : m = task[e].message /\ m = task'[e].message
    BY <1>5, <1>7
  <2>2. Message(m)
    BY <1>5, <1>7, <2>1 DEF Answers
  <2>3. Message(m)'
    BY <1>3, <2>2, LaterMessage
  <2>4. QED
    BY <2>1, <2>3 DEF Message
<1>8. ASSUME NEW e \in Client
      PROVE  \A i \in 1..Len(toServer'[e]) :
               \E j \in 1..Len(toServer[e]) : toServer'[e][i] = toServer[e][j]
  <2>1. CASE e = c
    BY <2>1 DEF Passing
  <2>2. CASE e # c
    BY <2>2 DEF Passing
  <2>3. QED
    BY <2>1, <2>2
<1>9. QED
  BY <1>3, <1>4, <1>6, <1>7, <1>8

\* What comes to e stays the same, but for what is sent to none who is not there.
Steady(e) ==
  /\ OnceInv(e)' /\ Coming(e)' \subseteq Coming(e)
  /\ Connected(e) => Coming(e)' = Coming(e)

LEMMA SteadyComes ==
  ASSUME NEW e, Steady(e), UNCHANGED order, order.version \in Nat
  PROVE  ComesAnew(e) /\ (Connected(e) => NoneLost(e))
<1>1. order.version + 1..order'.version = {}
  OBVIOUS
<1>2. QED
  BY <1>1 DEF Steady, ComesAnew, NoneLost

LEMMA PassingJoiner ==
  ASSUME IInv, Later, NEW e \in Client, JoinerInv(e), UNCHANGED <<order, client>>,
         Steady(e), task'[e].at \in {"version", "state"} => task'[e] = task[e],
         States(e)' = States(e), \A i \in States(e) : toClient'[e][i] = toClient[e][i]
  PROVE  JoinerInv(e)'
<1>1. TaskInv(e) /\ JoinInv(e) /\ VersionsInv(e)
  BY DEF IInv, LocalInv
<1>2. client[e].session = "joining" => NoneLost(e)
  BY SteadyComes DEF Later, Connected
<1>3. client'[e] = client[e]
  OBVIOUS
<1>4. QED
  BY <1>1, <1>2, <1>3, JoinerStays

LEMMA PassingStays ==
  ASSUME IInv, Later, Answers, AnswersDiffer, NEW e \in Client, ListInvOf(e),
         UNCHANGED <<order, client>>, Steady(e),
         HasAnswer(e)' => Message(task[e].message)',
         \A i \in 1..Len(toServer'[e]) :
           \E j \in 1..Len(toServer[e]) : toServer'[e][i] = toServer[e][j],
         JoinerInv(e)'
  PROVE  ListInvOf(e)'
<1>1. client'[e] = client[e] /\ ComesAnew(e) /\ (Connected(e) => NoneLost(e))
  BY SteadyComes DEF Later
<1>2. /\ StoreInv(e) /\ OnceInv(e) /\ MessagesInv(e) /\ StoreOrderly(e) /\ OwnInv(e)
  BY DEF IInv, LocalInv, ListInvOf
<1>3. SameStore(client[e], client'[e])
  BY <1>1, <1>2 DEF SameStore, StoreInv
<1>4. OnceInv(e)'
  BY DEF Steady
<1>5. MessagesInv(e)'
  BY <1>1, <1>2, MessagesStay
<1>6. StoreOrderly(e)'
  BY <1>1, <1>2, <1>3, StoreStays DEF Connected
<1>7. OwnInv(e)'
  BY <1>1, <1>2, OwnStays
<1>8. QED
  BY <1>4, <1>5, <1>6, <1>7 DEF ListInvOf

LEMMA BeginBroadcastOrders ==
  ASSUME IInv, IInv', LogInv, Answers, AnswersDiffer, NEW c \in Client,
         \A e \in Client : ListInvOf(e), BeginBroadcast(c)
  PROVE  LogInv' /\ AnswersDiffer' /\ \A e \in Client : ListInvOf(e)'
<1>1. /\ task[c].at = "applied" /\ UNCHANGED <<order, toServer, toClient, client, made, log>>
      /\ task'[c] = Broadcasting(task[c].message, Recipients(c))
      /\ \A d \in Client : d # c => task'[d] = task[d]
  BY DEF BeginBroadcast, SetTask, IInv, FormInv
<1>2. /\ task'[c].at = "broadcast" /\ task'[c].message = task[c].message
      /\ task'[c].rest = Recipients(c)
  BY <1>1 DEF Broadcasting
<1>3. Passing(c)
  <2>1. Taken(c)' = Taken(c)
    BY <1>1, TakenSame
  <2>2. HasAnswer(c)
    BY <1>1 DEF HasAnswer
  <2>3. QED
    BY <1>1, <1>2, <2>1, <2>2 DEF Passing
<1>4. /\ Later /\ LogInv' /\ AnswersDiffer'
      /\ \A e \in Client :
           /\ HasAnswer(e)' => Message(task[e].message)'
           /\ \A i \in 1..Len(toServer'[e]) :
                \E j \in 1..Len(toServer[e]) : toServer'[e][i] = toServer[e][j]
  BY <1>3, PassingKeeps
<1>5. ASSUME NEW e \in Client
      PROVE  ListInvOf(e)'
  <2>1. OnceInv(e) /\ JoinerInv(e)
    BY DEF ListInvOf
  <2>2. Line(e)' = Line(e)
    BY <1>1, SameLine
  <2>3. Owed(c, e) /\ (Owed(c, e)' <=> Connected(e))
    BY <1>1, <1>2 DEF Owed, Recipients
  <2>4. \A d \in Client : d # c => (Owed(d, e)' <=> Owed(d, e)) /\ task'[d] = task[d]
    BY <1>1 DEF Owed
  <2>5. OwedBefore(e) /\ (Connected(e) => StillOwed(e))
    BY <1>2, <2>3, <2>4 DEF OwedBefore, StillOwed
  <2>6. Steady(e)
    BY <2>1, <2>2, <2>5, ComingShrinks DEF Steady
  <2>7. task'[e].at \in {"version", "state"} => task'[e] = task[e]
    BY <1>1, <1>2
  <2>8. States(e)' = States(e) /\ \A i \in States(e) : toClient'[e][i] = toClient[e][i]
    BY <1>1 DEF States
  <2>9. JoinerInv(e)'
    BY <1>1, <1>4, <2>1, <2>6, <2>7, <2>8, PassingJoiner
  <2>10. QED
    BY <1>1, <1>4, <2>6, <2>9, PassingStays
<1>6. QED
  BY <1>4, <1>5

\* A message is put behind what is on its way.
LEMMA LineGrows ==
  ASSUME NEW d, NEW h, NEW q, NEW m, IsSequence(h), IsSequence(q),
         h = client[d].held, h = client'[d].held, q = toClient[d],
         toClient'[d] = Append(q, m)
  PROVE  Behind(Line(d), Line(d)', m)
<1>1. PICK r : r = Append(q, m) /\ r = toClient'[d]
  OBVIOUS
<1>2. /\ IsSequence(r) /\ Len(r) = Len(q) + 1 /\ Len(q) \in Nat /\ Len(h) \in Nat
      /\ \A i \in 1..Len(q) : r[i] = q[i]
      /\ r[Len(q) + 1] = m
  <2>1. /\ IsSequence(Append(q, m)) /\ Len(Append(q, m)) = Len(q) + 1
        /\ \A i \in 1..Len(q) : Append(q, m)[i] = q[i]
        /\ Append(q, m)[Len(q) + 1] = m
    BY AppendIsSequence
  <2>2. QED
    BY <1>1, <2>1 DEF IsSequence
<1>3. PICK l, k : l = Line(d) /\ k = Line(d)' /\ l = Joined(h, q) /\ k = Joined(h, r)
  BY <1>1 DEF Line, Joined
<1>4. PICK a, b : a = Len(h) /\ b = Len(q) /\ a \in Nat /\ b \in Nat /\ Len(r) = b + 1
  BY <1>2
<1>5. /\ Len(l) = a + b
      /\ \A i \in 1..a : l[i] = h[i]
      /\ \A i \in 1..b : l[a + i] = q[i]
  <2>1. /\ Len(Joined(h, q)) = Len(h) + Len(q)
        /\ \A i \in 1..Len(h) : Joined(h, q)[i] = h[i]
        /\ \A i \in 1..Len(q) : Joined(h, q)[Len(h) + i] = q[i]
    <3>1. IsSequence(h) /\ IsSequence(q)
      OBVIOUS
    <3>2. QED
      BY ONLY <3>1, JoinedIs
  <2>2. QED
    BY <1>3, <1>4, <2>1
<1>6. /\ Len(k) = a + (b + 1)
      /\ \A i \in 1..a : k[i] = h[i]
      /\ \A i \in 1..b + 1 : k[a + i] = r[i]
  <2>1. /\ Len(Joined(h, r)) = Len(h) + Len(r)
        /\ \A i \in 1..Len(h) : Joined(h, r)[i] = h[i]
        /\ \A i \in 1..Len(r) : Joined(h, r)[Len(h) + i] = r[i]
    <3>1. IsSequence(h) /\ IsSequence(r)
      BY <1>2
    <3>2. QED
      BY ONLY <3>1, JoinedIs
  <2>2. QED
    BY <1>3, <1>4, <2>1
<1>7. \A i \in 1..b : r[i] = q[i] /\ i \in 1..b + 1
  BY <1>2, <1>4
<1>8. r[b + 1] = m
  BY <1>2, <1>4
<1>9. ASSUME NEW i \in 1..Len(l)
      PROVE  k[i] = l[i]
  <2>1. CASE i <= a
    <3>1. i \in 1..a
      BY <1>4, <1>5, <2>1
    <3>2. QED
      BY <1>5, <1>6, <3>1
  <2>2. CASE ~ (i <= a)
    <3>1. PICK j : j = i - a /\ j \in 1..b /\ i = a + j
      <4>1. a \in Nat /\ b \in Nat /\ i \in 1..a + b /\ ~ (i <= a)
        BY <1>4, <1>5, <2>2
      <4>2. i - a \in 1..b /\ i = a + (i - a)
        BY ONLY <4>1
      <4>3. QED
        BY <4>2
    <3>2. k[a + j] = r[j] /\ l[a + j] = q[j] /\ r[j] = q[j]
      BY <1>5, <1>6, <1>7, <3>1
    <3>3. QED
      BY <3>1, <3>2
  <2>3. QED
    BY <2>1, <2>2
<1>10. k[Len(l) + 1] = m
  <2>1. b + 1 \in 1..b + 1 /\ Len(l) + 1 = a + (b + 1)
    <3>1. a \in Nat /\ b \in Nat /\ Len(l) = a + b
      BY <1>4, <1>5
    <3>2. QED
      BY ONLY <3>1
  <2>2. k[a + (b + 1)] = r[b + 1]
    BY <1>6, <2>1
  <2>3. QED
    BY <1>8, <2>1, <2>2
<1>11. Len(l) \in Nat /\ Len(k) = Len(l) + 1
  <2>1. a \in Nat /\ b \in Nat /\ Len(l) = a + b /\ Len(k) = a + (b + 1)
    BY <1>4, <1>5, <1>6
  <2>2. QED
    BY ONLY <2>1
<1>12. QED
  BY <1>3, <1>9, <1>10, <1>11 DEF Behind

LEMMA StatesBefore ==
  ASSUME NEW d, NEW q, NEW m, IsSequence(q), q = toClient[d],
         toClient'[d] = Append(q, m)
  PROVE  /\ Len(q) \in Nat /\ toClient'[d][Len(q) + 1] = m
         /\ \A i \in States(d) : toClient'[d][i] = toClient[d][i]
         /\ m.type # "full_state" => States(d)' = States(d)
         /\ m.type = "full_state" => States(d)' = States(d) \cup {Len(q) + 1}
<1>1. PICK r : r = Append(q, m) /\ r = toClient'[d]
  OBVIOUS
<1>2. /\ Len(r) = Len(q) + 1 /\ Len(q) \in Nat
      /\ \A i \in 1..Len(q) : r[i] = q[i]
      /\ r[Len(q) + 1] = m
  <2>1. /\ Len(Append(q, m)) = Len(q) + 1
        /\ \A i \in 1..Len(q) : Append(q, m)[i] = q[i]
        /\ Append(q, m)[Len(q) + 1] = m
    BY AppendIsSequence
  <2>2. QED
    BY <1>1, <2>1 DEF IsSequence
<1>3. /\ \A i : i \in States(d) <=> i \in 1..Len(q) /\ q[i].type = "full_state"
      /\ \A i : i \in States(d)' <=> i \in 1..Len(r) /\ r[i].type = "full_state"
  BY <1>1 DEF States
<1>4. \A i : i \in 1..Len(r) <=> i \in 1..Len(q) \/ i = Len(q) + 1
  BY <1>2
<1>5. \A i : i \in States(d)' <=>
        i \in States(d) \/ (i = Len(q) + 1 /\ m.type = "full_state")
  BY <1>2, <1>3, <1>4
<1>6. QED
  BY <1>1, <1>2, <1>3, <1>5

LEMMA SendOrders ==
  ASSUME IInv, IInv', LogInv, Answers, AnswersDiffer, NEW c \in Client,
         \A e \in Client : ListInvOf(e), Send(c)
  PROVE  LogInv' /\ AnswersDiffer' /\ \A e \in Client : ListInvOf(e)'
<1>1. /\ task[c].at = "broadcast" /\ UNCHANGED <<order, toServer, client, made, log>>
  BY DEF Send
<1>2. PICK d, m, t : /\ d \in task[c].rest /\ m = task[c].message
                     /\ Deliver(d, m) /\ t = Rest(c, d) /\ SetTask(c, t)
  BY DEF Send, Rest
<1>3. d \in Client /\ LocalInv(c) /\ HasAnswer(c)
  BY <1>1, <1>2 DEF IInv, LocalInv, TaskInv, HasAnswer
<1>4. /\ toClient'[d] = Append(toClient[d], m)
      /\ \A e \in Client : e # d => toClient'[e] = toClient[e]
      /\ task'[c] = t /\ \A e \in Client : e # c => task'[e] = task[e]
  BY <1>2, <1>3 DEF Deliver, SetTask, IInv, FormInv
<1>5. /\ t.at \in {"idle", "broadcast"}
      /\ t.at = "broadcast" => /\ t.message = m /\ t.rest = task[c].rest \ {d}
      /\ t.at = "idle" => task[c].rest \subseteq {d}
  BY <1>1, <1>2, <1>3, SentTo
<1>6. m.type # "full_state" /\ Message(m)
  BY <1>2, <1>3 DEF LocalInv, TaskInv, Answers, OperationTypes
<1>7. Passing(c)
  <2>1. Taken(c)' = Taken(c)
    BY <1>1, TakenSame
  <2>2. HasAnswer(c)' => task'[c].message = task[c].message
    BY <1>2, <1>4, <1>5 DEF HasAnswer
  <2>3. QED
    BY <1>1, <1>3, <1>4, <2>1, <2>2 DEF Passing
<1>8. /\ Later /\ LogInv' /\ AnswersDiffer'
      /\ \A e \in Client :
           /\ HasAnswer(e)' => Message(task[e].message)'
           /\ \A i \in 1..Len(toServer'[e]) :
                \E j \in 1..Len(toServer[e]) : toServer'[e][i] = toServer[e][j]
  BY <1>7, PassingKeeps
<1>9. \A e \in Client : Owed(c, e)' <=> Owed(c, e) /\ e # d
  BY <1>1, <1>4, <1>5 DEF Owed
<1>10. \A e, f \in Client : f # c => (Owed(f, e)' <=> Owed(f, e)) /\ task'[f] = task[f]
  BY <1>4 DEF Owed
<1>11. \A e \in Client : Owed(c, e)' => task'[c].message = m
  BY <1>4, <1>5 DEF Owed
<1>12. ASSUME NEW e \in Client
       PROVE  Steady(e)
  <2>1. OnceInv(e)
    BY DEF ListInvOf
  <2>2. CASE e # d
    <3>1. Line(e)' = Line(e)
      BY <1>1, <1>4, <2>2, SameLine
    <3>2. OwedBefore(e) /\ StillOwed(e)
      BY <1>2, <1>9, <1>10, <1>11, <2>2 DEF OwedBefore, StillOwed
    <3>3. QED
      BY <2>1, <3>1, <3>2, ComingShrinks DEF Steady
  <2>3. CASE e = d
    <3>1. Behind(Line(e), Line(e)', m)
      <4>1. PICK h, q : /\ h = client[e].held /\ h = client'[e].held /\ q = toClient[e]
                        /\ IsSequence(h) /\ IsSequence(q)
        BY <1>1 DEF IInv, LocalInv, StoreInv
      <4>2. toClient'[e] = Append(q, m)
        BY <1>4, <2>3, <4>1
      <4>3. QED
        BY <4>1, <4>2, LineGrows
    <3>2. \A f \in Client : Owed(f, e) /\ f # c => task[f].message.version # m.version
      BY <1>2, <1>3 DEF AnswersDiffer, Owed, HasAnswer
    <3>3. Owed(c, e) /\ ~Owed(c, e)'
      BY <1>1, <1>2, <1>9, <2>3 DEF Owed
    <3>4. \A f \in Client : f # c => (Owed(f, e)' <=> Owed(f, e)) /\ task'[f] = task[f]
      BY <1>10
    <3>5. OnceInv(e)' /\ Coming(e)' = Coming(e)
      BY <1>2, <1>6, <2>1, <3>1, <3>2, <3>3, <3>4, ComingSent
    <3>6. QED
      BY <3>5 DEF Steady
  <2>4. QED
    BY <2>2, <2>3
<1>13. ASSUME NEW e \in Client
       PROVE  States(e)' = States(e) /\ \A i \in States(e) : toClient'[e][i] = toClient[e][i]
  <2>1. CASE e # d
    BY <1>4, <2>1 DEF States
  <2>2. CASE e = d
    <3>1. PICK q : q = toClient[e] /\ IsSequence(q) /\ toClient'[e] = Append(q, m)
      BY <1>4, <2>2 DEF IInv, LocalInv, StoreInv
    <3>2. QED
      BY <1>6, <3>1, StatesBefore
  <2>3. QED
    BY <2>1, <2>2
<1>14. ASSUME NEW e \in Client
       PROVE  ListInvOf(e)'
  <2>1. JoinerInv(e)
    BY DEF ListInvOf
  <2>2. task'[e].at \in {"version", "state"} => task'[e] = task[e]
    BY <1>4, <1>5
  <2>3. JoinerInv(e)'
    BY <1>1, <1>8, <1>12, <1>13, <2>1, <2>2, PassingJoiner
  <2>4. QED
    BY <1>1, <1>8, <1>12, <2>3, PassingStays
<1>15. QED
  BY <1>8, <1>14

\* Reading changes nothing for another client.
LEMMA ReadingKeeps ==
  ASSUME IInv, IInv', LogInv, Answers, AnswersDiffer, NEW c \in Client,
         \A e \in Client : ListInvOf(e), Passing(c), ~HasAnswer(c), ~HasAnswer(c)',
         \A e \in Client : e # c => toClient'[e] = toClient[e],
         Line(c)' = Line(c) \/ \E m : m.type = "full_state" /\ Behind(Line(c), Line(c)', m),
         JoinerInv(c)'
  PROVE  LogInv' /\ AnswersDiffer' /\ \A e \in Client : ListInvOf(e)'
<1>1. /\ Later /\ LogInv' /\ AnswersDiffer'
      /\ \A e \in Client :
           /\ HasAnswer(e)' => Message(task[e].message)'
           /\ \A i \in 1..Len(toServer'[e]) :
                \E j \in 1..Len(toServer[e]) : toServer'[e][i] = toServer[e][j]
  BY PassingKeeps
<1>2. ASSUME NEW e \in Client
      PROVE  OwedBefore(e) /\ StillOwed(e)
  <2>1. ~Owed(c, e) /\ ~Owed(c, e)'
    BY DEF Owed, HasAnswer
  <2>2. \A d \in Client : d # c => (Owed(d, e)' <=> Owed(d, e)) /\ task'[d] = task[d]
    BY DEF Owed, Passing
  <2>3. QED
    BY <2>1, <2>2 DEF OwedBefore, StillOwed
<1>3. ASSUME NEW e \in Client
      PROVE  Steady(e)
  <2>1. OnceInv(e) /\ OwedBefore(e) /\ StillOwed(e)
    BY <1>2 DEF ListInvOf
  <2>2. CASE e # c \/ Line(c)' = Line(c)
    <3>1. Line(e)' = Line(e)
      BY <2>2, SameLine DEF Passing
    <3>2. QED
      BY <2>1, <3>1, ComingShrinks DEF Steady
  <2>3. CASE e = c /\ Line(c)' # Line(c)
    <3>1. PICK m : m.type = "full_state" /\ Behind(Line(e), Line(e)', m)
      BY <2>3
    <3>2. OnceInv(e)' /\ Coming(e)' = Coming(e)
      BY <2>1, <3>1, ComingBeforeState
    <3>3. QED
      BY <3>2 DEF Steady
  <2>4. QED
    BY <2>2, <2>3
<1>4. ASSUME NEW e \in Client
      PROVE  ListInvOf(e)'
  <2>1. UNCHANGED <<order, client>>
    BY DEF Passing
  <2>2. JoinerInv(e)'
    <3>1. CASE e = c
      BY <3>1
    <3>2. CASE e # c
      <4>1. task'[e] = task[e]
        BY <3>2 DEF Passing
      <4>2. States(e)' = States(e) /\ \A i \in States(e) : toClient'[e][i] = toClient[e][i]
        BY <3>2 DEF States
      <4>3. JoinerInv(e)
        BY DEF ListInvOf
      <4>4. QED
        BY <1>1, <1>3, <2>1, <4>1, <4>2, <4>3, PassingJoiner
    <3>3. QED
      BY <3>1, <3>2
  <2>3. QED
    BY <1>1, <1>3, <2>1, <2>2, PassingStays
<1>5. QED
  BY <1>1, <1>4

LEMMA ReadStateOrders ==
  ASSUME IInv, IInv', LogInv, Answers, AnswersDiffer, NEW c \in Client,
         \A e \in Client : ListInvOf(e), ReadState(c)
  PROVE  LogInv' /\ AnswersDiffer' /\ \A e \in Client : ListInvOf(e)'
<1>1. /\ Takes(c) /\ UNCHANGED <<order, toClient, client, made, log>>
      /\ task'[c] = ReadingVersion(order.list) /\ Head(toServer[c]).type = "join"
      /\ \A d \in Client : d # c => task'[d] = task[d] /\ toServer'[d] = toServer[d]
  BY DEF ReadState, Takes, SetTask, IInv, FormInv
<1>2. task'[c].at = "version" /\ task'[c].list = order.list
  BY <1>1 DEF ReadingVersion
<1>3. FormInv /\ LocalInv(c) /\ RequestsInv(c)
  BY DEF IInv, LocalInv
<1>4. /\ task[c].at = "idle" /\ Len(toServer[c]) \in Nat
      /\ Len(toServer'[c]) = Len(toServer[c]) - 1 /\ ~HasJoin(c)'
  BY <1>1, <1>3, NextRequest
<1>5. PICK q, r : q = toServer[c] /\ r = toServer'[c] /\ q # <<>> /\ r = Tail(q)
                  /\ IsSequence(q)
  BY <1>1, <1>3 DEF Takes, FormInv, LocalInv, StoreInv
<1>6. /\ Len(q) > 0 /\ Len(r) = Len(q) - 1 /\ q[1] = Head(q) /\ Len(q) \in Nat
      /\ \A i \in 1..Len(q) - 1 : r[i] = q[i + 1]
  BY <1>5, HeadOfSequence, TailIsSequence
<1>7. HasJoin(c)
  BY <1>1, <1>5, <1>6 DEF HasJoin
<1>8. Taken(c)' = Taken(c)
  <2>1. Taken(c) = made[c] - Len(q) + 1 /\ made[c] \in Nat
    BY <1>5, <1>7, TakenNumbers
  <2>2. Taken(c)' = made[c] - Len(r) + 0
    BY <1>1, <1>4, <1>5, TakenNumbersNext
  <2>3. QED
    BY <1>6, <2>1, <2>2
<1>9. ~HasAnswer(c) /\ ~HasAnswer(c)'
  BY <1>2, <1>4 DEF HasAnswer
<1>10. \A i \in 1..Len(r) : \E j \in 1..Len(q) : r[i] = q[j]
  <2>1. \A i \in 1..Len(r) : i + 1 \in 1..Len(q) /\ r[i] = q[i + 1]
    BY <1>6
  <2>2. QED
    BY <2>1
<1>11. Passing(c)
  BY <1>1, <1>5, <1>8, <1>9, <1>10 DEF Passing
<1>12. States(c) = {} /\ States(c)' = {}
  <2>1. JoinInv(c)
    BY <1>3 DEF LocalInv
  <2>2. States(c) = {}
    BY <1>7, <2>1 DEF JoinInv
  <2>3. QED
    BY <1>1, <2>2 DEF States
<1>13. JoinerInv(c)'
  <2>1. order.version \in Nat /\ order.list = ListAt(order.version)
    BY <1>3 DEF FormInv, LogInv
  <2>2. StateOf(order.list, order.version)'
    <3>1. order.version \in 0..order.version /\ UNCHANGED <<order, log>>
      BY <1>1, <2>1
    <3>2. order'.list = ListAt(order.version)'
      BY <2>1, <3>1 DEF ListAt
    <3>3. QED
      BY <2>1, <3>1, <3>2 DEF StateOf
  <2>3. StateOf(task[c].list, order.version)'
    BY <1>1, <1>2, <2>2 DEF StateOf
  <2>4. client'[c].session # "joined" => client'[c].version = 0
    BY <1>1 DEF ListInvOf, JoinerInv
  <2>5. QED
    BY <1>2, <1>12, <2>3, <2>4 DEF JoinerInv
<1>14. Line(c)' = Line(c)
  BY <1>1, SameLine
<1>15. QED
  BY <1>1, <1>9, <1>11, <1>13, <1>14, ReadingKeeps

LEMMA ReadVersionOrders ==
  ASSUME IInv, IInv', LogInv, Answers, AnswersDiffer, NEW c \in Client,
         \A e \in Client : ListInvOf(e), ReadVersion(c)
  PROVE  LogInv' /\ AnswersDiffer' /\ \A e \in Client : ListInvOf(e)'
<1>1. /\ task[c].at = "version" /\ UNCHANGED <<order, toServer, toClient, client, made, log>>
      /\ task'[c] = SendingState(task[c].list, order.version)
      /\ \A d \in Client : d # c => task'[d] = task[d]
  BY DEF ReadVersion, SetTask, IInv, FormInv
<1>2. /\ task'[c].at = "state" /\ task'[c].version = order.version
      /\ task'[c].list = task[c].list
  BY <1>1 DEF SendingState
<1>3. ~HasAnswer(c) /\ ~HasAnswer(c)'
  BY <1>1, <1>2 DEF HasAnswer
<1>4. Passing(c)
  <2>1. Taken(c)' = Taken(c)
    BY <1>1, TakenSame
  <2>2. QED
    BY <1>1, <1>3, <2>1 DEF Passing
<1>5. States(c)' = {}
  <2>1. JoinInv(c) /\ Reading(c)
    BY <1>1 DEF IInv, LocalInv, Reading
  <2>2. States(c) = {}
    BY <2>1 DEF JoinInv
  <2>3. QED
    BY <1>1, <2>2 DEF States
<1>6. JoinerInv(c)'
  <2>1. JoinerInv(c)
    BY DEF ListInvOf
  <2>2. PICK l, v : l = task[c].list /\ v = order.version /\ v \in Nat
    BY DEF IInv, FormInv
  <2>3. StateOf(l, v)'
    <3>1. StateOf(l, v)
      BY <1>1, <2>1, <2>2 DEF JoinerInv
    <3>2. \A w : ListAt(w)' = ListAt(w)
      BY <1>1 DEF ListAt
    <3>3. QED
      BY <3>1, <3>2 DEF StateOf
  <2>4. StateOf(task[c].list, task[c].version)'
    BY <1>2, <2>2, <2>3 DEF StateOf
  <2>5. Delivered(Coming(c), task[c].version)'
    <3>1. task'[c].version + 1..order'.version = {}
      BY <1>1, <1>2, <2>2
    <3>2. QED
      BY <3>1 DEF Delivered
  <2>6. client'[c].session # "joined" => client'[c].version = 0
    BY <1>1, <2>1 DEF JoinerInv
  <2>7. QED
    BY <1>2, <1>5, <2>4, <2>5, <2>6 DEF JoinerInv
<1>7. Line(c)' = Line(c)
  BY <1>1, SameLine
<1>8. QED
  BY <1>1, <1>3, <1>4, <1>6, <1>7, ReadingKeeps

LEMMA SendStateOrders ==
  ASSUME IInv, IInv', LogInv, Answers, AnswersDiffer, NEW c \in Client,
         \A e \in Client : ListInvOf(e), SendState(c)
  PROVE  LogInv' /\ AnswersDiffer' /\ \A e \in Client : ListInvOf(e)'
<1>1. PICK m : m = FullState(task[c].list, task[c].version)
  OBVIOUS
<1>2. /\ task[c].at = "state" /\ UNCHANGED <<order, toServer, client, made, log>>
      /\ task'[c].at = "idle" /\ toClient'[c] = Append(toClient[c], m)
      /\ \A d \in Client : d # c => task'[d] = task[d] /\ toClient'[d] = toClient[d]
  BY <1>1 DEF SendState, SetTask, Deliver, IInv, FormInv, Idle
<1>3. m.type = "full_state" /\ m.list = task[c].list /\ m.version = task[c].version
  BY <1>1 DEF FullState
<1>4. ~HasAnswer(c) /\ ~HasAnswer(c)'
  BY <1>2 DEF HasAnswer
<1>5. Passing(c)
  <2>1. Taken(c)' = Taken(c)
    BY <1>2, TakenSame
  <2>2. QED
    BY <1>2, <1>4, <2>1 DEF Passing
<1>6. PICK h, q : /\ h = client[c].held /\ h = client'[c].held /\ q = toClient[c]
                  /\ IsSequence(h) /\ IsSequence(q) /\ toClient'[c] = Append(q, m)
  BY <1>2 DEF IInv, LocalInv, StoreInv
<1>7. Behind(Line(c), Line(c)', m)
  BY <1>6, LineGrows
<1>8. OnceInv(c)' /\ Coming(c)' = Coming(c)
  <2>1. OnceInv(c) /\ OwedBefore(c) /\ StillOwed(c)
    <3>1. ~Owed(c, c) /\ ~Owed(c, c)'
      BY <1>2 DEF Owed
    <3>2. \A d \in Client : d # c => (Owed(d, c)' <=> Owed(d, c)) /\ task'[d] = task[d]
      BY <1>2 DEF Owed
    <3>3. OwedBefore(c) /\ StillOwed(c)
      BY <3>1, <3>2 DEF OwedBefore, StillOwed
    <3>4. QED
      BY <3>3 DEF ListInvOf
  <2>2. QED
    BY <1>3, <1>7, <2>1, ComingBeforeState
<1>9. States(c)' = {Len(q) + 1} /\ toClient'[c][Len(q) + 1] = m
  <2>1. JoinInv(c) /\ Reading(c)
    BY <1>2 DEF IInv, LocalInv, Reading
  <2>2. States(c) = {}
    BY <2>1 DEF JoinInv
  <2>3. /\ toClient'[c][Len(q) + 1] = m
        /\ States(c)' = States(c) \cup {Len(q) + 1}
    <3>1. /\ IsSequence(q) /\ q = toClient[c] /\ toClient'[c] = Append(q, m)
          /\ m.type = "full_state"
      BY <1>3, <1>6
    <3>2. /\ toClient'[c][Len(q) + 1] = m
          /\ m.type = "full_state" => States(c)' = States(c) \cup {Len(q) + 1}
      BY <3>1, StatesBefore
    <3>3. QED
      BY <3>1, <3>2
  <2>4. QED
    BY <2>2, <2>3
<1>10. JoinerInv(c)'
  <2>1. JoinerInv(c)
    BY DEF ListInvOf
  <2>2. PICK l, v, M : /\ l = task[c].list /\ v = task[c].version /\ M = Coming(c)
                       /\ l = m.list /\ v = m.version /\ M = Coming(c)'
    BY <1>3, <1>8
  <2>3. StateOf(l, v) /\ Delivered(M, v)
    BY <1>2, <2>1, <2>2 DEF JoinerInv
  <2>4. StateOf(l, v)' /\ Delivered(M, v)'
    <3>1. \A w : ListAt(w)' = ListAt(w)
      BY <1>2 DEF ListAt
    <3>2. StateOf(l, v)'
      BY <2>3, <3>1 DEF StateOf
    <3>3. Delivered(M, v)'
      BY <1>2, <2>3 DEF Delivered
    <3>4. QED
      BY <3>2, <3>3
  <2>5. \A i \in States(c)' : /\ StateOf(toClient[c][i].list, toClient[c][i].version)'
                              /\ Delivered(Coming(c), toClient[c][i].version)'
    <3>1. ASSUME NEW i \in States(c)'
          PROVE  /\ StateOf(toClient[c][i].list, toClient[c][i].version)'
                 /\ Delivered(Coming(c), toClient[c][i].version)'
      <4>1. toClient'[c][i].list = l /\ toClient'[c][i].version = v
        BY <1>9, <2>2, <3>1
      <4>2. QED
        BY <2>2, <2>4, <4>1 DEF StateOf, Delivered
    <3>2. QED
      BY <3>1
  <2>6. client'[c].session # "joined" => client'[c].version = 0
    BY <1>2, <2>1 DEF JoinerInv
  <2>7. QED
    BY <1>2, <2>5, <2>6 DEF JoinerInv
<1>11. QED
  BY <1>2, <1>3, <1>4, <1>5, <1>7, <1>10, ReadingKeeps

----------------------------------------------------------------------------
(* A client receives.                                                      *)

\* What is on the line, by where it is.
Lined(l, h, q) ==
  /\ Len(h) \in Nat /\ Len(q) \in Nat /\ Len(l) = Len(h) + Len(q)
  /\ \A i \in 1..Len(h) : l[i] = h[i]
  /\ \A i \in 1..Len(q) : l[Len(h) + i] = q[i]

LEMMA LineIs ==
  ASSUME NEW c, NEW h, NEW q, IsSequence(h), IsSequence(q),
         h = client[c].held, q = toClient[c]
  PROVE  Lined(Line(c), h, q)
<1>1. IsSequence(h) /\ IsSequence(q)
  OBVIOUS
<1>2. /\ Len(Joined(h, q)) = Len(h) + Len(q)
      /\ \A i \in 1..Len(h) : Joined(h, q)[i] = h[i]
      /\ \A i \in 1..Len(q) : Joined(h, q)[Len(h) + i] = q[i]
  BY ONLY <1>1, JoinedIs
<1>3. Len(h) \in Nat /\ Len(q) \in Nat
  BY DEF IsSequence
<1>4. Line(c) = Joined(h, q)
  BY DEF Line
<1>5. QED
  BY <1>2, <1>3, <1>4 DEF Lined

\* Everything held back, and the next message, are handled.
LEMMA LineAdvances ==
  ASSUME NEW c, NEW h, NEW q, IsSequence(h), IsSequence(q), q # <<>>,
         h = client[c].held, q = toClient[c],
         toClient'[c] = Tail(q), client'[c].held = <<>>
  PROVE  Advanced(Line(c), Line(c)', Len(h) + 1)
<1>1. PICK r, a, b, l, k : /\ r = Tail(q) /\ r = toClient'[c] /\ a = Len(h) /\ b = Len(q)
                           /\ l = Joined(h, q) /\ k = Joined(<<>>, r)
                           /\ l = Line(c) /\ k = Line(c)'
  BY DEF Line, Joined
<1>2. a \in Nat /\ b \in Nat /\ b > 0
  BY <1>1, HeadOfSequence DEF IsSequence
<1>3. IsSequence(r) /\ Len(r) = b - 1 /\ \A i \in 1..b - 1 : r[i] = q[i + 1]
  BY <1>1, <1>2, TailIsSequence
<1>4. /\ Len(l) = a + b
      /\ \A i \in 1..a : l[i] = h[i]
      /\ \A i \in 1..b : l[a + i] = q[i]
  <2>1. IsSequence(h) /\ IsSequence(q)
    OBVIOUS
  <2>2. /\ Len(Joined(h, q)) = Len(h) + Len(q)
        /\ \A i \in 1..Len(h) : Joined(h, q)[i] = h[i]
        /\ \A i \in 1..Len(q) : Joined(h, q)[Len(h) + i] = q[i]
    BY ONLY <2>1, JoinedIs
  <2>3. QED
    BY <1>1, <2>2
<1>5. Len(k) = b - 1 /\ \A i \in 1..b - 1 : k[i] = r[i]
  <2>1. PICK e : e = <<>> /\ IsSequence(e) /\ Len(e) = 0
    <3>1. IsSequence(<<>>) /\ Len(<<>>) = 0
      BY DEF IsSequence
    <3>2. QED
      BY <3>1
  <2>2. IsSequence(e) /\ IsSequence(r)
    BY <1>3, <2>1
  <2>3. /\ Len(Joined(e, r)) = Len(e) + Len(r)
        /\ \A i \in 1..Len(r) : Joined(e, r)[Len(e) + i] = r[i]
    BY ONLY <2>2, JoinedIs
  <2>4. k = Joined(e, r)
    BY <1>1, <2>1
  <2>5. Len(k) = 0 + (b - 1) /\ \A i \in 1..b - 1 : k[0 + i] = r[i]
    BY <1>3, <2>1, <2>3, <2>4
  <2>6. \A i \in 1..b - 1 : 0 + i = i
    OBVIOUS
  <2>7. QED
    BY <1>2, <2>5, <2>6
<1>6. PICK n : n = a + 1
  OBVIOUS
<1>7. /\ Len(l) \in Nat /\ n \in 0..Len(l) /\ Len(k) = Len(l) - n /\ Len(l) - n = b - 1
  <2>1. a \in Nat /\ b \in Nat /\ b > 0 /\ n = a + 1 /\ Len(l) = a + b /\ Len(k) = b - 1
    BY <1>2, <1>4, <1>5, <1>6
  <2>2. QED
    BY ONLY <2>1
<1>8. ASSUME NEW i \in 1..b - 1
      PROVE  k[i] = l[i + n]
  <2>1. i + 1 \in 1..b /\ a + (i + 1) = i + n
    BY <1>2, <1>6
  <2>2. l[a + (i + 1)] = q[i + 1]
    BY <1>4, <2>1
  <2>3. QED
    BY <1>3, <1>5, <2>1, <2>2
<1>9. Advanced(l, k, n)
  BY <1>7, <1>8 DEF Advanced
<1>10. QED
  BY <1>1, <1>6, <1>9

\* The next message is held back.
LEMMA LineKept ==
  ASSUME NEW c, NEW h, NEW q, IsSequence(h), IsSequence(q), q # <<>>,
         h = client[c].held, q = toClient[c],
         toClient'[c] = Tail(q), client'[c].held = Append(h, q[1])
  PROVE  Advanced(Line(c), Line(c)', 0)
<1>1. PICK r, g, a, b, l, k :
        /\ r = Tail(q) /\ r = toClient'[c] /\ g = Append(h, q[1]) /\ g = client'[c].held
        /\ a = Len(h) /\ b = Len(q)
        /\ l = Joined(h, q) /\ k = Joined(g, r) /\ l = Line(c) /\ k = Line(c)'
  BY DEF Line, Joined
<1>2. a \in Nat /\ b \in Nat /\ b > 0
  BY <1>1, HeadOfSequence DEF IsSequence
<1>3. IsSequence(r) /\ Len(r) = b - 1 /\ \A i \in 1..b - 1 : r[i] = q[i + 1]
  BY <1>1, <1>2, TailIsSequence
<1>4. /\ IsSequence(g) /\ Len(g) = a + 1 /\ \A i \in 1..a : g[i] = h[i]
      /\ g[a + 1] = q[1]
  <2>1. PICK x : x = q[1]
    OBVIOUS
  <2>2. /\ IsSequence(Append(h, x)) /\ Len(Append(h, x)) = Len(h) + 1
        /\ \A i \in 1..Len(h) : Append(h, x)[i] = h[i]
        /\ Append(h, x)[Len(h) + 1] = x
    BY AppendIsSequence
  <2>3. QED
    BY <1>1, <2>1, <2>2
<1>5. /\ Len(l) = a + b
      /\ \A i \in 1..a : l[i] = h[i]
      /\ \A i \in 1..b : l[a + i] = q[i]
  <2>1. IsSequence(h) /\ IsSequence(q)
    OBVIOUS
  <2>2. /\ Len(Joined(h, q)) = Len(h) + Len(q)
        /\ \A i \in 1..Len(h) : Joined(h, q)[i] = h[i]
        /\ \A i \in 1..Len(q) : Joined(h, q)[Len(h) + i] = q[i]
    BY ONLY <2>1, JoinedIs
  <2>3. QED
    BY <1>1, <2>2
<1>6. /\ Len(k) = (a + 1) + (b - 1)
      /\ \A i \in 1..a + 1 : k[i] = g[i]
      /\ \A i \in 1..b - 1 : k[(a + 1) + i] = r[i]
  <2>1. IsSequence(g) /\ IsSequence(r)
    BY <1>3, <1>4
  <2>2. /\ Len(Joined(g, r)) = Len(g) + Len(r)
        /\ \A i \in 1..Len(g) : Joined(g, r)[i] = g[i]
        /\ \A i \in 1..Len(r) : Joined(g, r)[Len(g) + i] = r[i]
    BY ONLY <2>1, JoinedIs
  <2>3. QED
    BY <1>1, <1>3, <1>4, <2>2
<1>7. Len(l) \in Nat /\ 0 \in 0..Len(l) /\ Len(k) = Len(l) - 0 /\ Len(l) - 0 = a + b
  <2>1. /\ a \in Nat /\ b \in Nat /\ b > 0 /\ Len(l) = a + b
        /\ Len(k) = (a + 1) + (b - 1)
    BY <1>2, <1>5, <1>6
  <2>2. QED
    BY ONLY <2>1
<1>8. ASSUME NEW i \in 1..a + b
      PROVE  k[i] = l[i]
  <2>1. CASE i \in 1..a
    <3>1. i \in 1..a + 1
      BY <1>2, <2>1
    <3>2. QED
      BY <1>4, <1>5, <1>6, <2>1, <3>1
  <2>2. CASE i = a + 1
    <3>1. i \in 1..a + 1 /\ 1 \in 1..b
      BY <1>2, <2>2
    <3>2. l[a + 1] = q[1]
      BY <1>5, <3>1
    <3>3. QED
      BY <1>4, <1>6, <2>2, <3>1, <3>2
  <2>3. CASE i \in a + 2..a + b
    <3>1. PICK j : j = i - (a + 1) /\ j \in 1..b - 1 /\ j + 1 \in 1..b
                   /\ i = (a + 1) + j /\ i = a + (j + 1)
      <4>1. a \in Nat /\ b \in Nat /\ i \in a + 2..a + b
        BY <1>2, <2>3
      <4>2. /\ i - (a + 1) \in 1..b - 1 /\ (i - (a + 1)) + 1 \in 1..b
            /\ i = (a + 1) + (i - (a + 1)) /\ i = a + ((i - (a + 1)) + 1)
        BY ONLY <4>1
      <4>3. QED
        BY <4>2
    <3>2. k[(a + 1) + j] = r[j] /\ l[a + (j + 1)] = q[j + 1] /\ r[j] = q[j + 1]
      BY <1>3, <1>5, <1>6, <3>1
    <3>3. QED
      BY <3>1, <3>2
  <2>4. QED
    BY <1>2, <2>1, <2>2, <2>3
<1>9. \A i \in 1..Len(l) - 0 : k[i] = l[i + 0]
  <2>1. \A i \in 1..a + b : i + 0 = i
    BY <1>2
  <2>2. QED
    BY <1>7, <1>8, <2>1
<1>10. Advanced(l, k, 0)
  BY <1>7, <1>9 DEF Advanced
<1>11. QED
  BY <1>1, <1>10

\* The part of the invariant that is the same for all that is received.
LEMMA ReceivedStays ==
  ASSUME Later, Answers, AnswersDiffer, NEW c \in Client, ListInvOf(c),
         UNCHANGED <<order, task>>, OnceInv(c)', Coming(c)' \subseteq Coming(c),
         NEW t, t = client'[c], NEW N, N = Coming(c)',
         \A i \in 1..Len(t.held) : t.held[i].type # "full_state",
         t.session = "joined" => t.held = <<>>,
         Fitting(c, t, N),
         t.session = "joined" /\ ~t.astray => Tracking(t, N),
         JoinerInv(c)', OwnInv(c)'
  PROVE  ListInvOf(c)'
<1>1. MessagesInv(c)'
  <2>1. Messages(Coming(c))
    BY ComingAreMessages DEF ListInvOf, Answers
  <2>2. \A m \in Coming(c)' : Message(m)'
    BY <2>1, LaterMessage DEF Messages
  <2>3. \A i \in Ops(c)' : Message(Line(c)[i])'
    BY <2>2, MessagesFrom
  <2>4. HasAnswer(c)' => Message(task[c].message)'
    BY TasksSame DEF Answers
  <2>5. QED
    BY <2>3, <2>4 DEF MessagesInv
<1>2. StoreOrderly(c)'
  <2>1. Orderly(c, t, N)'
    <3>1. \A m \in N \ N :
            m.author # c /\ m.type = "cell_insert" /\ m.version > t.version =>
              m.cell \notin Known(t)
      OBVIOUS
    <3>2. QED
      BY <3>1, LaterFits
  <2>2. ASSUME t.session = "joined", ~t.astray
        PROVE  Tracking(t, N)'
    <3>1. t.version \in Nat
      BY DEF Fitting, Stored
    <3>2. \A w \in order.version + 1..order'.version : \E m \in N : m.version = w
      <4>1. order.version + 1..order'.version = {}
        BY DEF Later
      <4>2. QED
        BY <4>1
    <3>3. Tracking(t, N) /\ N \subseteq N
      BY <2>2
    <3>4. QED
      BY <3>1, <3>2, <3>3, LaterTracks
  <2>3. QED
    BY <2>1, <2>2 DEF StoreOrderly
<1>3. QED
  BY <1>1, <1>2 DEF ListInvOf

\* A client that has joined is neither sent nor about to be sent a state.
LEMMA JoinedJoiner ==
  ASSUME NEW c \in Client, JoinInv(c)', client'[c].session = "joined"
  PROVE  JoinerInv(c)'
<1>1. States(c)' = {} /\ ~Reading(c)'
  BY DEF JoinInv
<1>2. QED
  BY <1>1 DEF JoinerInv, Reading

LEMMA OwnFewer ==
  ASSUME NEW c \in Client, OwnInv(c), toServer'[c] = toServer[c],
         client'[c].pending = client[c].pending, Coming(c)' \subseteq Coming(c)
  PROVE  OwnInv(c)'
BY DEF OwnInv

\* The echo is that of the first pending operation, and it alone.
LEMMA EchoOfFirst ==
  ASSUME IInv, NEW c \in Client, ListInvOf(c), 1 \in Owns(c),
         client[c].session = "joined", NEW m, m = toClient[c][1], m \in Coming(c)
  PROVE  /\ Acknowledges(m, client[c]) /\ ~ (m.version <= client[c].version)
         /\ m.id = <<c, Settled(c) + 1>> /\ Settled(c) \in Nat
         /\ \A k \in 1..Len(client[c].pending) :
              client[c].pending[k].id = <<c, Settled(c) + k>>
<1>1. FormInv /\ LocalInv(c) /\ EchoesInv(c) /\ VersionsInv(c) /\ OwnInv(c)
  BY DEF IInv, LocalInv, ListInvOf
<1>2. /\ m.id = <<c, Settled(c) + 1>> /\ Len(client[c].pending) > 0
  BY <1>1, FirstEcho
<1>3. /\ Settled(c) \in Nat
      /\ \A k \in 1..Len(client[c].pending) :
           client[c].pending[k].id = <<c, Settled(c) + k>>
  BY <1>1 DEF EchoesInv
<1>4. ~ (m.version <= client[c].version) /\ m.author = c
  BY <1>1 DEF VersionsInv, NewerThan, Owns, IsOwn
<1>5. PICK p, a : p = client[c].pending /\ a = Settled(c)
  OBVIOUS
<1>6. PICK k \in 1..Len(p) : p[k].id = m.id /\ p[k].cell = m.cell /\ p[k].type = m.type
  BY <1>1, <1>4, <1>5 DEF OwnInv
<1>7. k = 1
  <2>1. Len(p) \in Nat
    BY <1>1, <1>5 DEF LocalInv, StoreInv, IsSequence
  <2>2. <<c, a + k>> = <<c, a + 1>> /\ a \in Nat /\ k \in Nat
    BY <1>2, <1>3, <1>5, <1>6, <2>1
  <2>3. a + k = a + 1
    BY <2>2
  <2>4. QED
    BY <2>2, <2>3
<1>8. Acknowledges(m, client[c])
  BY <1>2, <1>5, <1>6, <1>7 DEF Acknowledges
<1>9. QED
  BY <1>2, <1>3, <1>4, <1>8

\* What is pending after the echo has come is what is requested or on its way.
LEMMA OwnAfterEcho ==
  ASSUME IInv, NEW c \in Client, ListInvOf(c), 1 \in Owns(c),
         client[c].session = "joined", NEW m, m = toClient[c][1], m \in Coming(c),
         UNCHANGED toServer, client'[c].pending = Tail(client[c].pending),
         Coming(c)' = Coming(c) \ {m}
  PROVE  OwnInv(c)'
<1>1. FormInv /\ LocalInv(c) /\ EchoesInv(c) /\ RequestsInv(c) /\ TaskInv(c) /\ OwnInv(c)
      /\ MessagesInv(c)
  BY DEF IInv, LocalInv, ListInvOf
<1>2. PICK p, t, a, n : /\ p = client[c].pending /\ t = client'[c].pending /\ t = Tail(p)
                        /\ a = Settled(c) /\ n = Len(p)
  OBVIOUS
<1>3. /\ m.id = <<c, a + 1>> /\ a \in Nat
      /\ \A k \in 1..n : p[k].id = <<c, a + k>>
      /\ n > 0
  BY <1>2, EchoOfFirst DEF Acknowledges
<1>4. /\ IsSequence(p) /\ n \in Nat /\ Len(t) = n - 1
      /\ \A k \in 1..n - 1 : t[k] = p[k + 1]
  <2>1. IsSequence(p) /\ n \in Nat
    BY <1>1, <1>2 DEF LocalInv, StoreInv, IsSequence
  <2>2. QED
    BY <1>2, <1>3, <2>1, TailIsSequence
<1>5. ASSUME NEW k \in 1..n, p[k].id # <<c, a + 1>>
      PROVE  \E j \in 1..Len(t) : t[j] = p[k]
  <2>1. k # 1
    BY <1>3, <1>5
  <2>2. k - 1 \in 1..n - 1 /\ k = (k - 1) + 1
    BY <1>4, <2>1
  <2>3. QED
    BY <1>4, <2>2
<1>6. /\ Echoed(c) \in Int /\ a + 1 <= Echoed(c) /\ Taken(c) \in Int /\ made[c] \in Nat
      /\ Echoed(c) = IF Sending(c) THEN Taken(c) - 1 ELSE Taken(c)
  <2>1. a + 1 <= Echoed(c) /\ Echoed(c) \in Int
    BY <1>1, <1>2, FirstEcho
  <2>2. QED
    BY <1>1, <2>1, NumbersOf
<1>7. a + 1 <= Taken(c) /\ (Sending(c) => a + 1 < Taken(c))
  BY <1>3, <1>6
<1>8. ASSUME NEW i \in 1..Len(toServer[c]), toServer[c][i].type # "join"
      PROVE  \E k \in 1..Len(t) : t[k] = toServer[c][i]
  <2>1. PICK k \in 1..n : p[k] = toServer[c][i]
    BY <1>1, <1>2, <1>8 DEF OwnInv
  <2>2. PICK z : z = Len(toServer[c]) /\ z \in Nat
    BY <1>1 DEF LocalInv, StoreInv, IsSequence
  <2>3. toServer[c][i].id = <<c, made[c] - z + i>>
    BY <1>1, <1>8, <2>2 DEF RequestsInv, HasJoin
  <2>4. Taken(c) = (IF HasJoin(c) THEN made[c] - z + 1 ELSE made[c] - z)
    BY <1>1, <2>2, NumbersOf
  <2>5. HasJoin(c) => i # 1
    BY <1>8 DEF HasJoin
  <2>6. Taken(c) < made[c] - z + i
    BY <1>6, <2>2, <2>4, <2>5
  <2>7. a + 1 # made[c] - z + i
    BY <1>3, <1>6, <1>7, <2>2, <2>6
  <2>8. p[k].id # <<c, a + 1>>
    BY <2>1, <2>3, <2>7
  <2>9. QED
    BY <1>5, <2>1, <2>8
<1>9. ASSUME NEW x \in Coming(c), x # m, x.author = c
      PROVE  x.id # <<c, a + 1>>
  <2>1. PICK l : l = Line(c)
    OBVIOUS
  <2>2. \/ \E i \in OpsOf(l) : x = l[i]
        \/ \E d \in Client : Owed(d, c) /\ x = task[d].message
    BY <2>1, ComingParts
  <2>3. CASE \E i \in OpsOf(l) : x = l[i]
    <3>1. PICK i \in OpsOf(l) : x = l[i]
      BY <2>3
    <3>2. i \in 1..Len(toClient[c]) /\ x = toClient[c][i] /\ i \in Nat \ {0}
      <4>1. PICK q : q = toClient[c] /\ IsSequence(q) /\ Len(q) \in Nat
        BY <1>1 DEF LocalInv, StoreInv, IsSequence
      <4>2. PICK e : e = <<>> /\ e = client[c].held
        BY <1>1 DEF MessagesInv
      <4>3. IsSequence(e) /\ Len(e) = 0
        BY <4>2 DEF IsSequence
      <4>4. IsSequence(e) /\ IsSequence(q) /\ e = client[c].held /\ q = toClient[c]
        BY <4>1, <4>2, <4>3
      <4>5. Lined(Line(c), e, q)
        BY <4>4, LineIs
      <4>6. Lined(l, e, q)
        BY <2>1, <4>5
      <4>7. Len(l) = 0 + Len(q) /\ \A j \in 1..Len(q) : l[0 + j] = q[j]
        BY <4>3, <4>6 DEF Lined
      <4>8. i \in 1..Len(q) /\ 0 + i = i /\ i \in Nat \ {0}
        <5>1. i \in 1..Len(l)
          BY <3>1 DEF OpsOf
        <5>2. QED
          BY <4>1, <4>7, <5>1
      <4>9. QED
        BY <3>1, <4>1, <4>7, <4>8
    <3>3. i \in Owns(c)
      BY <1>9, <3>1, <3>2 DEF Owns, IsOwn, OpsOf
    <3>4. 1 < i
      BY <1>9, <3>2
    <3>5. toClient[c][1].id[2] < toClient[c][i].id[2]
      BY <1>1, <3>3, <3>4 DEF EchoesInv
    <3>6. a + 1 < x.id[2]
      BY <1>3, <3>2, <3>5
    <3>7. ASSUME x.id = <<c, a + 1>>
          PROVE  FALSE
      <4>1. a + 1 < a + 1
        BY <3>6, <3>7
      <4>2. QED
        BY <1>3, <4>1
    <3>8. QED
      BY <3>7
  <2>4. CASE \E d \in Client : Owed(d, c) /\ x = task[d].message
    <3>1. PICK d \in Client : Owed(d, c) /\ x = task[d].message
      BY <2>4
    <3>2. TaskInv(d) /\ HasAnswer(d)
      BY <3>1 DEF IInv, LocalInv, Owed, HasAnswer
    <3>3. d = c
      BY <1>9, <3>1, <3>2 DEF TaskInv
    <3>4. Sending(c)
      BY <3>1, <3>3 DEF Owed, Sending
    <3>5. x.id = <<c, Taken(c)>>
      BY <1>1, <3>1, <3>3, <3>4 DEF EchoesInv
    <3>6. a + 1 # Taken(c)
      BY <1>3, <1>6, <1>7, <3>4
    <3>7. QED
      BY <3>5, <3>6
  <2>5. QED
    BY <2>2, <2>3, <2>4
<1>10. ASSUME NEW x \in Coming(c)', x.author = c
       PROVE  \E k \in 1..Len(t) : t[k].id = x.id /\ t[k].cell = x.cell /\ t[k].type = x.type
  <2>1. x \in Coming(c) /\ x # m
    BY <1>10
  <2>2. x.id # <<c, a + 1>>
    BY <1>9, <1>10, <2>1
  <2>3. PICK k \in 1..n : p[k].id = x.id /\ p[k].cell = x.cell /\ p[k].type = x.type
    BY <1>1, <1>2, <1>10, <2>1 DEF OwnInv
  <2>4. PICK j \in 1..Len(t) : t[j] = p[k]
    BY <1>5, <2>2, <2>3
  <2>5. QED
    BY <2>3, <2>4
<1>11. \A i \in 1..Len(toServer'[c]) :
         toServer'[c][i].type # "join" => \E k \in 1..Len(t) : t[k] = toServer'[c][i]
  BY <1>8
<1>12. \A x \in Coming(c)' : x.author = c =>
         \E k \in 1..Len(t) : t[k].id = x.id /\ t[k].cell = x.cell /\ t[k].type = x.type
  BY <1>10
<1>13. t = client'[c].pending
  BY <1>2
<1>14. QED
  BY ONLY <1>11, <1>12, <1>13 DEF OwnInv

LEMMA OperationOrders ==
  ASSUME IInv, IInv', LogInv, Later, Answers, AnswersDiffer, NEW c \in Client,
         ListInvOf(c), NEW m, m = Head(toClient[c]), toClient[c] # <<>>,
         m.type # "full_state", client[c].session = "joined",
         client'[c] = Noted(c, client[c], m), toClient'[c] = Tail(toClient[c]),
         UNCHANGED <<order, task, toServer, made, log>>
  PROVE  ListInvOf(c)'
<1>1. /\ FormInv /\ LocalInv(c) /\ OnceInv(c) /\ MessagesInv(c) /\ StoreOrderly(c)
      /\ OwnInv(c) /\ order.version \in Nat /\ JoinInv(c)'
  BY DEF IInv, LocalInv, FormInv, ListInvOf
<1>2. PICK s, t, M, h, q : /\ s = client[c] /\ t = client'[c] /\ M = Coming(c)
                           /\ h = s.held /\ q = toClient[c] /\ h = <<>>
  BY <1>1 DEF MessagesInv
<1>3. IsSequence(q) /\ IsSequence(h) /\ m = q[1] /\ Len(h) = 0
  BY <1>1, <1>2 DEF LocalInv, StoreInv
<1>4. Fitting(c, s, M) /\ (~s.astray => Tracking(s, M))
  BY <1>1, <1>2, StoreFits DEF LocalInv, StoreOrderly
<1>5. Messages(M)
  BY <1>1, <1>2, ComingAreMessages DEF Answers
<1>6. PICK l : l = Line(c)
  OBVIOUS
<1>7. t.held = <<>> /\ t.session = "joined"
  <2>1. PICK u : u = Handled(c, s, m)
    OBVIOUS
  <2>2. u = s \/ u = OwnEcho(s, m) \/ u = ForeignOperation(s, m)
    BY <2>1 DEF Handled
  <2>3. DOMAIN s = StoreFields
    BY <1>4 DEF Fitting, Stored
  <2>4. DOMAIN u = StoreFields /\ u.held = s.held /\ u.session = s.session
    <3>1. CASE u = s
      BY <2>3, <3>1
    <3>2. CASE u = OwnEcho(s, m)
      BY <2>3, <3>2 DEF OwnEcho, StoreFields
    <3>3. CASE u = ForeignOperation(s, m)
      BY <2>3, <3>3 DEF ForeignOperation, StoreFields
    <3>4. QED
      BY <2>2, <3>1, <3>2, <3>3
  <2>5. Noted(c, s, m).held = u.held /\ Noted(c, s, m).session = u.session
    BY <2>1, <2>4, NotedFields
  <2>6. QED
    BY <1>2, <2>4, <2>5
<1>8. /\ Advanced(l, Line(c)', 1) /\ l[1] = m
  <2>1. /\ Advanced(Line(c), Line(c)', Len(h) + 1) /\ Line(c)[Len(h) + 1] = q[1]
    <3>1. /\ IsSequence(h) /\ IsSequence(q) /\ q # <<>> /\ h = client[c].held
          /\ q = toClient[c] /\ toClient'[c] = Tail(q) /\ client'[c].held = <<>>
      BY <1>2, <1>3, <1>7
    <3>2. Advanced(Line(c), Line(c)', Len(h) + 1)
      BY <3>1, LineAdvances
    <3>3. Lined(Line(c), h, q)
      BY <3>1, LineIs
    <3>4. 1 \in 1..Len(q)
      BY <3>1, HeadOfSequence DEF IsSequence
    <3>5. QED
      BY <3>2, <3>3, <3>4 DEF Lined
  <2>2. QED
    BY <1>3, <1>6, <2>1
<1>9. OpsOf(l) \cap (1..1) = {1}
  BY <1>8 DEF Advanced, OpsOf
<1>10. OnceInv(c)' /\ Coming(c)' = M \ {m} /\ m \in M
  <2>1. OwedBefore(c) /\ StillOwed(c)
    BY OwedSame
  <2>2. Advanced(Line(c), Line(c)', 1)
    BY <1>6, <1>8
  <2>3. /\ OnceInv(c)'
        /\ Coming(c)' = Coming(c) \ {l[i] : i \in OpsOf(l) \cap (1..1)}
    BY <1>1, <1>6, <2>1, <2>2, ComingReceived
  <2>4. {l[i] : i \in OpsOf(l) \cap (1..1)} = {m}
    BY <1>8, <1>9
  <2>5. m \in M
    BY <1>2, <1>6, <1>8, <1>9, ComingParts
  <2>6. QED
    BY <1>2, <2>3, <2>4, <2>5
<1>11. m.author = c => 1 \in Owns(c) /\ m = toClient[c][1]
  <2>1. 1 \in 1..Len(q)
    BY <1>2, <1>3, HeadOfSequence DEF IsSequence
  <2>2. QED
    BY <1>2, <1>3, <2>1 DEF Owns, IsOwn
<1>12. PICK N : N = M \ {m} /\ N = Coming(c)'
  BY <1>10
<1>13. ASSUME m.author = c
       PROVE  Acknowledges(m, s) /\ ~ (m.version <= s.version)
  BY <1>2, <1>10, <1>11, <1>13, EchoOfFirst
<1>14. Fitting(c, t, N) /\ (~t.astray => Tracking(t, N))
  <2>1. CASE m.author # c
    <3>1. Fitting(c, Noted(c, s, m), M \ {m})
      BY <1>1, <1>4, <1>5, <1>10, <2>1, ForeignOrderly
    <3>2. ~Noted(c, s, m).astray => Tracking(Noted(c, s, m), M \ {m})
      BY <1>1, <1>4, <1>5, <1>10, <2>1, ForeignTracks
    <3>3. QED
      BY <1>2, <1>12, <3>1, <3>2
  <2>2. CASE m.author = c
    <3>1. Fitting(c, Noted(c, s, m), M \ {m})
      BY <1>4, <1>5, <1>10, <1>13, <2>2, OwnOrderly
    <3>2. ~Noted(c, s, m).astray => Tracking(Noted(c, s, m), M \ {m})
      BY <1>1, <1>4, <1>5, <1>10, <1>13, <2>2, OwnTracks
    <3>3. QED
      BY <1>2, <1>12, <3>1, <3>2
  <2>3. QED
    BY <2>1, <2>2
<1>15. OwnInv(c)'
  <2>1. CASE m.author # c
    <3>1. Like(s, Noted(c, s, m))
      <4>1. DOMAIN s = StoreFields
        BY <1>4 DEF Fitting, Stored
      <4>2. QED
        BY <2>1, <4>1, NotedForeign
    <3>2. client'[c].pending = client[c].pending
      BY <1>2, <3>1 DEF Like
    <3>3. QED
      BY <1>1, <1>2, <1>10, <3>2, OwnFewer
  <2>2. CASE m.author = c
    <3>1. Noted(c, s, m).pending = Tail(s.pending)
      <4>1. /\ Fitting(c, s, M) /\ Messages(M) /\ m \in M /\ m.author = c
            /\ Acknowledges(m, s) /\ ~ (m.version <= s.version) /\ c \in Client
        BY <1>4, <1>5, <1>10, <1>13, <2>2
      <4>2. LET x == Noted(c, s, m)
            IN  /\ Fitting(c, x, M \ {m}) /\ DOMAIN x = StoreFields
                /\ x.version = s.version /\ x.session = s.session /\ x.held = s.held
                /\ x.pending = Tail(s.pending)
        BY ONLY <4>1, OwnOrderly
      <4>3. QED
        BY <4>2
    <3>2. client'[c].pending = Tail(client[c].pending)
      BY <1>2, <3>1
    <3>3. QED
      BY <1>2, <1>10, <1>11, <2>2, <3>2, OwnAfterEcho
  <2>3. QED
    BY <2>1, <2>2
<1>16. JoinerInv(c)'
  BY <1>1, <1>2, <1>7, JoinedJoiner
<1>17. QED
  <2>1. /\ (t.session = "joined" /\ ~t.astray => Tracking(t, N))
        /\ 1..Len(t.held) = {} /\ Coming(c)' \subseteq Coming(c)
    BY <1>2, <1>7, <1>10, <1>14
  <2>2. QED
    BY <1>2, <1>7, <1>10, <1>12, <1>14, <1>15, <1>16, <2>1, ReceivedStays

LEMMA HeldOrders ==
  ASSUME IInv, IInv', LogInv, Later, Answers, AnswersDiffer, NEW c \in Client,
         ListInvOf(c), NEW m, m = Head(toClient[c]), toClient[c] # <<>>,
         m.type # "full_state", client[c].session # "joined",
         client'[c] = [client[c] EXCEPT !.held = Append(client[c].held, m)],
         toClient'[c] = Tail(toClient[c]),
         UNCHANGED <<order, task, toServer, made, log>>
  PROVE  ListInvOf(c)'
<1>1. /\ FormInv /\ LocalInv(c) /\ OnceInv(c) /\ MessagesInv(c) /\ StoreOrderly(c)
      /\ OwnInv(c) /\ JoinerInv(c) /\ order.version \in Nat
  BY DEF IInv, LocalInv, FormInv, ListInvOf
<1>2. PICK s, t, M, h, q, l : /\ s = client[c] /\ t = client'[c] /\ M = Coming(c)
                              /\ h = s.held /\ q = toClient[c] /\ l = Line(c)
  OBVIOUS
<1>3. IsSequence(q) /\ IsSequence(h) /\ m = q[1] /\ DOMAIN s = StoreFields
  BY <1>1, <1>2 DEF LocalInv, StoreInv
<1>4. Fitting(c, s, M)
  BY <1>1, <1>2, StoreFits DEF LocalInv
<1>5. /\ SameStore(s, t) /\ t.session = s.session /\ t.held = Append(h, m)
  BY <1>2, <1>3 DEF SameStore, StoreFields
<1>6. Advanced(l, Line(c)', 0)
  <2>1. /\ IsSequence(h) /\ IsSequence(q) /\ q # <<>> /\ h = client[c].held
        /\ q = toClient[c] /\ toClient'[c] = Tail(q) /\ client'[c].held = Append(h, q[1])
    BY <1>2, <1>3, <1>5
  <2>2. Advanced(Line(c), Line(c)', 0)
    BY ONLY <2>1, LineKept
  <2>3. QED
    BY <1>2, <2>2
<1>7. OnceInv(c)' /\ Coming(c)' = M
  <2>1. OwedBefore(c) /\ StillOwed(c)
    BY OwedSame
  <2>2. Advanced(Line(c), Line(c)', 0)
    BY <1>2, <1>6
  <2>3. /\ OnceInv(c)'
        /\ Coming(c)' = Coming(c) \ {l[i] : i \in OpsOf(l) \cap (1..0)}
    BY <1>1, <1>2, <2>1, <2>2, ComingReceived
  <2>4. {l[i] : i \in OpsOf(l) \cap (1..0)} = {}
    OBVIOUS
  <2>5. QED
    BY <1>2, <2>3, <2>4
<1>8. \A i \in 1..Len(t.held) : t.held[i].type # "full_state"
  <2>1. PICK g : g = Append(h, m) /\ g = t.held
    BY <1>5
  <2>2. /\ Len(g) = Len(h) + 1 /\ Len(h) \in Nat
        /\ \A i \in 1..Len(h) : g[i] = h[i]
        /\ g[Len(h) + 1] = m
    <3>1. /\ Len(Append(h, m)) = Len(h) + 1
          /\ \A i \in 1..Len(h) : Append(h, m)[i] = h[i]
          /\ Append(h, m)[Len(h) + 1] = m
      BY <1>3, AppendIsSequence
    <3>2. QED
      BY <1>3, <2>1, <3>1 DEF IsSequence
  <2>3. \A i \in 1..Len(h) : h[i].type # "full_state"
    BY <1>1, <1>2 DEF MessagesInv
  <2>4. \A i \in 1..Len(g) : i \in 1..Len(h) \/ i = Len(h) + 1
    BY <2>2
  <2>5. QED
    BY <2>1, <2>2, <2>3, <2>4
<1>9. MovedUp(c) /\ 1 \notin States(c)
  BY <1>1, MessagesMoveUp
<1>10. \A w : ListAt(w)' = ListAt(w)
  BY DEF ListAt
<1>11. JoinerInv(c)'
  <2>1. client'[c].session # "joined" => client'[c].version = 0
    BY <1>1, <1>2, <1>5 DEF JoinerInv, SameStore
  <2>2. task'[c].at = "version" => StateOf(task[c].list, order.version)'
    BY <1>1, <1>10 DEF JoinerInv, StateOf
  <2>3. task'[c].at = "state" => /\ StateOf(task[c].list, task[c].version)'
                                 /\ Delivered(Coming(c), task[c].version)'
    <3>1. ASSUME task'[c].at = "state"
          PROVE  /\ StateOf(task[c].list, task[c].version)
                 /\ Delivered(Coming(c), task[c].version)
      BY <1>1, <3>1 DEF JoinerInv
    <3>2. QED
      BY <1>2, <1>7, <1>10, <3>1 DEF StateOf, Delivered
  <2>4. ASSUME NEW i \in States(c)'
        PROVE  /\ StateOf(toClient[c][i].list, toClient[c][i].version)'
               /\ Delivered(Coming(c), toClient[c][i].version)'
    <3>1. i + 1 \in States(c) /\ toClient'[c][i] = toClient[c][i + 1]
      BY <1>9, <2>4 DEF MovedUp
    <3>2. PICK x, v : /\ x = toClient[c][i + 1].list /\ v = toClient[c][i + 1].version
                      /\ x = toClient'[c][i].list /\ v = toClient'[c][i].version
      BY <3>1
    <3>3. StateOf(x, v) /\ Delivered(M, v)
      BY <1>1, <1>2, <3>1, <3>2 DEF JoinerInv
    <3>4. StateOf(x, v)' /\ Delivered(M, v)'
      BY <1>10, <3>3 DEF StateOf, Delivered
    <3>5. QED
      BY <1>7, <3>2, <3>4 DEF StateOf, Delivered
  <2>5. QED
    BY <2>1, <2>2, <2>3, <2>4 DEF JoinerInv
<1>12. OwnInv(c)'
  <2>1. client'[c].pending = client[c].pending
    BY <1>2, <1>5 DEF SameStore
  <2>2. Coming(c)' \subseteq Coming(c) /\ toServer'[c] = toServer[c]
    BY <1>2, <1>7
  <2>3. QED
    BY <1>1, <2>1, <2>2, OwnFewer
<1>13. QED
  <2>1. Fitting(c, t, M) /\ t.session # "joined" /\ Coming(c)' \subseteq Coming(c)
    <3>1. Fitting(c, t, M)
      BY <1>4, <1>5, SameFits
    <3>2. QED
      BY <1>2, <1>5, <1>7, <3>1
  <2>2. QED
    BY <1>2, <1>7, <1>8, <1>11, <1>12, <2>1, ReceivedStays

LEMMA StateOrders ==
  ASSUME IInv, IInv', LogInv, Later, Answers, AnswersDiffer, NEW c \in Client,
         ListInvOf(c), NEW m, m = Head(toClient[c]), toClient[c] # <<>>,
         ReceiveFullState(c, m), toClient'[c] = Tail(toClient[c]),
         UNCHANGED <<order, task, toServer, made, log>>
  PROVE  ListInvOf(c)'
<1>1. /\ FormInv /\ LocalInv(c) /\ OnceInv(c) /\ MessagesInv(c) /\ StoreOrderly(c)
      /\ OwnInv(c) /\ JoinerInv(c) /\ order.version \in Nat /\ JoinInv(c)'
      /\ JoinInv(c) /\ VersionsInv(c)
  BY DEF IInv, LocalInv, FormInv, ListInvOf
<1>2. PICK s, t, M, h, q, l : /\ s = client[c] /\ t = client'[c] /\ M = Coming(c)
                              /\ h = s.held /\ q = toClient[c] /\ l = Line(c)
  OBVIOUS
<1>3. IsSequence(q) /\ IsSequence(h) /\ Len(h) \in Nat /\ m = q[1] /\ DOMAIN s = StoreFields
  BY <1>1, <1>2 DEF LocalInv, StoreInv, IsSequence
<1>4. Fitting(c, s, M) /\ Messages(M)
  <2>1. Fitting(c, s, M)
    BY <1>1, <1>2, StoreFits DEF LocalInv
  <2>2. Messages(M)
    BY <1>1, <1>2, ComingAreMessages DEF Answers
  <2>3. QED
    BY <2>1, <2>2
<1>5. 1 \in States(c) /\ toClient[c][1] = m /\ m.type = "full_state"
  <2>1. m.type = "full_state"
    BY DEF ReceiveFullState
  <2>2. QED
    BY <1>1, <2>1, MessagesMoveUp
<1>6. /\ s.session = "joining" /\ s.version = 0
      /\ m.version \in 0..order.version /\ StateOf(m.list, m.version)
      /\ Delivered(M, m.version)
  BY <1>1, <1>2, <1>5 DEF JoinInv, JoinerInv, VersionsInv
<1>7. PICK u : /\ u = [s EXCEPT !.session = "joined", !.list = m.list,
                                !.cells = Ids(m.list), !.version = m.version,
                                !.held = <<>>, !.seen = m.version,
                                !.astray = TornState(s, m)]
               /\ t = Replayed(c, u, h)
  BY <1>1, <1>2 DEF ReceiveFullState, FormInv
<1>8. /\ DOMAIN u = StoreFields /\ u.session = "joined" /\ u.list = m.list
      /\ u.cells = Ids(m.list) /\ u.version = m.version /\ u.held = <<>>
      /\ u.seen = m.version /\ u.astray = TornState(s, m) /\ u.pending = s.pending
  BY <1>3, <1>7 DEF StoreFields
<1>9. Fitting(c, u, M)
  BY <1>1, <1>4, <1>6, <1>8, StateFits
<1>10. ~u.astray => Tracking(u, M)
  <2>1. ASSUME ~TornState(s, m)
        PROVE  Tracking(u, M)
    <3>1. PICK v : v = m.version /\ v \in 0..order.version /\ Delivered(M, v)
      BY <1>6
    <3>2. /\ u.list = ListAt(v) /\ u.cells = Ids(u.list) /\ u.pending = <<>>
          /\ u.version = v /\ u.seen = v
      BY <1>8, <2>1, <3>1 DEF TornState
    <3>3. QED
      BY <1>1, <3>1, <3>2, StateTracks
  <2>2. QED
    BY <1>8, <2>1
<1>11. Lined(l, h, q)
  <2>1. /\ IsSequence(h) /\ IsSequence(q) /\ h = client[c].held /\ q = toClient[c]
    BY <1>2, <1>3
  <2>2. Lined(Line(c), h, q)
    BY <2>1, LineIs
  <2>3. QED
    BY <1>2, <2>2
<1>12. \A i \in 1..Len(h) : i \in OpsOf(l) /\ h[i] = l[i]
  <2>1. \A i \in 1..Len(h) : i \in 1..Len(l) /\ h[i] = l[i]
    BY <1>11 DEF Lined
  <2>2. \A i \in 1..Len(h) : h[i].type # "full_state"
    BY <1>1, <1>2 DEF MessagesInv
  <2>3. QED
    BY <2>1, <2>2 DEF OpsOf
<1>13. /\ \A x : x \in M <=> \/ \E i \in OpsOf(l) : x = l[i]
                             \/ \E d \in Client : Owed(d, c) /\ x = task[d].message
       /\ \A i, j \in OpsOf(l) : l[i].version = l[j].version => i = j
  BY <1>1, <1>2, ComingParts
<1>14. /\ \A i \in 1..Len(h) : h[i] \in M /\ h[i].author # c
       /\ \A i, j \in 1..Len(h) : h[i].version = h[j].version => i = j
  <2>1. \A i \in 1..Len(h) : h[i].author # c
    BY <1>1, <1>2 DEF JoinInv
  <2>2. QED
    BY <1>12, <1>13, <2>1
<1>15. PICK N : N = M \ {h[i] : i \in 1..Len(h)}
  OBVIOUS
<1>16. Fitting(c, t, N) /\ (~t.astray => Tracking(t, N))
  <2>1. /\ LogInv /\ order.version \in Nat /\ c \in Client /\ Fitting(c, u, M)
        /\ Messages(M) /\ (~u.astray => Tracking(u, M)) /\ Len(h) \in Nat
        /\ \A i \in 1..Len(h) : h[i] \in M /\ h[i].author # c
        /\ \A i, j \in 1..Len(h) : h[i].version = h[j].version => i = j
    BY <1>1, <1>3, <1>4, <1>9, <1>10, <1>14
  <2>2. LET x == Replayed(c, u, h)
            P == M \ {h[i] : i \in 1..Len(h)}
        IN  Fitting(c, x, P) /\ (~x.astray => Tracking(x, P))
    BY ONLY <2>1, ReplayFits
  <2>3. QED
    BY <1>7, <1>15, <2>2
<1>17. Like(u, t)
  BY <1>3, <1>7, <1>8, <1>14, ReplayKeeps
<1>18. t.session = "joined" /\ t.held = <<>> /\ t.pending = s.pending
  BY <1>8, <1>17 DEF Like
<1>19. OnceInv(c)' /\ Coming(c)' = N
  <2>1. PICK n : n = Len(h) + 1
    OBVIOUS
  <2>2. Advanced(Line(c), Line(c)', n)
    <3>1. /\ IsSequence(h) /\ IsSequence(q) /\ q # <<>> /\ h = client[c].held
          /\ q = toClient[c] /\ toClient'[c] = Tail(q) /\ client'[c].held = <<>>
      BY <1>2, <1>3, <1>18
    <3>2. Advanced(Line(c), Line(c)', Len(h) + 1)
      BY <3>1, LineAdvances
    <3>3. QED
      BY <2>1, <3>2
  <2>3. OwedBefore(c) /\ StillOwed(c)
    BY OwedSame
  <2>4. /\ OnceInv(c)'
        /\ Coming(c)' = Coming(c) \ {l[i] : i \in OpsOf(l) \cap (1..n)}
    BY <1>1, <1>2, <2>2, <2>3, ComingReceived
  <2>5. n \notin OpsOf(l)
    <3>1. 1 \in 1..Len(q)
      BY <1>2, <1>3, HeadOfSequence DEF IsSequence
    <3>2. l[n] = m
      BY <1>3, <1>11, <2>1, <3>1 DEF Lined
    <3>3. QED
      BY <1>5, <3>2 DEF OpsOf
  <2>6. \A i : i \in OpsOf(l) \cap (1..n) <=> i \in 1..Len(h)
    <3>1. \A i : i \in 1..n <=> i \in 1..Len(h) \/ i = n
      BY <1>3, <2>1
    <3>2. QED
      BY <1>12, <2>5, <3>1
  <2>7. {l[i] : i \in OpsOf(l) \cap (1..n)} = {h[i] : i \in 1..Len(h)}
    <3>1. OpsOf(l) \cap (1..n) = 1..Len(h)
      BY <2>6
    <3>2. QED
      BY <1>12, <3>1
  <2>8. QED
    BY <1>2, <1>15, <2>4, <2>7
<1>20. JoinerInv(c)'
  BY <1>1, <1>2, <1>18, JoinedJoiner
<1>21. OwnInv(c)'
  <2>1. /\ client'[c].pending = client[c].pending /\ Coming(c)' \subseteq Coming(c)
        /\ toServer'[c] = toServer[c]
    BY <1>2, <1>15, <1>18, <1>19
  <2>2. QED
    BY <1>1, <2>1, OwnFewer
<1>22. QED
  <2>1. /\ (t.session = "joined" /\ ~t.astray => Tracking(t, N))
        /\ 1..Len(t.held) = {} /\ Coming(c)' \subseteq Coming(c)
    BY <1>2, <1>15, <1>16, <1>18, <1>19
  <2>2. QED
    BY <1>2, <1>16, <1>18, <1>19, <1>20, <1>21, <2>1, ReceivedStays

LEMMA ReceiveOrders ==
  ASSUME IInv, IInv', LogInv, Answers, AnswersDiffer, NEW c \in Client,
         \A e \in Client : ListInvOf(e), Receive(c)
  PROVE  LogInv' /\ AnswersDiffer' /\ \A e \in Client : ListInvOf(e)'
<1>1. PICK m : m = Head(toClient[c])
  OBVIOUS
<1>2. /\ toClient[c] # <<>> /\ toClient'[c] = Tail(toClient[c])
      /\ UNCHANGED <<order, task, toServer, made, log>>
      /\ ReceiveOperation(c, m) \/ ReceiveFullState(c, m)
  BY <1>1 DEF Receive, IInv, FormInv
<1>3. \A d \in Client : d # c => client'[d] = client[d] /\ toClient'[d] = toClient[d]
  BY <1>1 DEF Receive, ReceiveOperation, ReceiveFullState, IInv, FormInv
<1>4. Later
  <2>1. \A d \in Client : Taken(d)' = Taken(d) /\ made[d] <= made'[d]
    <3>1. \A d \in Client : made[d] \in Nat
      BY TakenNumbers
    <3>2. QED
      BY <1>2, <3>1, TakenSame
  <2>2. QED
    BY <1>2, <2>1, LaterWhenSame
<1>5. LogInv' /\ AnswersDiffer'
  BY <1>2, <1>4, LogStays, TasksSame
<1>6. ListInvOf(c)'
  <2>1. CASE ReceiveFullState(c, m)
    BY <1>1, <1>2, <1>4, <2>1, StateOrders
  <2>2. CASE ReceiveOperation(c, m)
    <3>1. /\ m.type # "full_state"
          /\ client'[c] = IF client[c].session = "joined" THEN Noted(c, client[c], m)
                          ELSE [client[c] EXCEPT !.held = Append(client[c].held, m)]
      BY <2>2 DEF ReceiveOperation, IInv, FormInv
    <3>2. CASE client[c].session = "joined"
      BY <1>1, <1>2, <1>4, <3>1, <3>2, OperationOrders
    <3>3. CASE client[c].session # "joined"
      BY <1>1, <1>2, <1>4, <3>1, <3>3, HeldOrders
    <3>4. QED
      BY <3>2, <3>3
  <2>3. QED
    BY <1>2, <2>1, <2>2
<1>7. ASSUME NEW e \in Client, e # c
      PROVE  ListInvOf(e)'
  <2>1. LocalInv(e)
    BY DEF IInv
  <2>2. QED
    BY <1>2, <1>3, <1>4, <1>7, <2>1, BystanderStays
<1>8. QED
  BY <1>5, <1>6, <1>7

----------------------------------------------------------------------------
(* The user acts, or nobody does.                                          *)

LEMMA OneActs ==
  ASSUME IInv, IInv', LogInv, Answers, AnswersDiffer, NEW c \in Client,
         \A e \in Client : ListInvOf(e), UNCHANGED <<order, task, toClient, log>>,
         \A d \in Client : Taken(d)' = Taken(d) /\ made[d] <= made'[d],
         \A d \in Client : d # c => client'[d] = client[d] /\ toServer'[d] = toServer[d],
         Later => ListInvOf(c)'
  PROVE  LogInv' /\ AnswersDiffer' /\ \A e \in Client : ListInvOf(e)'
<1>1. UNCHANGED <<order, log>> /\ UNCHANGED <<order, task>> /\ UNCHANGED task
  OBVIOUS
<1>2. Later
  BY <1>1, LaterWhenSame
<1>3. LogInv' /\ AnswersDiffer'
  BY <1>1, <1>2, LogStays, TasksSame
<1>4. ASSUME NEW e \in Client, e # c
      PROVE  ListInvOf(e)'
  <2>1. /\ LocalInv(e) /\ ListInvOf(e) /\ client'[e] = client[e]
        /\ toServer'[e] = toServer[e] /\ toClient'[e] = toClient[e]
    BY <1>4 DEF IInv
  <2>2. QED
    BY <1>1, <1>2, <2>1, BystanderStays
<1>5. QED
  BY <1>2, <1>3, <1>4

LEMMA ActOrders ==
  ASSUME IInv, IInv', LogInv, Answers, AnswersDiffer, NEW c \in Client,
         \A e \in Client : ListInvOf(e), Act(c)
  PROVE  LogInv' /\ AnswersDiffer' /\ \A e \in Client : ListInvOf(e)'
<1>1. CASE Connect(c)
  <2>1. /\ \A d \in Client : Taken(d)' = Taken(d) /\ made[d] <= made'[d]
        /\ UNCHANGED <<order, task, toClient, made, log>>
        /\ \A d \in Client : d # c => client'[d] = client[d] /\ toServer'[d] = toServer[d]
    BY <1>1, ConnectTakesNone
  <2>2. UNCHANGED <<order, task, toClient, log>>
    BY <2>1
  <2>3. Later => ListInvOf(c)'
    BY <1>1, ConnectOrders
  <2>4. QED
    BY <2>1, <2>2, <2>3, OneActs
<1>2. CASE InsertCell(c) \/ DeleteCell(c) \/ MoveCell(c)
  <2>1. WellFormed(client[c].list)
    BY DEF ListInvOf, StoreOrderly, Orderly
  <2>2. PICK op : Make(c, op) /\ Offered(c, client[c], op)
    BY <1>2, <2>1, OfferedWhenMade
  <2>3. op.type \in OperationTypes
    BY <2>2 DEF Offered, Operates
  <2>4. /\ \A d \in Client : Taken(d)' = Taken(d) /\ made[d] <= made'[d]
        /\ UNCHANGED <<order, task, toClient, log>>
        /\ \A d \in Client : d # c => client'[d] = client[d] /\ toServer'[d] = toServer[d]
    BY <2>2, <2>3, MakeTakesNone
  <2>5. Later => ListInvOf(c)'
    BY <2>2, MakeOrders
  <2>6. QED
    BY <2>4, <2>5, OneActs
<1>3. QED
  BY <1>1, <1>2 DEF Act

LEMMA StutterOrders ==
  ASSUME IInv, IInv', OrderInv, Answers, UNCHANGED vars
  PROVE  OrderInv'
<1>1. /\ UNCHANGED <<order, log>> /\ UNCHANGED <<order, task>> /\ UNCHANGED task
      /\ UNCHANGED <<toServer, toClient, client, made>>
  BY DEF vars
<1>2. \A d \in Client : Taken(d)' = Taken(d) /\ made[d] <= made'[d]
  <2>1. ASSUME NEW d \in Client
        PROVE  Taken(d)' = Taken(d) /\ made[d] <= made'[d]
    <3>1. toServer'[d] = toServer[d] /\ made'[d] = made[d]
      BY <1>1
    <3>2. made[d] \in Nat
      BY TakenNumbers
    <3>3. QED
      BY <3>1, <3>2, TakenSame
  <2>2. QED
    BY <2>1
<1>3. Later
  BY <1>1, <1>2, LaterWhenSame
<1>4. LogInv /\ AnswersDiffer /\ \A c \in Client : ListInvOf(c)
  BY DEF OrderInv
<1>5. LogInv' /\ AnswersDiffer'
  BY <1>1, <1>3, <1>4, LogStays, TasksSame
<1>6. ASSUME NEW e \in Client
      PROVE  ListInvOf(e)'
  <2>1. /\ LocalInv(e) /\ ListInvOf(e) /\ client'[e] = client[e]
        /\ toServer'[e] = toServer[e] /\ toClient'[e] = toClient[e]
    BY <1>1, <1>4 DEF IInv
  <2>2. QED
    BY <1>1, <1>3, <1>4, <2>1, BystanderStays
<1>7. QED
  BY <1>5, <1>6 DEF OrderInv

LEMMA StepOrders ==
  ASSUME IInv, IInv', OrderInv, [Next]_vars
  PROVE  OrderInv'
<1>1. LogInv /\ AnswersDiffer /\ \A e \in Client : ListInvOf(e)
  BY DEF OrderInv
<1>2. Answers
  BY <1>1 DEF Answers, ListInvOf, MessagesInv
<1>3. ASSUME NEW c \in Client, Act(c) \/ Receive(c) \/ Handle(c)
      PROVE  LogInv' /\ AnswersDiffer' /\ \A e \in Client : ListInvOf(e)'
  <2>1. CASE Act(c)
    BY <1>1, <1>2, <2>1, ActOrders
  <2>2. CASE Receive(c)
    BY <1>1, <1>2, <2>2, ReceiveOrders
  <2>3. CASE ApplyOperation(c)
    BY <1>1, <1>2, <2>3, ApplyOrders
  <2>4. CASE BeginBroadcast(c)
    BY <1>1, <1>2, <2>4, BeginBroadcastOrders
  <2>5. CASE Send(c)
    BY <1>1, <1>2, <2>5, SendOrders
  <2>6. CASE ReadState(c)
    BY <1>1, <1>2, <2>6, ReadStateOrders
  <2>7. CASE ReadVersion(c)
    BY <1>1, <1>2, <2>7, ReadVersionOrders
  <2>8. CASE SendState(c)
    BY <1>1, <1>2, <2>8, SendStateOrders
  <2>9. QED
    BY <1>3, <2>1, <2>2, <2>3, <2>4, <2>5, <2>6, <2>7, <2>8 DEF Handle
<1>4. CASE UNCHANGED vars
  BY <1>2, <1>4, StutterOrders
<1>5. CASE Next
  <2>1. LogInv' /\ AnswersDiffer' /\ \A e \in Client : ListInvOf(e)'
    BY <1>3, <1>5 DEF Next
  <2>2. QED
    BY <2>1 DEF OrderInv
<1>6. QED
  BY <1>4, <1>5

LEMMA InitOrders ==
  ASSUME Init
  PROVE  OrderInv
<1>1. order.version = 0 /\ order.list = InitialList /\ log = <<>>
  BY DEF Init
<1>2. WellFormed(InitialList) /\ Ids(InitialList) \subseteq Range(InitialCells)
  BY InitialListFits
<1>3. ListAt(0) = InitialList
  BY DEF ListAt
<1>4. Ids(InitialList) \subseteq TakenCells
  BY <1>2 DEF TakenCells
<1>5. LogInv
  <2>1. IsSequence(log) /\ Len(log) = 0
    BY <1>1 DEF IsSequence
  <2>2. \A v \in 0..0 : v = 0
    OBVIOUS
  <2>3. QED
    BY <1>1, <1>2, <1>3, <1>4, <2>1, <2>2 DEF LogInv
<1>6. \A d \in Client : task[d].at = "idle"
  BY DEF Init, Idle
<1>7. AnswersDiffer
  BY <1>6 DEF AnswersDiffer, HasAnswer
<1>8. ASSUME NEW c \in Client
      PROVE  ListInvOf(c)
  <2>1. PICK s : s = client[c]
    OBVIOUS
  <2>2. /\ s.session \in {"away", "joined"}
        /\ s.pending = <<>> /\ s.held = <<>> /\ s.version = 0 /\ s.seen = 0
        /\ s.cells = Ids(s.list)
        /\ s.session = "joined" => s.list = InitialList
        /\ s.session = "away" => s.list = EmptyList
    BY <2>1 DEF Init
  <2>3. toServer[c] = <<>> /\ toClient[c] = <<>>
    BY DEF Init
  <2>4. Ops(c) = {} /\ States(c) = {} /\ \A d \in Client : ~ Owed(d, c)
    <3>1. Len(client[c].held) + Len(toClient[c]) = 0 /\ Len(toClient[c]) = 0
      BY <2>1, <2>2, <2>3
    <3>2. 1..Len(Line(c)) = {} /\ 1..Len(toClient[c]) = {}
      <4>1. Line(c) = <<>>
        BY <3>1 DEF Line, Joined
      <4>2. QED
        BY <3>1, <4>1
    <3>3. QED
      BY <1>6, <3>2 DEF Ops, States, Owed
  <2>5. Coming(c) = {}
    BY <2>4 DEF Coming, Owing
  <2>6. OnceInv(c)
    BY <2>4 DEF OnceInv
  <2>7. 1..Len(s.held) = {} /\ 1..Len(s.pending) = {} /\ 1..Len(toServer[c]) = {}
    BY <2>2, <2>3
  <2>8. MessagesInv(c)
    BY <1>6, <2>1, <2>2, <2>4, <2>7 DEF MessagesInv, HasAnswer
  <2>9. PendingCells(s) = {}
    BY <2>7 DEF PendingCells
  <2>10. Orderly(c, s, {})
    <3>1. WellFormed(EmptyList) /\ Ids(EmptyList) = {}
      BY FS_EmptySet DEF WellFormed, MapsMirror, EmptyList, Ids
    <3>2. WellFormed(s.list) /\ Ids(s.list) \subseteq TakenCells
      BY <1>2, <1>4, <2>2, <3>1
    <3>3. Known(s) \subseteq TakenCells
      BY <2>9, <3>2 DEF Known
    <3>4. QED
      BY <2>7, <3>2, <3>3 DEF Orderly
  <2>11. ASSUME s.session = "joined"
         PROVE  Tracking(s, {})
    <3>1. s.list = ListAt(s.seen) /\ s.seen = 0
      BY <1>3, <2>2, <2>11
    <3>2. SameOrder(s)
      BY <2>2, <3>1 DEF SameOrder, Has, Ids
    <3>3. Consistent(s)
      BY <2>7 DEF Consistent
    <3>4. Delivered({}, s.seen)
      BY <1>1, <3>1 DEF Delivered
    <3>5. QED
      BY <1>1, <2>2, <3>1, <3>2, <3>3, <3>4 DEF Tracking
  <2>12. StoreOrderly(c)
    BY <2>1, <2>5, <2>10, <2>11 DEF StoreOrderly
  <2>13. JoinerInv(c)
    BY <1>6, <2>1, <2>2, <2>4 DEF JoinerInv
  <2>14. OwnInv(c)
    BY <2>5, <2>7 DEF OwnInv
  <2>15. QED
    BY <2>6, <2>8, <2>12, <2>13, <2>14 DEF ListInvOf
<1>9. QED
  BY <1>5, <1>7, <1>8 DEF OrderInv

----------------------------------------------------------------------------
(* What follows from the second invariant.                                 *)

\* The second invariant, by the first: lists, messages and clients agree.
THEOREM OrderInvariance == Spec => []OrderInv
<1>1. Init => OrderInv
  BY InitOrders
<1>2. OrderInv /\ IInv /\ IInv' /\ [Next]_vars => OrderInv'
  BY StepOrders
<1>3. QED
  BY <1>1, <1>2, EchoInvariance, PTL DEF Spec

\* ListsMirrored for any clients, cells and operations: no list, on the server or
\* at a client, shows a cell twice or where it is no longer (list.rs:14-17),
\* whatever overtakes what and whenever a client joins.
THEOREM ListsMirroredAlways == Spec => []ListsMirrored
<1>1. ASSUME IInv, OrderInv
      PROVE  ListsMirrored
  <2>1. /\ order.version \in Nat /\ LogInv
        /\ \A c \in Client : WellFormed(client[c].list)
    BY <1>1 DEF OrderInv, ListInvOf, StoreOrderly, Orderly, IInv, FormInv
  <2>2. WellFormed(order.list)
    <3>1. order.version \in 0..order.version
      BY <2>1
    <3>2. QED
      BY <2>1, <3>1 DEF LogInv
  <2>3. QED
    BY <2>1, <2>2 DEF WellFormed, ListsMirrored
<1>2. QED
  BY <1>1, EchoInvariance, OrderInvariance, PTL

\* What ClientOnServerOrder says of a client: but for the cells with pending
\* operations, its list is that of the version it has seen.
Agrees(s, P) ==
  /\ Ids(s.list) \ P = Ids(ListAt(s.seen)) \ P
  /\ \A id \in Ids(ListAt(s.seen)) \ P : s.list.byId[id] = ListAt(s.seen).byId[id]
  /\ s.cells = Ids(s.list)

LEMMA SettledAgree ==
  ASSUME NEW s, IsSequence(s.pending), SameOrder(s),
         NEW P, P = {s.pending[k].cell : k \in DOMAIN s.pending}
  PROVE  Agrees(s, P)
<1>1. P = PendingCells(s)
  <2>1. DOMAIN s.pending = 1..Len(s.pending)
    BY DEF IsSequence
  <2>2. QED
    BY <2>1 DEF PendingCells
<1>2. PICK server : server = ListAt(s.seen)
  OBVIOUS
<1>3. \A x \in (Ids(s.list) \cup Ids(server)) \ P :
        /\ x \in Ids(s.list) /\ x \in Ids(server)
        /\ s.list.byId[x] = server.byId[x]
  BY <1>1, <1>2 DEF SameOrder, Has, Ids
<1>4. s.cells = Ids(s.list)
  BY DEF SameOrder
<1>5. Ids(s.list) \ P = Ids(server) \ P
  BY <1>3
<1>6. QED
  BY <1>2, <1>3, <1>4, <1>5 DEF Agrees

\* ClientOnServerOrder for any clients, cells and operations: a client that was
\* not led astray has every cell it has no operation pending on exactly where the
\* server had it after the operation the client saw last.
THEOREM ClientOnServerOrderAlways == Spec => []ClientOnServerOrder
<1>1. ASSUME IInv, OrderInv
      PROVE  ClientOnServerOrder
  <2>1. ASSUME NEW c \in Client, client[c].session = "joined", ~client[c].astray
        PROVE  LET s == client[c]
                   server == ListAt(s.seen)
                   settled(l) == Ids(l) \ {s.pending[k].cell : k \in DOMAIN s.pending}
               IN  /\ settled(s.list) = settled(server)
                   /\ \A id \in settled(server) : s.list.byId[id] = server.byId[id]
                   /\ s.cells = Ids(s.list)
    <3>1. PICK s, server : s = client[c] /\ server = ListAt(s.seen)
      OBVIOUS
    <3>2. PICK P : P = {s.pending[k].cell : k \in DOMAIN s.pending}
      OBVIOUS
    <3>3. IsSequence(s.pending)
      BY <1>1, <3>1 DEF IInv, LocalInv, StoreInv
    <3>4. SameOrder(s)
      BY <1>1, <2>1, <3>1 DEF OrderInv, ListInvOf, StoreOrderly, Tracking
    <3>5. Agrees(s, P)
      BY <3>2, <3>3, <3>4, SettledAgree
    <3>6. /\ Ids(s.list) \ P = Ids(server) \ P
          /\ \A id \in Ids(server) \ P : s.list.byId[id] = server.byId[id]
          /\ s.cells = Ids(s.list)
      BY <3>1, <3>5 DEF Agrees
    <3>7. QED
      BY <3>1, <3>2, <3>6
  <2>2. QED
    BY <2>1 DEF ClientOnServerOrder
<1>2. QED
  BY <1>1, EchoInvariance, OrderInvariance, PTL

\* Lists that have the same cells at the same indexes are the same list.
LEMMA SameList ==
  ASSUME NEW l, WellFormed(l), NEW n, WellFormed(n), Ids(l) = Ids(n),
         \A x \in Ids(n) : l.byId[x] = n.byId[x]
  PROVE  l = n
<1>1. l.byId = n.byId
  BY DEF WellFormed, Ids
<1>2. DOMAIN l.byIndex = DOMAIN n.byIndex
  BY <1>1 DEF WellFormed, MapsMirror
<1>3. \A i \in DOMAIN l.byIndex : l.byIndex[i] = n.byIndex[i]
  BY <1>1, <1>2 DEF WellFormed, MapsMirror
<1>4. l.byIndex = [i \in DOMAIN l.byIndex |-> l.byIndex[i]]
  BY DEF WellFormed
<1>5. n.byIndex = [i \in DOMAIN n.byIndex |-> n.byIndex[i]]
  BY DEF WellFormed
<1>6. l.byIndex = n.byIndex
  BY <1>2, <1>3, <1>4, <1>5
<1>7. /\ l = [byId |-> l.byId, byIndex |-> l.byIndex]
      /\ n = [byId |-> n.byId, byIndex |-> n.byIndex]
  BY DEF WellFormed
<1>8. QED
  BY <1>1, <1>6, <1>7

LEMMA NothingPending ==
  ASSUME IInv, NEW c \in Client, Quiet
  PROVE  client[c].pending = <<>>
<1>1. FormInv /\ LocalInv(c) /\ IsSequence(client[c].pending)
  BY DEF IInv, LocalInv, StoreInv
<1>2. toServer[c] = <<>> /\ toClient[c] = <<>> /\ task[c].at = "idle"
  BY DEF Quiet, Idle
<1>3. ~HasJoin(c) /\ ~Sending(c) /\ Owns(c) = {} /\ Len(toServer[c]) = 0
  <2>1. Len(toClient[c]) = 0 /\ Len(toServer[c]) = 0
    BY <1>2
  <2>2. 1..Len(toClient[c]) = {}
    BY <2>1
  <2>3. QED
    BY <1>2, <2>1, <2>2 DEF HasJoin, Sending, Owns
<1>4. /\ made[c] \in Nat /\ Settled(c) \in Nat
      /\ Len(client[c].pending) = made[c] - Settled(c)
      /\ Settled(c) <= Echoed(c) /\ Echoed(c) = Taken(c) /\ Taken(c) = made[c] - 0
  BY <1>1, <1>3, NumbersOf
<1>5. \A n \in Settled(c) + 1..Echoed(c) : FALSE
  BY <1>1, <1>3 DEF LocalInv, EchoesInv
<1>6. Settled(c) = made[c]
  <2>1. Echoed(c) = made[c]
    BY <1>4
  <2>2. QED
    BY <1>4, <1>5, <2>1
<1>7. Len(client[c].pending) = 0
  BY <1>4, <1>6
<1>8. QED
  BY <1>1, <1>7 DEF IsSequence

LEMMA NothingComes ==
  ASSUME NEW c \in Client, Quiet, client[c].held = <<>>
  PROVE  Coming(c) = {}
<1>1. toClient[c] = <<>> /\ \A d \in Client : task[d].at = "idle"
  BY DEF Quiet, Idle
<1>2. Len(client[c].held) + Len(toClient[c]) = 0
  BY <1>1
<1>3. Line(c) = <<>>
  BY <1>2 DEF Line, Joined
<1>4. 1..Len(Line(c)) = {}
  BY <1>3
<1>5. Ops(c) = {} /\ \A d \in Client : ~ Owed(d, c)
  BY <1>1, <1>4 DEF Ops, Owed
<1>6. QED
  BY <1>5 DEF Coming, Owing

\* TrackingClientsConverge for any clients, cells and operations: when nothing is
\* on its way, a client that was not led astray has the list of the server; no
\* operation was lost to it and none handled twice.
THEOREM TrackingClientsConvergeAlways == Spec => []TrackingClientsConverge
<1>1. ASSUME IInv, OrderInv, Quiet, NEW c \in Client,
             client[c].session = "joined", ~client[c].astray
      PROVE  client[c].list = order.list
  <2>1. PICK s : s = client[c]
    OBVIOUS
  <2>2. LogInv /\ ListInvOf(c) /\ LocalInv(c) /\ order.version \in Nat
    BY <1>1 DEF OrderInv, IInv, FormInv
  <2>3. s.pending = <<>>
    BY <1>1, <2>1, NothingPending
  <2>4. Coming(c) = {}
    <3>1. client[c].held = <<>>
      BY <1>1, <2>2 DEF ListInvOf, MessagesInv
    <3>2. QED
      BY <1>1, <3>1, NothingComes
  <2>5. Tracking(s, {}) /\ WellFormed(s.list) /\ s.version \in Nat
    BY <1>1, <2>1, <2>2, <2>4
    DEF ListInvOf, StoreOrderly, Orderly, LocalInv, StoreInv
  <2>6. s.seen = order.version
    <3>1. s.seen \in s.version..order.version /\ Delivered({}, s.seen)
      BY <2>5 DEF Tracking
    <3>2. \A w \in s.seen + 1..order.version : FALSE
      BY <3>1 DEF Delivered
    <3>3. QED
      BY <2>2, <2>5, <3>1, <3>2
  <2>7. ListAt(s.seen) = order.list /\ WellFormed(order.list)
    <3>1. order.version \in 0..order.version
      BY <2>2
    <3>2. QED
      BY <2>2, <2>6, <3>1 DEF LogInv
  <2>8. PendingCells(s) = {}
    <3>1. 1..Len(s.pending) = {}
      BY <2>3
    <3>2. QED
      BY <3>1 DEF PendingCells
  <2>9. /\ Ids(s.list) = Ids(order.list)
        /\ \A x \in Ids(order.list) : s.list.byId[x] = order.list.byId[x]
    <3>1. SameOrder(s)
      BY <2>5 DEF Tracking
    <3>2. \A x \in Ids(s.list) \cup Ids(order.list) :
            /\ x \in Ids(s.list) /\ x \in Ids(order.list)
            /\ s.list.byId[x] = order.list.byId[x]
      BY <2>7, <2>8, <3>1 DEF SameOrder, Has, Ids
    <3>3. QED
      BY <3>2
  <2>10. QED
    BY <2>1, <2>5, <2>7, <2>9, SameList
<1>2. IInv /\ OrderInv => TrackingClientsConverge
  BY <1>1 DEF TrackingClientsConverge
<1>3. QED
  BY <1>2, EchoInvariance, OrderInvariance, PTL

===============================================================================

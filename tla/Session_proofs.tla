----------------------------- MODULE Session_proofs -----------------------------
(***************************************************************************)
(* Session for any users, any capacity of the channels and any number of   *)
(* requests: once nothing is under way, the clients have the version of    *)
(* the notebook and show who is there.                                     *)
(***************************************************************************)
EXTENDS Session, SequenceFacts, WellFoundedInduction

----------------------------------------------------------------------------
(* The inductive invariant: what tasks, channels and clients can hold.     *)

\* What a task announces: a receiver its user's join and changes, a closer its
\* user's leave.
Announced(k) ==
  IF k[2] = "receiver" THEN {JoinOf(k[1])} \cup {ChangeTo(n) : n \in 0..version}
  ELSE {LeaveOf(k[1])}

ConnInv ==
  /\ version \in Nat
  /\ conn \in [User -> {"new", "open", "ending", "over"}]
  /\ DOMAIN users = {u \in User : conn[u] \in {"open", "ending"}}

TaskInv(k) ==
  /\ task[k].at \in {"idle", "prepared", "sending", "reading", "snapshot", "stating"}
  /\ task[k].at \in {"prepared", "sending"} =>
       /\ task[k].message \in Announced(k)
       /\ k[2] = "closer" => conn[k[1]] = "over"
  /\ task[k].at = "sending" => task[k].to \subseteq User
  /\ task[k].at \in {"reading", "snapshot", "stating"} => k[2] = "receiver"
  /\ task[k].at \in {"snapshot", "stating"} => task[k].version \in 0..version

TasksInv ==
  /\ DOMAIN task = Task /\ task = [k \in Task |-> task[k]]
  /\ \A k \in Task : TaskInv(k)

MessageInv(m) ==
  /\ m.type \in {"join", "leave", "change", "state"}
  /\ m.type = "change" => m = ChangeTo(m.version)
  /\ m.type \in {"change", "state"} => m.version \in 0..version
  /\ m.type = "leave" => m.user \in User /\ conn[m.user] = "over"

ChannelsInv ==
  /\ channel = [u \in User |-> channel[u]]
  /\ \A u \in User : /\ IsSequence(channel[u])
                     /\ \A i \in 1..Len(channel[u]) : MessageInv(channel[u][i])

ClientInv(c) ==
  /\ DOMAIN c = {"synced", "shown", "version", "buffer"}
  /\ c.version \in 0..version /\ c.buffer \subseteq 0..version

ClientsInv ==
  /\ client = [u \in User |-> client[u]]
  /\ \A u \in User : ClientInv(client[u])

\* A user joins once, and is sent the state once: it is on the way to have it,
\* has it on its way or has got it.
Joining(u) ==
  LET t == task[Receiver(u)]
  IN  \/ t.at \in {"reading", "snapshot", "stating"}
      \/ t.at \in {"prepared", "sending"} /\ t.message.type = "join"

StatesTo(u) == {i \in 1..Len(channel[u]) : channel[u][i].type = "state"}

JoinsOnce(u) ==
  /\ Joining(u) \/ StatesTo(u) # {} \/ client[u].synced =>
       /\ conn[u] # "new"
       /\ u \in DOMAIN users => users[u]
  /\ Joining(u) => StatesTo(u) = {} /\ ~client[u].synced
  /\ client[u].synced => StatesTo(u) = {}
  /\ \A i, j \in StatesTo(u) : i = j

IInv ==
  /\ ConnInv /\ TasksInv /\ ChannelsInv /\ ClientsInv
  /\ \A u \in User : JoinsOnce(u)

----------------------------------------------------------------------------
(* The versions.                                                           *)

Tracked == DOMAIN users \ closed

\* Task k has still to send m to u.
Owes(k, m, u) ==
  /\ task[k].at = "prepared" \/ (task[k].at = "sending" /\ u \in task[k].to)
  /\ task[k].message = m

\* The state for u has not been read yet, or will not be.
Unread(u, ats) ==
  ~client[u].synced /\ StatesTo(u) = {} /\ task[Receiver(u)].at \notin ats

\* Where the last version of the notebook is, for user u.
VersionComes(u) ==
  \/ <<u, ChangeTo(version)>> \in missed
  \/ \E k \in Task : Owes(k, ChangeTo(version), u)
  \/ \E i \in 1..Len(channel[u]) :
       \/ channel[u][i] = ChangeTo(version)
       \/ channel[u][i].type = "state" /\ channel[u][i].version = version
  \/ client[u].synced /\ client[u].version = version
  \/ ~client[u].synced /\ version \in client[u].buffer
  \/ /\ task[Receiver(u)].at \in {"snapshot", "stating"}
     /\ task[Receiver(u)].version = version
  \/ Unread(u, {"snapshot", "stating"})

VersionsInv == \A u \in Tracked : VersionComes(u)

----------------------------------------------------------------------------
(* Who is there.                                                           *)

Presents(m, w) ==
  \/ m.type = "join" /\ m.user = w
  \/ m.type = "state" /\ w \in DOMAIN m.users

Removes(m, w) ==
  \/ m.type = "leave" /\ m.user = w
  \/ m.type = "state" /\ w \notin DOMAIN m.users

\* What u is still to receive ends with w being shown, or not.
WillShow(u, w) ==
  \/ \E i \in 1..Len(channel[u]) :
       /\ Presents(channel[u][i], w)
       /\ \A j \in i..Len(channel[u]) : ~Removes(channel[u][j], w)
  \/ /\ w \in DOMAIN client[u].shown
     /\ \A j \in 1..Len(channel[u]) : ~Removes(channel[u][j], w)

WillHide(u, w) ==
  \/ \E i \in 1..Len(channel[u]) :
       /\ Removes(channel[u][i], w)
       /\ \A j \in i..Len(channel[u]) : ~Presents(channel[u][j], w)
  \/ /\ w \notin DOMAIN client[u].shown
     /\ \A j \in 1..Len(channel[u]) : ~Presents(channel[u][j], w)

\* So it does, or the state that is about to be sent or read does.
Shows(u, w) ==
  \/ Unread(u, {"stating"})
  \/ task[Receiver(u)].at = "stating" /\ w \in DOMAIN task[Receiver(u)].users
  \/ task[Receiver(u)].at # "stating" /\ WillShow(u, w)

Hides(u, w) ==
  \/ Unread(u, {"stating"})
  \/ task[Receiver(u)].at = "stating" /\ w \notin DOMAIN task[Receiver(u)].users
  \/ task[Receiver(u)].at # "stating" /\ WillHide(u, w)

Excepted(u, w) ==
  <<u, w>> \in overtaken \/ <<u, JoinOf(w)>> \in missed \/ <<u, LeaveOf(w)>> \in missed

PresenceOf(u, w) ==
  \/ Excepted(u, w)
  \/ IF w \in DOMAIN users
     THEN users[w] => Owes(Receiver(w), JoinOf(w), u) \/ Shows(u, w)
     ELSE Owes(Closer(w), LeaveOf(w), u) \/ Hides(u, w)

PresenceInv == \A u \in Tracked, w \in User : PresenceOf(u, w)

----------------------------------------------------------------------------
(* Facts about the operators.                                              *)

LEMMA MaxOfBounded ==
  ASSUME NEW n \in Nat, NEW S \in SUBSET (0..n), S # {}
  PROVE  /\ Max(S) \in S /\ \A y \in S : y <= Max(S)
         /\ \A x \in S : (\A y \in S : y <= x) => Max(S) = x
<1>1. \A y \in S : y \in Nat /\ y <= n
  OBVIOUS
<1>2. PICK x \in S : \A y \in S : y <= x
  <2> DEFINE T == {n - y : y \in S}
  <2>1. PICK z : z \in S
    OBVIOUS
  <2>2. T \subseteq Nat /\ n - z \in T
    BY <1>1, <2>1
  <2>3. PICK t \in T : \A y \in T : ~ (<<y, t>> \in OpToRel(<, Nat))
    <3> HIDE DEF T
    <3>1. QED
      BY <2>2, WFMin, NatLessThanWellFounded
  <2>4. \A y \in T : ~ (y < t)
    BY <2>2, <2>3 DEF OpToRel
  <2>5. PICK x \in S : t = n - x
    BY <2>3
  <2>6. ASSUME NEW y \in S
        PROVE  y <= x
    <3>1. n - y \in T
      BY <2>6
    <3>2. ~ (n - y < n - x)
      BY <2>4, <2>5, <3>1
    <3>3. QED
      BY <1>1, <3>2
  <2>7. QED
    BY <2>6
<1>3. ASSUME NEW m \in S, \A y \in S : y <= m
      PROVE  Max(S) = m
  <2>1. Max(S) = CHOOSE z \in S : \A y \in S : z >= y
    BY DEF Max
  <2>2. \A z \in S : (\A y \in S : z >= y) => z = m
    BY <1>1, <1>3
  <2>3. \A y \in S : m >= y
    BY <1>1, <1>3
  <2>4. QED
    BY <2>1, <2>2, <2>3
<1>4. Max(S) = x
  BY <1>2, <1>3
<1>5. QED
  BY <1>2, <1>3, <1>4

LEMMA TaskKeys ==
  /\ \A u \in User : Receiver(u) \in Task /\ Closer(u) \in Task
  /\ \A k \in Task : /\ k[1] \in User /\ k[2] \in {"receiver", "closer"}
                     /\ k[2] = "receiver" => k = Receiver(k[1])
                     /\ k[2] = "closer" => k = Closer(k[1])
BY DEF Task, Receiver, Closer

\* Time goes on: versions grow, and who has gone does not come back.
Onward ==
  /\ version \in Nat /\ version' \in Nat /\ version <= version'
  /\ \A u \in User : conn[u] = "over" => conn'[u] = "over"

LEMMA SetTaskEffect ==
  ASSUME TasksInv, NEW k \in Task, NEW t, SetTask(k, t)
  PROVE  /\ DOMAIN task' = Task /\ task' = [j \in Task |-> task'[j]]
         /\ task'[k] = t
         /\ \A j \in Task \ {k} : task'[j] = task[j]
BY DEF TasksInv, SetTask

LEMMA TasksStep ==
  ASSUME TasksInv, Onward, NEW k \in Task, NEW t, SetTask(k, t), TaskInv(k)'
  PROVE  TasksInv'
<1>1. /\ DOMAIN task' = Task /\ task' = [j \in Task |-> task'[j]]
      /\ \A j \in Task \ {k} : task'[j] = task[j]
  BY SetTaskEffect
<1>2. ASSUME NEW j \in Task, j # k
      PROVE  TaskInv(j)'
  <2>1. TaskInv(j) /\ task'[j] = task[j]
    BY <1>1, <1>2 DEF TasksInv
  <2>2. j[1] \in User
    BY TaskKeys
  <2>3. QED
    BY <2>1, <2>2 DEF TaskInv, Announced, Onward
<1>3. QED
  BY <1>1, <1>2 DEF TasksInv

LEMMA TasksStay ==
  ASSUME TasksInv, Onward, UNCHANGED task
  PROVE  TasksInv'
<1>1. ASSUME NEW j \in Task
      PROVE  TaskInv(j)'
  <2>1. TaskInv(j) /\ task'[j] = task[j]
    BY <1>1 DEF TasksInv
  <2>2. j[1] \in User
    BY TaskKeys
  <2>3. QED
    BY <2>1, <2>2 DEF TaskInv, Announced, Onward
<1>2. QED
  BY <1>1 DEF TasksInv

LEMMA MessageStays ==
  ASSUME NEW m, MessageInv(m), Onward
  PROVE  MessageInv(m)'
BY DEF MessageInv, Onward

\* What a step may do to the channel of a user.
LEMMA ChannelsStep ==
  ASSUME ChannelsInv, Onward, channel' = [u \in User |-> channel'[u]],
         \A u \in User :
           \/ channel'[u] = channel[u] \/ channel'[u] = <<>>
           \/ channel[u] # <<>> /\ channel'[u] = Tail(channel[u])
           \/ \E m : MessageInv(m)' /\ channel'[u] = Append(channel[u], m)
  PROVE  ChannelsInv'
<1>1. ASSUME NEW u \in User
      PROVE  /\ IsSequence(channel'[u])
             /\ \A i \in 1..Len(channel'[u]) : MessageInv(channel[u][i])'
  <2> DEFINE q == channel[u]
             r == channel'[u]
  <2>1. IsSequence(q) /\ Len(q) \in Nat
    BY DEF ChannelsInv, IsSequence
  <2>2. \A i \in 1..Len(q) : MessageInv(q[i])
    BY DEF ChannelsInv
  <2>3. \A m : MessageInv(m) => MessageInv(m)'
    BY MessageStays
  <2>4. CASE r = q
    BY <2>1, <2>2, <2>3, <2>4 DEF MessageInv
  <2>5. CASE r = <<>>
    BY <2>5 DEF IsSequence
  <2>6. CASE q # <<>> /\ r = Tail(q)
    <3>1. Len(q) > 0
      BY <2>1, <2>6 DEF IsSequence
    <3>2. /\ IsSequence(r) /\ Len(r) = Len(q) - 1
          /\ \A i \in 1..Len(q) - 1 : r[i] = q[i + 1]
      BY <2>1, <2>6, <3>1, TailIsSequence
    <3>3. QED
      BY <2>1, <2>2, <2>3, <3>2 DEF MessageInv
  <2>7. ASSUME NEW m, MessageInv(m)', r = Append(q, m)
        PROVE  /\ IsSequence(r)
               /\ \A i \in 1..Len(r) : MessageInv(channel[u][i])'
    <3>1. /\ IsSequence(r) /\ Len(r) = Len(q) + 1
          /\ \A i \in 1..Len(q) : r[i] = q[i]
          /\ r[Len(q) + 1] = m
      BY <2>1, <2>7, AppendIsSequence
    <3>2. QED
      BY <2>1, <2>2, <2>3, <2>7, <3>1 DEF MessageInv
  <2>8. QED
    BY <2>4, <2>5, <2>6, <2>7
<1>2. QED
  BY <1>1 DEF ChannelsInv

LEMMA ChannelsStay ==
  ASSUME ChannelsInv, Onward, UNCHANGED channel
  PROVE  ChannelsInv'
BY ChannelsStep DEF ChannelsInv

LEMMA ClientsStay ==
  ASSUME ClientsInv, Onward, UNCHANGED client
  PROVE  ClientsInv'
BY DEF ClientsInv, ClientInv, Onward

\* A user is not sent the state again.
LEMMA JoinsKept ==
  ASSUME NEW u \in User, JoinsOnce(u),
         Joining(u)' => Joining(u),
         StatesTo(u)' = StatesTo(u),
         client'[u].synced = client[u].synced,
         conn[u] # "new" => conn'[u] # "new",
         conn[u] # "new" /\ u \in DOMAIN users' =>
           u \in DOMAIN users /\ (users[u] => users'[u])
  PROVE  JoinsOnce(u)'
BY DEF JoinsOnce

\* A message that is not the state is sent to v.
LEMMA NoMoreStates ==
  ASSUME ChannelsInv, NEW v \in User, NEW m, m.type # "state",
         channel' = [channel EXCEPT ![v] = Append(@, m)]
  PROVE  \A u \in User : StatesTo(u)' = StatesTo(u)
<1>1. ASSUME NEW u \in User
      PROVE  StatesTo(u)' = StatesTo(u)
  <2>1. CASE u # v
    <3>1. channel'[u] = channel[u]
      BY <2>1 DEF ChannelsInv
    <3>2. QED
      BY <3>1 DEF StatesTo
  <2>2. CASE u = v
    <3>1. channel'[u] = Append(channel[u], m)
      BY <2>2 DEF ChannelsInv
    <3>2. IsSequence(channel[u]) /\ Len(channel[u]) \in Nat
      BY DEF ChannelsInv, IsSequence
    <3>3. /\ Len(channel'[u]) = Len(channel[u]) + 1
          /\ \A i \in 1..Len(channel[u]) : channel'[u][i] = channel[u][i]
          /\ channel'[u][Len(channel[u]) + 1] = m
      BY <3>1, <3>2, AppendIsSequence
    <3>4. \A i : i \in StatesTo(u)' <=> i \in StatesTo(u)
      BY <3>2, <3>3 DEF StatesTo
    <3>5. QED
      BY <3>4 DEF StatesTo
  <2>3. QED
    BY <2>1, <2>2
<1>2. QED
  BY <1>1

LEMMA InitInv == Init => IInv
<1> SUFFICES ASSUME Init
             PROVE  IInv
  OBVIOUS
<1>1. ConnInv
  <2>1. /\ conn \in [User -> {"new", "open", "ending", "over"}]
        /\ \A u \in User : conn[u] \in {"open", "ending"} <=> u \in Present \cup Connected
    BY DEF Init
  <2>2. /\ DOMAIN users = Present \cup Connected
          BY DEF Init
  <2>3. Present \cup Connected \subseteq User
    BY SessionAssumption
  <2>4. QED
    BY <2>1, <2>2, <2>3 DEF Init, ConnInv
<1>2. TasksInv
  BY DEF Init, TasksInv, TaskInv, Idle
<1>3. \A u \in User : Len(channel[u]) = 0 /\ channel[u] = <<>>
  BY DEF Init
<1>4. ChannelsInv
  <2>1. channel = [u \in User |-> channel[u]]
    BY DEF Init
  <2>2. \A u \in User : IsSequence(channel[u]) /\ 1..Len(channel[u]) = {}
    BY <1>3 DEF IsSequence
  <2>3. QED
    BY <2>1, <2>2 DEF ChannelsInv
<1>5. ASSUME NEW u \in User
      PROVE  /\ DOMAIN client[u] = {"synced", "shown", "version", "buffer"}
             /\ client[u].synced = (u \in Present)
             /\ client[u].version = 0 /\ client[u].buffer = {}
  BY DEF Init, NewClient
<1>6. ClientsInv
  <2>1. client = [u \in User |-> client[u]] /\ version = 0
    BY DEF Init
  <2>2. QED
    BY <1>5, <2>1 DEF ClientsInv, ClientInv
<1>7. ASSUME NEW u \in User
      PROVE  JoinsOnce(u)
  <2>1. ~Joining(u)
    BY TaskKeys DEF Init, Joining, Idle
  <2>0. StatesTo(u) = {}
    BY <1>3 DEF StatesTo
  <2>2. client[u].synced => conn[u] # "new" /\ users[u]
    BY <1>5 DEF Init
  <2>3. QED
    BY <2>0, <2>1, <2>2 DEF JoinsOnce
<1>8. QED
  BY <1>1, <1>2, <1>4, <1>6, <1>7 DEF IInv

\* Steps that only let task k go on.
LEMMA TaskStep ==
  ASSUME IInv, NEW k \in Task, NEW t, SetTask(k, t), TaskInv(k)',
         UNCHANGED <<conn, users, version, client>>, ChannelsInv',
         \A u \in User : StatesTo(u)' = StatesTo(u),
         \A u \in User : k = Receiver(u) => (Joining(u)' => Joining(u))
  PROVE  IInv'
<1>1. ConnInv /\ TasksInv /\ ClientsInv
  BY DEF IInv
<1>2. Onward /\ ConnInv'
  BY <1>1 DEF Onward, ConnInv
<1>3. TasksInv'
  BY <1>1, <1>2, TasksStep
<1>4. ClientsInv'
  BY <1>1, <1>2, ClientsStay
<1>5. ASSUME NEW u \in User
      PROVE  JoinsOnce(u)'
  <2>1. Joining(u)' => Joining(u)
    <3>1. CASE k # Receiver(u)
      <4>1. task'[Receiver(u)] = task[Receiver(u)]
        BY <1>1, <3>1, SetTaskEffect, TaskKeys
      <4>2. QED
        BY <4>1 DEF Joining
    <3>2. QED
      BY <3>1
  <2>2. JoinsOnce(u)
    BY DEF IInv
  <2>3. client'[u].synced = client[u].synced /\ conn'[u] = conn[u]
    OBVIOUS
  <2>4. conn[u] # "new" /\ u \in DOMAIN users' =>
          u \in DOMAIN users /\ (users[u] => users'[u])
    OBVIOUS
  <2>5. QED
    BY <2>1, <2>2, <2>3, <2>4, JoinsKept
<1>6. QED
  BY <1>2, <1>3, <1>4, <1>5 DEF IInv

\* What is left of a broadcast.
LEMMA SendingTask ==
  ASSUME IInv, NEW k \in Task, task[k].at \in {"prepared", "sending"},
         NEW to \in SUBSET User, SetTask(k, Sending(task[k].message, to)),
         UNCHANGED <<conn, version>>
  PROVE  /\ TaskInv(k)'
         /\ \A u \in User : k = Receiver(u) => (Joining(u)' => Joining(u))
<1>1. PICK m : m = task[k].message
  OBVIOUS
<1>2. TasksInv /\ TaskInv(k)
  BY DEF IInv, TasksInv
<1>3. task'[k] = Sending(m, to)
  BY <1>1, <1>2, SetTaskEffect
<1>4. /\ m \in Announced(k)
      /\ k[2] = "closer" => conn[k[1]] = "over"
      /\ k[2] \in {"receiver", "closer"}
  BY <1>1, <1>2, TaskKeys DEF TaskInv
<1>5. m.type = "join" => k[2] = "receiver"
  BY <1>4 DEF Announced, LeaveOf
<1>6. Announced(k)' = Announced(k)
  BY DEF Announced
<1>7. \/ task'[k].at = "sending" /\ task'[k].message = m /\ task'[k].to = to
      \/ task'[k].at = "reading" /\ m.type = "join"
      \/ task'[k].at = "idle"
  BY <1>3 DEF Sending, Idle
<1>8. TaskInv(k)'
  BY <1>2, <1>4, <1>5, <1>6, <1>7 DEF TaskInv
<1>9. ASSUME NEW u \in User, k = Receiver(u), Joining(u)'
      PROVE  Joining(u)
  BY <1>1, <1>7, <1>9 DEF Joining
<1>10. QED
  BY <1>8, <1>9

LEMMA ReadRecipientsInv ==
  ASSUME IInv, NEW k \in Task, ReadRecipients(k)
  PROVE  IInv'
<1>1. /\ task[k].at \in {"prepared", "sending"}
      /\ SetTask(k, Sending(task[k].message, Recipients(task[k].message)))
      /\ UNCHANGED <<conn, users, version, client, channel>>
      /\ Recipients(task[k].message) \in SUBSET User
  BY DEF ReadRecipients, Recipients, IInv, ConnInv
<1>2. Onward /\ ChannelsInv
  BY <1>1 DEF IInv, ConnInv, Onward
<1>3. ChannelsInv' /\ \A u \in User : StatesTo(u)' = StatesTo(u)
  BY <1>1, <1>2, ChannelsStay DEF StatesTo
<1>4. QED
  BY <1>1, <1>3, SendingTask, TaskStep

\* A message is sent to v.
LEMMA SendInv ==
  ASSUME IInv, Onward, NEW v \in User, NEW m, MessageInv(m)',
         channel' = [channel EXCEPT ![v] = Append(@, m)]
  PROVE  ChannelsInv'
<1>1. ChannelsInv /\ \A u \in User : \/ channel'[u] = channel[u]
                                     \/ channel'[u] = Append(channel[u], m)
  BY DEF IInv, ChannelsInv
<1>2. channel' = [u \in User |-> channel'[u]]
  BY DEF IInv, ChannelsInv
<1>3. QED
  BY <1>1, <1>2, ChannelsStep

LEMMA SendNextInv ==
  ASSUME IInv, NEW k \in Task, SendNext(k), NEW v \in task[k].to, HasRoom(v),
         NEW m, m = task[k].message,
         channel' = [channel EXCEPT ![v] = Append(@, m)],
         SetTask(k, Sending(m, task[k].to \ {v}))
  PROVE  IInv'
<1>1. /\ task[k].at = "sending" /\ TaskInv(k) /\ k[1] \in User
      /\ task[k].to \in SUBSET User
      /\ UNCHANGED <<conn, users, version, client>>
  BY TaskKeys DEF SendNext, IInv, TasksInv, TaskInv
<1>2. Onward /\ ChannelsInv
  BY <1>1 DEF IInv, ConnInv, Onward
<1>3. m.type # "state" /\ MessageInv(m)
  BY <1>1, TaskKeys DEF TaskInv, Announced, MessageInv, JoinOf, LeaveOf, ChangeTo
<1>4. MessageInv(m)'
  BY <1>2, <1>3, MessageStays
<1>5. ChannelsInv' /\ \A u \in User : StatesTo(u)' = StatesTo(u)
  BY <1>1, <1>2, <1>3, <1>4, SendInv, NoMoreStates
<1>6. /\ TaskInv(k)'
      /\ \A u \in User : k = Receiver(u) => (Joining(u)' => Joining(u))
  BY <1>1, SendingTask
<1>7. QED
  BY <1>1, <1>5, <1>6, TaskStep

\* A task is cut short.
LEMMA CutShortInv ==
  ASSUME IInv, NEW k \in Task, SetTask(k, Idle),
         UNCHANGED <<conn, users, version, client, channel>>
  PROVE  IInv'
<1>1. Onward /\ ChannelsInv /\ TasksInv
  BY DEF IInv, ConnInv, Onward
<1>2. ChannelsInv' /\ \A u \in User : StatesTo(u)' = StatesTo(u)
  BY <1>1, ChannelsStay DEF StatesTo
<1>3. task'[k] = Idle
  BY <1>1, SetTaskEffect
<1>4. /\ TaskInv(k)'
      /\ \A u \in User : k = Receiver(u) => ~Joining(u)'
  BY <1>3 DEF TaskInv, Joining, Idle
<1>5. QED
  BY <1>2, <1>4, TaskStep

\* A join goes on.
LEMMA JoiningOn ==
  ASSUME IInv, NEW u \in User, Joining(u), NEW t, SetTask(Receiver(u), t),
         t.at \in {"snapshot", "stating"}, t.version \in 0..version,
         UNCHANGED <<conn, users, version, client, channel>>
  PROVE  IInv'
<1>1. Onward /\ ChannelsInv /\ TasksInv
  BY DEF IInv, ConnInv, Onward
<1>2. ChannelsInv' /\ \A w \in User : StatesTo(w)' = StatesTo(w)
  BY <1>1, ChannelsStay DEF StatesTo
<1>3. Receiver(u) \in Task /\ Receiver(u)[2] = "receiver"
  BY TaskKeys DEF Receiver
<1>4. task'[Receiver(u)] = t
  BY <1>1, <1>3, SetTaskEffect
<1>5. TaskInv(Receiver(u))'
  BY <1>3, <1>4 DEF TaskInv
<1>6. \A w \in User : Receiver(u) = Receiver(w) => w = u
  BY DEF Receiver
<1>7. QED
  BY <1>2, <1>3, <1>5, <1>6, TaskStep

LEMMA ReadVersionInv ==
  ASSUME IInv, NEW u \in User, ReadVersion(u) \/ SnapshotUsers(u)
  PROVE  IInv'
<1>1. Joining(u)
  BY DEF Joining, ReadVersion, SnapshotUsers
<1>2. CASE ReadVersion(u)
  <2>1. PICK t : t = [at |-> "snapshot", version |-> version]
    OBVIOUS
  <2>2. t.at = "snapshot" /\ t.version \in 0..version
    BY <2>1 DEF IInv, ConnInv
  <2>3. QED
    BY <1>1, <1>2, <2>1, <2>2, JoiningOn DEF ReadVersion
<1>3. CASE SnapshotUsers(u)
  <2>1. PICK t : t = [at |-> "stating", version |-> task[Receiver(u)].version,
                      users |-> users]
    OBVIOUS
  <2>2. t.at = "stating" /\ t.version \in 0..version
    BY <1>3, <2>1, TaskKeys DEF IInv, TasksInv, TaskInv, SnapshotUsers
  <2>3. QED
    BY <1>1, <1>3, <2>1, <2>2, JoiningOn DEF SnapshotUsers
<1>4. QED
  BY <1>2, <1>3

LEMMA ConnectInv ==
  ASSUME IInv, NEW u \in User, Connect(u)
  PROVE  IInv'
<1>1. /\ conn[u] = "new" /\ conn' = [conn EXCEPT ![u] = "open"]
      /\ users' = With(users, u, FALSE)
      /\ UNCHANGED <<channel, task, version, client>>
  BY DEF Connect
<1>2. ConnInv /\ TasksInv /\ ChannelsInv /\ ClientsInv
  BY DEF IInv
<1>3. conn'[u] = "open" /\ \A w \in User \ {u} : conn'[w] = conn[w]
  BY <1>1, <1>2 DEF ConnInv
<1>4. Onward
  BY <1>1, <1>2, <1>3 DEF Onward, ConnInv
<1>5. DOMAIN users' = DOMAIN users \cup {u} /\ \A w \in DOMAIN users : w # u => users'[w] = users[w]
  BY <1>1 DEF With
<1>6. ConnInv'
  BY <1>1, <1>2, <1>3, <1>5 DEF ConnInv
<1>7. TasksInv' /\ ChannelsInv' /\ ClientsInv'
  BY <1>1, <1>2, <1>4, TasksStay, ChannelsStay, ClientsStay
<1>8. ASSUME NEW w \in User
      PROVE  JoinsOnce(w)'
  <2>1. JoinsOnce(w) /\ Joining(w)' = Joining(w) /\ StatesTo(w)' = StatesTo(w)
    BY <1>1 DEF IInv, Joining, StatesTo
  <2>2. /\ conn[w] # "new" => conn'[w] # "new"
        /\ conn[w] # "new" /\ w \in DOMAIN users' =>
             w \in DOMAIN users /\ (users[w] => users'[w])
    BY <1>1, <1>3, <1>5
  <2>3. QED
    BY <1>1, <2>1, <2>2, JoinsKept
<1>9. QED
  BY <1>6, <1>7, <1>8 DEF IInv

\* A receiver starts to announce something.
LEMMA PreparedTask ==
  ASSUME IInv, NEW u \in User, NEW m, SetTask(Receiver(u), Prepared(m)),
         m = JoinOf(u) \/ (version' \in Nat /\ m = ChangeTo(version'))
  PROVE  TaskInv(Receiver(u))'
<1>1. Receiver(u) \in Task /\ Receiver(u)[1] = u /\ Receiver(u)[2] = "receiver"
  BY TaskKeys DEF Receiver
<1>2. task'[Receiver(u)] = Prepared(m)
  BY <1>1, SetTaskEffect DEF IInv
<1>3. m \in Announced(Receiver(u))'
  BY <1>1 DEF Announced
<1>4. QED
  BY <1>1, <1>2, <1>3 DEF TaskInv, Prepared

LEMMA JoinInv ==
  ASSUME IInv, NEW u \in User, Join(u)
  PROVE  IInv'
<1>1. /\ conn[u] = "open" /\ ~users[u] /\ users' = With(users, u, TRUE)
      /\ SetTask(Receiver(u), Prepared(JoinOf(u)))
      /\ UNCHANGED <<conn, channel, version, client>>
  BY DEF Join, Handles
<1>2. ConnInv /\ TasksInv /\ ChannelsInv /\ ClientsInv
  BY DEF IInv
<1>3. Onward
  BY <1>1, <1>2 DEF Onward, ConnInv
<1>4. /\ u \in DOMAIN users /\ DOMAIN users' = DOMAIN users /\ users'[u]
      /\ \A w \in DOMAIN users : w # u => users'[w] = users[w]
  BY <1>1, <1>2 DEF With, ConnInv
<1>5. ConnInv'
  BY <1>1, <1>2, <1>4 DEF ConnInv
<1>6. TasksInv' /\ ChannelsInv' /\ ClientsInv'
  BY <1>1, <1>2, <1>3, PreparedTask, TaskKeys, TasksStep, ChannelsStay, ClientsStay
<1>7. ASSUME NEW w \in User, w # u
      PROVE  JoinsOnce(w)'
  <2>1. task'[Receiver(w)] = task[Receiver(w)]
    BY <1>1, <1>2, <1>7, SetTaskEffect, TaskKeys DEF Receiver
  <2>2. JoinsOnce(w) /\ Joining(w)' = Joining(w) /\ StatesTo(w)' = StatesTo(w)
    BY <1>1, <2>1 DEF IInv, Joining, StatesTo
  <2>3. QED
    BY <1>1, <1>4, <1>7, <2>2, JoinsKept
<1>8. JoinsOnce(u)'
  <2>1. JoinsOnce(u) /\ StatesTo(u)' = StatesTo(u)
    BY <1>1 DEF IInv, StatesTo
  <2>2. StatesTo(u) = {} /\ ~client[u].synced
    BY <1>1, <1>4, <2>1 DEF JoinsOnce
  <2>3. QED
    BY <1>1, <1>4, <2>1, <2>2 DEF JoinsOnce
<1>9. QED
  BY <1>5, <1>6, <1>7, <1>8 DEF IInv

LEMMA ChangeInv ==
  ASSUME IInv, NEW u \in User, Change(u)
  PROVE  IInv'
<1>1. /\ version' = version + 1
      /\ SetTask(Receiver(u), Prepared(ChangeTo(version')))
      /\ UNCHANGED <<conn, users, channel, client>>
  BY DEF Change
<1>2. ConnInv /\ TasksInv /\ ChannelsInv /\ ClientsInv
  BY DEF IInv
<1>3. Onward /\ ConnInv' /\ version' \in Nat
  BY <1>1, <1>2 DEF Onward, ConnInv
<1>4. TasksInv' /\ ChannelsInv' /\ ClientsInv'
  BY <1>1, <1>2, <1>3, PreparedTask, TaskKeys, TasksStep, ChannelsStay, ClientsStay
<1>5. ASSUME NEW w \in User
      PROVE  JoinsOnce(w)'
  <2>1. Joining(w)' => Joining(w)
    <3>1. CASE w = u
      <4>1. task'[Receiver(u)] = Prepared(ChangeTo(version'))
        BY <1>1, <1>2, SetTaskEffect, TaskKeys
      <4>2. ~Joining(w)'
        BY <3>1, <4>1 DEF Joining, Prepared, ChangeTo
      <4>3. QED
        BY <4>2
    <3>2. CASE w # u
      <4>1. task'[Receiver(w)] = task[Receiver(w)]
        BY <1>1, <1>2, <3>2, SetTaskEffect, TaskKeys DEF Receiver
      <4>2. QED
        BY <4>1 DEF Joining
    <3>3. QED
      BY <3>1, <3>2
  <2>2. JoinsOnce(w) /\ StatesTo(w)' = StatesTo(w)
    BY <1>1 DEF IInv, StatesTo
  <2>3. QED
    BY <1>1, <2>1, <2>2, JoinsKept
<1>6. QED
  BY <1>3, <1>4, <1>5 DEF IInv

LEMMA CloseChannelInv ==
  ASSUME IInv, NEW u \in User, CloseChannel(u)
  PROVE  IInv'
<1>1. /\ channel' = [channel EXCEPT ![u] = <<>>]
      /\ UNCHANGED <<conn, users, task, version, client>>
  BY DEF CloseChannel
<1>2. ConnInv /\ TasksInv /\ ChannelsInv /\ ClientsInv
  BY DEF IInv
<1>3. Onward /\ ConnInv'
  BY <1>1, <1>2 DEF Onward, ConnInv
<1>4. /\ channel' = [w \in User |-> channel'[w]] /\ channel'[u] = <<>>
      /\ \A w \in User \ {u} : channel'[w] = channel[w]
  BY <1>1, <1>2 DEF ChannelsInv
<1>5. TasksInv' /\ ChannelsInv' /\ ClientsInv'
  BY <1>1, <1>2, <1>3, <1>4, TasksStay, ChannelsStep, ClientsStay
<1>6. ASSUME NEW w \in User
      PROVE  JoinsOnce(w)'
  <2>1. JoinsOnce(w) /\ Joining(w)' = Joining(w)
    BY <1>1 DEF IInv, Joining
  <2>2. StatesTo(w)' = StatesTo(w) \/ StatesTo(w)' = {}
    BY <1>4 DEF StatesTo
  <2>3. QED
    BY <1>1, <2>1, <2>2 DEF JoinsOnce
<1>7. QED
  BY <1>3, <1>5, <1>6 DEF IInv

LEMMA EndInv ==
  ASSUME IInv, NEW u \in User, End(u)
  PROVE  IInv'
<1>1. /\ conn[u] = "open" /\ conn' = [conn EXCEPT ![u] = "ending"]
      /\ UNCHANGED <<users, channel, task, version, client>>
  BY DEF End
<1>2. ConnInv /\ TasksInv /\ ChannelsInv /\ ClientsInv
  BY DEF IInv
<1>3. conn'[u] = "ending" /\ \A w \in User \ {u} : conn'[w] = conn[w]
  BY <1>1, <1>2 DEF ConnInv
<1>4. Onward /\ ConnInv'
  BY <1>1, <1>2, <1>3 DEF Onward, ConnInv
<1>5. TasksInv' /\ ChannelsInv' /\ ClientsInv'
  BY <1>1, <1>2, <1>4, TasksStay, ChannelsStay, ClientsStay
<1>6. ASSUME NEW w \in User
      PROVE  JoinsOnce(w)'
  <2>1. JoinsOnce(w) /\ Joining(w)' = Joining(w) /\ StatesTo(w)' = StatesTo(w)
    BY <1>1 DEF IInv, Joining, StatesTo
  <2>2. QED
    BY <1>1, <1>3, <2>1, JoinsKept
<1>7. QED
  BY <1>4, <1>5, <1>6 DEF IInv

LEMMA LeaveInv ==
  ASSUME IInv, NEW u \in User, Leave(u)
  PROVE  IInv'
<1>1. /\ conn[u] = "ending" /\ conn' = [conn EXCEPT ![u] = "over"]
      /\ users' = Without(users, u)
      /\ SetTask(Closer(u), Prepared(LeaveOf(u)))
      /\ UNCHANGED <<channel, version, client>>
  BY DEF Leave, Goodbye
<1>2. ConnInv /\ TasksInv /\ ChannelsInv /\ ClientsInv
  BY DEF IInv
<1>3. conn'[u] = "over" /\ \A w \in User \ {u} : conn'[w] = conn[w]
  BY <1>1, <1>2 DEF ConnInv
<1>4. DOMAIN users' = DOMAIN users \ {u} /\ \A w \in DOMAIN users' : users'[w] = users[w]
  BY <1>1 DEF Without
<1>5. Onward /\ ConnInv'
  BY <1>1, <1>2, <1>3, <1>4 DEF Onward, ConnInv
<1>6. Closer(u) \in Task /\ Closer(u)[1] = u /\ Closer(u)[2] = "closer"
  BY TaskKeys DEF Closer
<1>7. /\ task'[Closer(u)] = Prepared(LeaveOf(u))
      /\ \A k \in Task \ {Closer(u)} : task'[k] = task[k]
  BY <1>1, <1>2, <1>6, SetTaskEffect
<1>8. TaskInv(Closer(u))'
  BY <1>3, <1>6, <1>7 DEF TaskInv, Announced, Prepared
<1>9. TasksInv' /\ ChannelsInv' /\ ClientsInv'
  BY <1>1, <1>2, <1>5, <1>6, <1>8, TasksStep, ChannelsStay, ClientsStay
<1>10. ASSUME NEW w \in User
       PROVE  JoinsOnce(w)'
  <2>1. task'[Receiver(w)] = task[Receiver(w)]
    BY <1>7, TaskKeys DEF Receiver, Closer
  <2>2. JoinsOnce(w) /\ Joining(w)' = Joining(w) /\ StatesTo(w)' = StatesTo(w)
    BY <1>1, <2>1 DEF IInv, Joining, StatesTo
  <2>3. QED
    BY <1>1, <1>3, <1>4, <2>2, JoinsKept
<1>11. QED
  BY <1>5, <1>9, <1>10 DEF IInv

\* The state is sent, or its channel is closed.
LEMMA SendStateInv ==
  ASSUME IInv, NEW u \in User, SendState(u)
  PROVE  IInv'
<1>1. /\ task[Receiver(u)].at = "stating" /\ SetTask(Receiver(u), Idle)
      /\ UNCHANGED <<conn, users, version, client>>
  BY DEF SendState
<1>2. ConnInv /\ TasksInv /\ ChannelsInv /\ ClientsInv
  BY DEF IInv
<1>3. Onward /\ ConnInv'
  BY <1>1, <1>2 DEF Onward, ConnInv
<1>4. CASE u \in closed
  BY <1>1, <1>4, CutShortInv, TaskKeys DEF SendState
<1>5. CASE u \notin closed
  <2>1. PICK m : m = [type |-> "state", version |-> task[Receiver(u)].version,
                      users |-> task[Receiver(u)].users]
    OBVIOUS
  <2>2. m.type = "state" /\ m.version \in 0..version /\ version' = version
    BY <1>1, <1>2, <2>1, TaskKeys DEF TasksInv, TaskInv
  <2>3. MessageInv(m)'
    BY <2>2 DEF MessageInv
  <2>4. channel' = [channel EXCEPT ![u] = Append(@, m)]
    BY <1>5, <2>1 DEF SendState
  <2>5. ChannelsInv'
    BY <1>3, <2>3, <2>4, SendInv
  <2>6. Receiver(u) \in Task
    BY TaskKeys
  <2>7. /\ task'[Receiver(u)] = Idle
        /\ \A k \in Task \ {Receiver(u)} : task'[k] = task[k]
    BY <1>1, <1>2, <2>6, SetTaskEffect
  <2>8. TaskInv(Receiver(u))'
    BY <2>7 DEF TaskInv, Idle
  <2>9. TasksInv' /\ ClientsInv'
    BY <1>1, <1>2, <1>3, <2>6, <2>8, TasksStep, ClientsStay
  <2>10. ASSUME NEW w \in User, w # u
         PROVE  JoinsOnce(w)'
    <3>1. task'[Receiver(w)] = task[Receiver(w)] /\ channel'[w] = channel[w]
      BY <1>2, <2>4, <2>7, <2>10, TaskKeys DEF Receiver, ChannelsInv
    <3>2. JoinsOnce(w) /\ Joining(w)' = Joining(w) /\ StatesTo(w)' = StatesTo(w)
      BY <3>1 DEF IInv, Joining, StatesTo
    <3>3. QED
      BY <1>1, <3>2, JoinsKept
  <2>11. JoinsOnce(u)'
    <3>1. JoinsOnce(u) /\ Joining(u)
      BY <1>1 DEF IInv, Joining
    <3>2. ~Joining(u)'
      BY <2>7 DEF Joining, Idle
    <3>3. channel'[u] = Append(channel[u], m) /\ IsSequence(channel[u])
      BY <1>2, <2>4 DEF ChannelsInv
    <3>4. /\ Len(channel'[u]) = Len(channel[u]) + 1 /\ Len(channel[u]) \in Nat
          /\ \A i \in 1..Len(channel[u]) : channel'[u][i] = channel[u][i]
      BY <3>3, AppendIsSequence DEF IsSequence
    <3>5. StatesTo(u) = {}
      BY <3>1 DEF JoinsOnce
    <3>6. ASSUME NEW i \in StatesTo(u)'
          PROVE  i = Len(channel[u]) + 1
      <4>1. i \in 1..Len(channel[u]) + 1 /\ channel'[u][i].type = "state"
        BY <3>4 DEF StatesTo
      <4>2. \A j \in 1..Len(channel[u]) : channel[u][j].type # "state"
        BY <3>5 DEF StatesTo
      <4>3. QED
        BY <3>4, <4>1, <4>2
    <3>7. QED
      BY <1>1, <3>1, <3>2, <3>6 DEF JoinsOnce
  <2>12. QED
    BY <1>3, <2>5, <2>9, <2>10, <2>11 DEF IInv
<1>6. QED
  BY <1>4, <1>5

\* What a message makes of a client.
LEMMA ReceivedInv ==
  ASSUME IInv, NEW c, ClientInv(c), NEW m, MessageInv(m),
         NEW d, d = Received(c, m)
  PROVE  /\ ClientInv(d)
         /\ m.type = "state" => d.synced
         /\ m.type # "state" => d.synced = c.synced
<1>1. version \in Nat
  BY DEF IInv, ConnInv
<1>2. /\ DOMAIN c = {"synced", "shown", "version", "buffer"}
      /\ c.version \in 0..version /\ c.buffer \in SUBSET (0..version)
  BY DEF ClientInv
<1>3. CASE m.type = "state"
  <2>1. d = [synced |-> TRUE, shown |-> m.users, version |-> Max({m.version} \cup c.buffer),
             buffer |-> {}]
    BY <1>3 DEF Received, Synced
  <2>2. {m.version} \cup c.buffer \in SUBSET (0..version)
    BY <1>2, <1>3 DEF MessageInv
  <2>3. Max({m.version} \cup c.buffer) \in 0..version
    BY <1>1, <2>2, MaxOfBounded
  <2>4. QED
    BY <1>3, <2>1, <2>3 DEF ClientInv
<1>4. CASE m.type = "change" /\ c.synced
  <2>1. d = [c EXCEPT !.version = Max({@, m.version})]
    BY <1>4 DEF Received
  <2>2. {c.version, m.version} \in SUBSET (0..version)
    BY <1>2, <1>4 DEF MessageInv
  <2>3. Max({c.version, m.version}) \in 0..version
    BY <1>1, <2>2, MaxOfBounded
  <2>4. QED
    BY <1>2, <1>4, <2>1, <2>3 DEF ClientInv
<1>5. CASE m.type = "change" /\ ~c.synced
  <2>1. d = [c EXCEPT !.buffer = @ \cup {m.version}]
    BY <1>5 DEF Received
  <2>2. m.version \in 0..version
    BY <1>5 DEF MessageInv
  <2>3. QED
    BY <1>2, <1>5, <2>1, <2>2 DEF ClientInv
<1>6. CASE m.type \in {"join", "leave"}
  <2>1. d = [c EXCEPT !.shown = Shown(@, m)]
    BY <1>6 DEF Received
  <2>2. QED
    BY <1>2, <1>6, <2>1 DEF ClientInv
<1>7. QED
  BY <1>3, <1>4, <1>5, <1>6 DEF MessageInv

\* The head of its channel comes to u.
LEMMA ReceiveEffect ==
  ASSUME IInv, NEW u \in User, Receive(u)
  PROVE  /\ Len(channel[u]) \in Nat /\ Len(channel[u]) > 0
         /\ Head(channel[u]) = channel[u][1] /\ MessageInv(channel[u][1])
         /\ channel'[u] = Tail(channel[u]) /\ Len(channel'[u]) = Len(channel[u]) - 1
         /\ \A i \in 1..Len(channel[u]) - 1 : channel'[u][i] = channel[u][i + 1]
         /\ channel' = [w \in User |-> channel'[w]]
         /\ client' = [w \in User |-> client'[w]]
         /\ client'[u] = Received(client[u], channel[u][1])
         /\ \A w \in User \ {u} : channel'[w] = channel[w] /\ client'[w] = client[w]
         /\ UNCHANGED <<conn, users, closed, task, version, missed, overtaken>>
<1>1. IsSequence(channel[u]) /\ channel[u] # <<>>
  BY DEF IInv, ChannelsInv, Receive
<1>2. Len(channel[u]) \in Nat /\ Len(channel[u]) > 0
  BY <1>1 DEF IsSequence
<1>3. Head(channel[u]) = channel[u][1]
  OBVIOUS
<1>4. MessageInv(channel[u][1])
  BY <1>2 DEF IInv, ChannelsInv
<1>5. channel' = [channel EXCEPT ![u] = Tail(@)]
  BY DEF Receive
<1>6. client' = [client EXCEPT ![u] = Received(@, Head(channel[u]))]
  BY DEF Receive
<1>7. UNCHANGED <<conn, users, closed, task, version, missed, overtaken>>
  BY DEF Receive, serverVars
<1>8. /\ channel' = [w \in User |-> channel'[w]] /\ channel'[u] = Tail(channel[u])
      /\ \A w \in User \ {u} : channel'[w] = channel[w]
  BY <1>5 DEF IInv, ChannelsInv
<1>9. /\ client' = [w \in User |-> client'[w]]
      /\ client'[u] = Received(client[u], channel[u][1])
      /\ \A w \in User \ {u} : client'[w] = client[w]
  BY <1>3, <1>6 DEF IInv, ClientsInv
<1>10. QED
  BY <1>1, <1>2, <1>3, <1>4, <1>7, <1>8, <1>9, TailIsSequence

LEMMA ReceiveInv ==
  ASSUME IInv, NEW u \in User, Receive(u)
  PROVE  IInv'
<1>0. ConnInv /\ TasksInv /\ ChannelsInv /\ ClientsInv
  BY DEF IInv
<1>1. /\ Len(channel[u]) \in Nat /\ Len(channel[u]) > 0
      /\ MessageInv(channel[u][1])
      /\ channel'[u] = Tail(channel[u]) /\ Len(channel'[u]) = Len(channel[u]) - 1
      /\ \A i \in 1..Len(channel[u]) - 1 : channel'[u][i] = channel[u][i + 1]
      /\ channel' = [w \in User |-> channel'[w]]
      /\ client' = [w \in User |-> client'[w]]
      /\ client'[u] = Received(client[u], channel[u][1])
      /\ \A w \in User \ {u} : channel'[w] = channel[w] /\ client'[w] = client[w]
      /\ UNCHANGED <<conn, users, task, version>>
  BY ReceiveEffect
<1>2. Onward /\ ConnInv'
  BY <1>0, <1>1 DEF Onward, ConnInv
<1>3. channel[u] # <<>>
  BY DEF Receive
<1>4. TasksInv' /\ ChannelsInv'
  BY <1>0, <1>1, <1>2, <1>3, TasksStay, ChannelsStep
<1>5. /\ ClientInv(client'[u])
      /\ channel[u][1].type = "state" => client'[u].synced
      /\ channel[u][1].type # "state" => client'[u].synced = client[u].synced
  <2>1. ClientInv(client[u])
    BY <1>0 DEF ClientsInv
  <2>2. PICK c, m, d : c = client[u] /\ m = channel[u][1] /\ d = Received(c, m)
    OBVIOUS
  <2>3. ClientInv(c) /\ MessageInv(m)
    BY <1>1, <2>1, <2>2
  <2>4. /\ ClientInv(d)
        /\ m.type = "state" => d.synced
        /\ m.type # "state" => d.synced = c.synced
    BY <2>2, <2>3, ReceivedInv
  <2>5. QED
    BY <1>1, <2>2, <2>4
<1>6. ClientsInv'
  BY <1>0, <1>1, <1>5 DEF ClientsInv, ClientInv
<1>7. ASSUME NEW w \in User
      PROVE  JoinsOnce(w)'
  <2>1. JoinsOnce(w) /\ Joining(w)' = Joining(w)
    BY <1>1 DEF IInv, Joining
  <2>2. CASE w # u
    <3>1. StatesTo(w)' = StatesTo(w) /\ client'[w] = client[w]
      BY <1>1, <2>2 DEF StatesTo
    <3>2. QED
      BY <1>1, <2>1, <3>1, JoinsKept
  <2>3. CASE w = u
    <3>1. \A i : i \in StatesTo(u)' <=> i + 1 \in StatesTo(u) /\ i \in 1..Len(channel[u]) - 1
      BY <1>1 DEF StatesTo
    <3>2. channel[u][1].type = "state" <=> 1 \in StatesTo(u)
      BY <1>1 DEF StatesTo
    <3>3. \A i, j \in StatesTo(u)' : i = j
      BY <2>1, <2>3, <3>1 DEF JoinsOnce
    <3>4. StatesTo(u)' # {} => StatesTo(u) # {}
      BY <3>1
    <3>5. channel[u][1].type = "state" => StatesTo(u)' = {}
      BY <2>1, <2>3, <3>1, <3>2 DEF JoinsOnce
    <3>6. QED
      BY <1>1, <1>5, <2>1, <2>3, <3>2, <3>3, <3>4, <3>5 DEF JoinsOnce
  <2>4. QED
    BY <2>2, <2>3
<1>8. QED
  BY <1>2, <1>4, <1>6, <1>7 DEF IInv

LEMMA StepInv ==
  ASSUME IInv, [Next]_vars
  PROVE  IInv'
<1>1. CASE UNCHANGED vars
  <2>1. UNCHANGED <<conn, users, closed, channel, task, version, client>>
    BY <1>1 DEF vars, serverVars
  <2>2. Onward /\ ConnInv' /\ \A u \in User : JoinsOnce(u)'
    BY <2>1 DEF IInv, Onward, ConnInv, JoinsOnce, Joining, StatesTo
  <2>3. QED
    BY <2>1, <2>2, TasksStay, ChannelsStay, ClientsStay DEF IInv
<1>2. ASSUME NEW k \in Task, Broadcasting(k)
      PROVE  IInv'
  <2>1. CASE ReadRecipients(k)
    BY <2>1, ReadRecipientsInv
  <2>2. CASE SendNext(k)
    <3>1. PICK v \in task[k].to :
            /\ HasRoom(v)
            /\ channel' = [channel EXCEPT ![v] = Append(@, task[k].message)]
            /\ SetTask(k, Sending(task[k].message, task[k].to \ {v}))
      BY <2>2 DEF SendNext
    <3>2. QED
      BY <2>2, <3>1, SendNextInv
  <2>3. CASE SendFails(k)
    BY <2>3, CutShortInv DEF SendFails
  <2>4. QED
    BY <1>2, <2>1, <2>2, <2>3 DEF Broadcasting
<1>3. ASSUME NEW u \in User, Aborted(u)
      PROVE  IInv'
  BY <1>3, CutShortInv, TaskKeys DEF Aborted
<1>4. ASSUME NEW u \in User, Stating(u)
      PROVE  IInv'
  BY <1>4, ReadVersionInv, SendStateInv DEF Stating
<1>5. QED
  BY <1>1, <1>2, <1>3, <1>4, ReceiveInv, ConnectInv, JoinInv, ChangeInv, CloseChannelInv,
     EndInv, LeaveInv DEF Next

\* What tasks, channels and clients hold is well-formed, and a user is sent the state
\* once at most, in the reply to its one join (user.rs, handle_join).
THEOREM Invariance == Spec => []IInv
<1>1. QED
  BY InitInv, StepInv, PTL DEF Spec

----------------------------------------------------------------------------
(* What is owed.                                                           *)

LEMMA OwesElsewhere ==
  ASSUME IInv, NEW k \in Task, NEW t, SetTask(k, t), NEW j \in Task, j # k,
         NEW m, NEW u
  PROVE  Owes(j, m, u)' <=> Owes(j, m, u)
<1>1. task'[j] = task[j]
  BY SetTaskEffect DEF IInv
<1>2. QED
  BY <1>1 DEF Owes

\* A broadcast that goes on owes what it did, but for a message just sent.
LEMMA SendingOwes ==
  ASSUME IInv, NEW k \in Task, NEW m, NEW u, Owes(k, m, u),
         NEW to, u \in to, SetTask(k, Sending(task[k].message, to))
  PROVE  Owes(k, m, u)'
<1>1. task'[k] = Sending(m, to)
  BY SetTaskEffect DEF IInv, Owes
<1>2. task'[k].at = "sending" /\ task'[k].to = to /\ task'[k].message = m
  BY <1>1 DEF Sending
<1>3. QED
  BY <1>2 DEF Owes

\* What a broadcast that is cut short owes a user is missed.
LEMMA MissedOwes ==
  ASSUME NEW k \in Task, NEW m, NEW u \in DOMAIN users, Owes(k, m, u),
         missed' = missed \cup Missed(task[k])
  PROVE  <<u, m>> \in missed'
BY DEF Owes, Missed

----------------------------------------------------------------------------
(* Versions come, one action after the other.                              *)

\* A step that takes nothing from u.
LEMMA VersionStays ==
  ASSUME NEW u \in User, VersionComes(u), version' = version, missed \subseteq missed',
         client'[u] = client[u], NEW m, m = ChangeTo(version),
         \A k \in Task : Owes(k, m, u) =>
           \/ \E j \in Task : Owes(j, m, u)'
           \/ <<u, m>> \in missed'
           \/ \E i \in 1..Len(channel'[u]) : channel'[u][i] = m,
         \A i \in 1..Len(channel[u]) :
           i \in 1..Len(channel'[u]) /\ channel'[u][i] = channel[u][i],
         task[Receiver(u)].at \in {"snapshot", "stating"}
             /\ task[Receiver(u)].version = version => VersionComes(u)',
         Unread(u, {"snapshot", "stating"}) => VersionComes(u)'
  PROVE  VersionComes(u)'
<1>1. CASE <<u, m>> \in missed
  BY <1>1 DEF VersionComes
<1>2. CASE \E k \in Task : Owes(k, m, u)
  <2>1. ChangeTo(version)' = m
    BY DEF ChangeTo
  <2>2. CASE \E j \in Task : Owes(j, m, u)'
    <3>1. PICK j \in Task : Owes(j, m, u)'
      BY <2>2
    <3>2. Owes(j, ChangeTo(version), u)'
      BY <2>1, <3>1 DEF Owes
    <3>3. QED
      BY <3>2 DEF VersionComes
  <2>3. QED
    BY <1>2, <2>1, <2>2 DEF VersionComes
<1>3. CASE \E i \in 1..Len(channel[u]) :
             \/ channel[u][i] = m
             \/ channel[u][i].type = "state" /\ channel[u][i].version = version
  BY <1>3 DEF VersionComes
<1>4. CASE \/ client[u].synced /\ client[u].version = version
           \/ ~client[u].synced /\ version \in client[u].buffer
  BY <1>4 DEF VersionComes
<1>5. QED
  BY <1>1, <1>2, <1>3, <1>4 DEF VersionComes

LEMMA UnreadStays ==
  ASSUME NEW u \in User, NEW ats, client'[u] = client[u], StatesTo(u)' = StatesTo(u),
         task'[Receiver(u)].at \notin ats, Unread(u, ats)
  PROVE  Unread(u, ats)'
BY DEF Unread

LEMMA IsMember ==
  ASSUME IInv
  PROVE  \A u \in Tracked : u \in User /\ u \in DOMAIN users /\ Receiver(u) \in Task
BY TaskKeys DEF Tracked, IInv, ConnInv

\* A task other than the one that reads the state of u goes on.
LEMMA VersionTaskStep ==
  ASSUME IInv, NEW u \in User, VersionComes(u),
         UNCHANGED <<version, client, channel>>, missed \subseteq missed',
         NEW k \in Task, NEW t, SetTask(k, t), NEW m, m = ChangeTo(version),
         Owes(k, m, u) => Owes(k, m, u)' \/ <<u, m>> \in missed',
         k = Receiver(u) => /\ task[k].at \notin {"snapshot", "stating"}
                            /\ t.at \notin {"snapshot", "stating"}
  PROVE  VersionComes(u)'
<1>1. \A j \in Task \ {k} : Owes(j, m, u)' <=> Owes(j, m, u)
  BY OwesElsewhere
<1>2. StatesTo(u)' = StatesTo(u) /\ Receiver(u) \in Task
  BY TaskKeys DEF StatesTo
<1>3. /\ task'[k] = t /\ \A j \in Task \ {k} : task'[j] = task[j]
  BY SetTaskEffect DEF IInv
<1>4. \/ task'[Receiver(u)] = task[Receiver(u)]
      \/ /\ task[Receiver(u)].at \notin {"snapshot", "stating"}
         /\ task'[Receiver(u)].at \notin {"snapshot", "stating"}
  BY <1>2, <1>3
<1>5. ASSUME task[Receiver(u)].at \in {"snapshot", "stating"},
             task[Receiver(u)].version = version
      PROVE  VersionComes(u)'
  BY <1>4, <1>5 DEF VersionComes
<1>6. ASSUME Unread(u, {"snapshot", "stating"})
      PROVE  VersionComes(u)'
  <2>1. Unread(u, {"snapshot", "stating"})'
    BY <1>2, <1>4, <1>6 DEF Unread
  <2>2. QED
    BY <2>1 DEF VersionComes
<1>7. QED
  BY <1>1, <1>5, <1>6, VersionStays

\* No task goes on.
LEMMA VersionIdleStep ==
  ASSUME IInv, NEW u \in User, VersionComes(u), UNCHANGED <<version, client, task, missed>>,
         channel'[u] = channel[u]
  PROVE  VersionComes(u)'
BY DEF VersionComes, Owes, Unread, StatesTo, ChangeTo

LEMMA ReadRecipientsVersion ==
  ASSUME IInv, VersionsInv, NEW k \in Task, ReadRecipients(k)
  PROVE  VersionsInv'
<1>1. /\ task[k].at = "prepared" /\ missed \subseteq missed'
      /\ UNCHANGED <<users, closed, version, client, channel>>
  BY DEF ReadRecipients
<1>2. SUFFICES ASSUME NEW u \in Tracked
               PROVE  VersionComes(u)'
  BY <1>1 DEF VersionsInv, Tracked
<1>3. VersionComes(u) /\ u \in User /\ u \in DOMAIN users
  BY IsMember DEF VersionsInv
<1>4. PICK t, m : /\ t = Sending(task[k].message, Recipients(task[k].message))
                  /\ m = ChangeTo(version)
  OBVIOUS
<1>5. SetTask(k, t) /\ t.at \in {"sending", "reading", "idle"}
  BY <1>4 DEF ReadRecipients, Sending, Idle
<1>6. ASSUME Owes(k, m, u)
      PROVE  Owes(k, m, u)'
  <2>1. task[k].message = m /\ Recipients(m) = DOMAIN users
    BY <1>4, <1>6 DEF Owes, Recipients, ChangeTo
  <2>2. QED
    BY <1>3, <1>4, <1>5, <1>6, <2>1, SendingOwes
<1>7. QED
  BY <1>1, <1>3, <1>4, <1>5, <1>6, VersionTaskStep

LEMMA CutShortVersion ==
  ASSUME IInv, VersionsInv, NEW k \in Task, SetTask(k, Idle),
         missed' = missed \cup Missed(task[k]),
         UNCHANGED <<users, closed, version, client, channel>>
  PROVE  VersionsInv'
<1>1. SUFFICES ASSUME NEW u \in Tracked
               PROVE  VersionComes(u)'
  BY DEF VersionsInv, Tracked
<1>2. VersionComes(u) /\ u \in User /\ u \in DOMAIN users
  BY IsMember DEF VersionsInv
<1>3. PICK m : m = ChangeTo(version)
  OBVIOUS
<1>4. Owes(k, m, u) => <<u, m>> \in missed'
  BY <1>2, MissedOwes
<1>5. CASE k = Receiver(u) /\ Joining(u)
  <2>1. StatesTo(u)' = StatesTo(u) /\ StatesTo(u) = {} /\ ~client'[u].synced
    BY <1>2, <1>5 DEF IInv, JoinsOnce, StatesTo
  <2>2. task'[Receiver(u)] = Idle
    BY <1>5, SetTaskEffect DEF IInv
  <2>3. Unread(u, {"snapshot", "stating"})'
    BY <2>1, <2>2 DEF Unread, Idle
  <2>4. QED
    BY <2>3 DEF VersionComes
<1>6. CASE ~(k = Receiver(u) /\ Joining(u))
  <2>1. k = Receiver(u) => task[k].at \notin {"snapshot", "stating"}
    BY <1>6 DEF Joining
  <2>2. Idle.at \notin {"snapshot", "stating"}
    BY DEF Idle
  <2>3. PICK t : t = Idle
    OBVIOUS
  <2>4. QED
    BY <1>2, <1>3, <1>4, <2>1, <2>2, <2>3, VersionTaskStep
<1>7. QED
  BY <1>5, <1>6

LEMMA SendNextVersion ==
  ASSUME IInv, VersionsInv, NEW k \in Task, SendNext(k), NEW v \in task[k].to,
         NEW n, n = task[k].message,
         channel' = [channel EXCEPT ![v] = Append(@, n)],
         SetTask(k, Sending(n, task[k].to \ {v}))
  PROVE  VersionsInv'
<1>1. /\ task[k].at = "sending" /\ missed \subseteq missed'
      /\ UNCHANGED <<users, closed, version, client>>
  BY DEF SendNext
<1>2. SUFFICES ASSUME NEW u \in Tracked
               PROVE  VersionComes(u)'
  BY <1>1 DEF VersionsInv, Tracked
<1>3. VersionComes(u) /\ u \in User /\ u \in DOMAIN users /\ Receiver(u) \in Task
  BY IsMember DEF VersionsInv
<1>4. PICK t, m : t = Sending(n, task[k].to \ {v}) /\ m = ChangeTo(version)
  OBVIOUS
<1>5. t.at \in {"sending", "reading", "idle"}
  BY <1>4 DEF Sending, Idle
<1>6. /\ task'[k] = t /\ \A j \in Task \ {k} : task'[j] = task[j]
  BY <1>4, SetTaskEffect DEF IInv
<1>7. \A j \in Task \ {k} : Owes(j, m, u)' <=> Owes(j, m, u)
  BY <1>4, OwesElsewhere
<1>8. v \in User /\ n.type # "state" /\ ChannelsInv
  <2>1. TaskInv(k) /\ ChannelsInv
    BY DEF IInv, TasksInv
  <2>2. v \in User /\ n \in Announced(k)
    BY <1>1, <2>1 DEF TaskInv
  <2>3. n.type # "state"
    BY <2>2 DEF Announced, JoinOf, LeaveOf, ChangeTo
  <2>4. QED
    BY <2>1, <2>2, <2>3
<1>9. StatesTo(u)' = StatesTo(u)
  BY <1>3, <1>8, NoMoreStates
<1>10. /\ \A i \in 1..Len(channel[u]) :
            i \in 1..Len(channel'[u]) /\ channel'[u][i] = channel[u][i]
       /\ u = v => \E i \in 1..Len(channel'[u]) : channel'[u][i] = n
  <2>1. IsSequence(channel[u]) /\ Len(channel[u]) \in Nat
    BY <1>3, <1>8 DEF ChannelsInv, IsSequence
  <2>2. u # v => channel'[u] = channel[u]
    BY <1>3, <1>8 DEF ChannelsInv
  <2>3. u = v => channel'[u] = Append(channel[u], n)
    BY <1>3, <1>8 DEF ChannelsInv
  <2>4. QED
    BY <2>1, <2>2, <2>3, AppendIsSequence
<1>11. Owes(k, m, u) => \/ Owes(k, m, u)'
                        \/ \E i \in 1..Len(channel'[u]) : channel'[u][i] = m
  <2>1. CASE u = v
    BY <1>10, <2>1 DEF Owes
  <2>2. CASE u # v
    <3>1. Owes(k, m, u) => u \in task[k].to \ {v}
      BY <1>1, <2>2 DEF Owes
    <3>2. QED
      BY <3>1, SendingOwes
  <2>3. QED
    BY <2>1, <2>2
<1>12. \/ task'[Receiver(u)] = task[Receiver(u)]
       \/ /\ task[Receiver(u)].at \notin {"snapshot", "stating"}
          /\ task'[Receiver(u)].at \notin {"snapshot", "stating"}
  BY <1>1, <1>3, <1>5, <1>6
<1>13. ASSUME task[Receiver(u)].at \in {"snapshot", "stating"},
              task[Receiver(u)].version = version
       PROVE  VersionComes(u)'
  BY <1>1, <1>12, <1>13 DEF VersionComes
<1>14. ASSUME Unread(u, {"snapshot", "stating"})
       PROVE  VersionComes(u)'
  <2>1. Unread(u, {"snapshot", "stating"})'
    BY <1>1, <1>9, <1>12, <1>14 DEF Unread
  <2>2. QED
    BY <2>1 DEF VersionComes
<1>15. client'[u] = client[u] /\ version' = version
  BY <1>1
<1>16. \A j \in Task : Owes(j, m, u) =>
         \/ \E i \in Task : Owes(i, m, u)'
         \/ \E i \in 1..Len(channel'[u]) : channel'[u][i] = m
  BY <1>7, <1>11
<1>17. QED
  BY <1>1, <1>3, <1>4, <1>10, <1>13, <1>14, <1>15, <1>16, VersionStays

\* The version is read, now or before.
LEMMA ReadVersionVersion ==
  ASSUME IInv, VersionsInv, NEW w \in User, ReadVersion(w) \/ SnapshotUsers(w)
  PROVE  VersionsInv'
<1>1. /\ task[Receiver(w)].at \in {"reading", "snapshot"}
      /\ missed \subseteq missed'
      /\ UNCHANGED <<users, closed, version, client, channel>>
  BY DEF ReadVersion, SnapshotUsers
<1>2. PICK t : /\ SetTask(Receiver(w), t) /\ t.at \in {"snapshot", "stating"}
               /\ task[Receiver(w)].at = "reading" => t.version = version
               /\ task[Receiver(w)].at = "snapshot" =>
                    t.version = task[Receiver(w)].version
  <2>1. CASE ReadVersion(w)
    <3>1. PICK t : t = [at |-> "snapshot", version |-> version]
      OBVIOUS
    <3>2. QED
      BY <2>1, <3>1 DEF ReadVersion
  <2>2. CASE SnapshotUsers(w)
    <3>1. PICK t : t = [at |-> "stating", version |-> task[Receiver(w)].version,
                        users |-> users]
      OBVIOUS
    <3>2. QED
      BY <2>2, <3>1 DEF SnapshotUsers
  <2>3. QED
    BY <2>1, <2>2
<1>3. SUFFICES ASSUME NEW u \in Tracked
               PROVE  VersionComes(u)'
  BY <1>1 DEF VersionsInv, Tracked
<1>4. VersionComes(u) /\ u \in User /\ u \in DOMAIN users
  BY IsMember DEF VersionsInv
<1>5. PICK k, m : k = Receiver(w) /\ m = ChangeTo(version)
  OBVIOUS
<1>6. k \in Task /\ ~Owes(k, m, u)
  BY <1>1, <1>5, TaskKeys DEF Owes
<1>7. CASE u # w
  <2>1. k # Receiver(u)
    BY <1>5, <1>7 DEF Receiver
  <2>2. QED
    BY <1>1, <1>2, <1>4, <1>5, <1>6, <2>1, VersionTaskStep
<1>8. CASE u = w
  <2>1. task'[k] = t /\ \A j \in Task \ {k} : task'[j] = task[j]
    BY <1>2, <1>5, <1>6, SetTaskEffect DEF IInv
  <2>2. \A j \in Task \ {k} : Owes(j, m, u)' <=> Owes(j, m, u)
    BY <1>2, <1>5, <1>6, OwesElsewhere
  <2>3. CASE task[Receiver(u)].at = "reading"
    BY <1>1, <1>2, <1>5, <1>8, <2>1, <2>3 DEF VersionComes
  <2>4. CASE task[Receiver(u)].at = "snapshot"
    <3>1. ~Unread(u, {"snapshot", "stating"})
      BY <2>4 DEF Unread
    <3>2. ASSUME task[Receiver(u)].version = version
          PROVE  VersionComes(u)'
      BY <1>1, <1>2, <1>5, <1>8, <2>1, <2>4, <3>2 DEF VersionComes
    <3>3. QED
      BY <1>1, <1>4, <1>5, <1>6, <2>2, <3>1, <3>2, VersionStays
  <2>5. QED
    BY <1>1, <1>8, <2>3, <2>4
<1>9. QED
  BY <1>7, <1>8

LEMMA SendStateVersion ==
  ASSUME IInv, VersionsInv, NEW w \in User, SendState(w)
  PROVE  VersionsInv'
<1>1. /\ task[Receiver(w)].at = "stating" /\ SetTask(Receiver(w), Idle)
      /\ missed \subseteq missed' /\ UNCHANGED <<users, closed, version, client>>
  BY DEF SendState
<1>2. SUFFICES ASSUME NEW u \in Tracked
               PROVE  VersionComes(u)'
  BY <1>1 DEF VersionsInv, Tracked
<1>3. VersionComes(u) /\ u \in User /\ u \in DOMAIN users /\ ChannelsInv
  BY IsMember DEF VersionsInv, IInv
<1>4. PICK k, m, t : k = Receiver(w) /\ m = ChangeTo(version) /\ t = Idle
  OBVIOUS
<1>5. k \in Task /\ ~Owes(k, m, u)
  BY <1>1, <1>4, TaskKeys DEF Owes
<1>6. /\ task'[k] = t /\ \A j \in Task \ {k} : task'[j] = task[j]
  BY <1>1, <1>4, <1>5, SetTaskEffect DEF IInv
<1>7. \A j \in Task \ {k} : Owes(j, m, u)' <=> Owes(j, m, u)
  BY <1>1, <1>4, <1>5, OwesElsewhere
<1>8. CASE u # w
  <2>1. k # Receiver(u) /\ channel'[u] = channel[u] /\ Receiver(u) \in Task
    BY <1>3, <1>4, <1>8, TaskKeys DEF Receiver, SendState, ChannelsInv
  <2>2. task'[Receiver(u)] = task[Receiver(u)] /\ StatesTo(u)' = StatesTo(u)
    BY <1>6, <2>1 DEF StatesTo
  <2>3. ASSUME \/ /\ task[Receiver(u)].at \in {"snapshot", "stating"}
                  /\ task[Receiver(u)].version = version
               \/ Unread(u, {"snapshot", "stating"})
        PROVE  VersionComes(u)'
    <3>1. CASE /\ task[Receiver(u)].at \in {"snapshot", "stating"}
               /\ task[Receiver(u)].version = version
      BY <1>1, <2>2, <3>1 DEF VersionComes
    <3>2. CASE Unread(u, {"snapshot", "stating"})
      <4>1. Unread(u, {"snapshot", "stating"})'
        BY <1>1, <2>2, <3>2 DEF Unread
      <4>2. QED
        BY <4>1 DEF VersionComes
    <3>3. QED
      BY <2>3, <3>1, <3>2
  <2>4. \A i \in 1..Len(channel[u]) :
          i \in 1..Len(channel'[u]) /\ channel'[u][i] = channel[u][i]
    BY <2>1
  <2>5. client'[u] = client[u] /\ version' = version
    BY <1>1
  <2>6. \A j \in Task : Owes(j, m, u) => \E i \in Task : Owes(i, m, u)'
    BY <1>5, <1>7
  <2>7. QED
    BY <1>1, <1>3, <1>4, <2>3, <2>4, <2>5, <2>6, VersionStays
<1>9. CASE u = w
  <2>1. PICK n : n = [type |-> "state", version |-> task[k].version,
                      users |-> task[k].users]
    OBVIOUS
  <2>2. n.type = "state" /\ n.version = task[k].version
    BY <2>1
  <2>3. channel'[u] = Append(channel[u], n)
    BY <1>3, <1>4, <1>9, <2>1 DEF SendState, Tracked, ChannelsInv
  <2>4. IsSequence(channel[u]) /\ Len(channel[u]) \in Nat
    BY <1>3 DEF ChannelsInv, IsSequence
  <2>5. /\ \A i \in 1..Len(channel[u]) :
             i \in 1..Len(channel'[u]) /\ channel'[u][i] = channel[u][i]
        /\ Len(channel[u]) + 1 \in 1..Len(channel'[u])
        /\ channel'[u][Len(channel[u]) + 1] = n
    BY <2>3, <2>4, AppendIsSequence
  <2>6. ~Unread(u, {"snapshot", "stating"})
    BY <1>1, <1>9 DEF Unread
  <2>7. ASSUME task[Receiver(u)].version = version
        PROVE  VersionComes(u)'
    <3>1. n.version = version'
      BY <1>1, <1>4, <1>9, <2>2, <2>7
    <3>2. \E i \in 1..Len(channel'[u]) :
            channel'[u][i].type = "state" /\ channel'[u][i].version = version'
      BY <2>2, <2>5, <3>1
    <3>3. QED
      BY <3>2 DEF VersionComes
  <2>8. client'[u] = client[u] /\ version' = version
    BY <1>1
  <2>9. \A j \in Task : Owes(j, m, u) => \E i \in Task : Owes(i, m, u)'
    BY <1>5, <1>7
  <2>10. QED
    BY <1>1, <1>3, <1>4, <2>5, <2>6, <2>7, <2>8, <2>9, VersionStays
<1>10. QED
  BY <1>8, <1>9

\* A change is announced to everybody.
LEMMA ChangeVersion ==
  ASSUME IInv, NEW w \in User, Change(w)
  PROVE  VersionsInv'
<1>1. /\ SetTask(Receiver(w), Prepared(ChangeTo(version'))) /\ Receiver(w) \in Task
  BY TaskKeys DEF Change
<1>2. task'[Receiver(w)] = Prepared(ChangeTo(version'))
  BY <1>1, SetTaskEffect DEF IInv
<1>3. \A u : Owes(Receiver(w), ChangeTo(version), u)'
  BY <1>2 DEF Owes, Prepared, ChangeTo
<1>4. QED
  BY <1>1, <1>3 DEF VersionsInv, VersionComes

\* Somebody joins, or says goodbye: a task that was idle, or done with changes.
LEMMA PreparedVersion ==
  ASSUME IInv, VersionsInv, NEW k \in Task, NEW t, SetTask(k, t), t.at = "prepared",
         task[k] = Idle \/ k[2] = "closer",
         UNCHANGED <<version, client, channel, closed, missed>>,
         DOMAIN users' \subseteq DOMAIN users
  PROVE  VersionsInv'
<1>1. SUFFICES ASSUME NEW u \in Tracked
               PROVE  VersionComes(u)'
  BY DEF VersionsInv, Tracked
<1>2. VersionComes(u) /\ u \in User
  BY IsMember DEF VersionsInv
<1>3. PICK m : m = ChangeTo(version)
  OBVIOUS
<1>4. TaskInv(k)
  BY DEF IInv, TasksInv
<1>5. ~Owes(k, m, u) /\ task[k].at \notin {"snapshot", "stating"}
  <2>1. CASE task[k] = Idle
    BY <2>1 DEF Owes, Idle
  <2>2. CASE k[2] = "closer"
    <3>1. LeaveOf(k[1]) # m
      BY <1>3 DEF LeaveOf, ChangeTo
    <3>2. QED
      BY <1>4, <2>2, <3>1 DEF Owes, TaskInv, Announced
  <2>3. QED
    BY <2>1, <2>2
<1>6. QED
  BY <1>2, <1>3, <1>5, VersionTaskStep

LEMMA ConnectVersion ==
  ASSUME IInv, VersionsInv, NEW w \in User, Connect(w)
  PROVE  VersionsInv'
<1>1. /\ conn[w] = "new" /\ DOMAIN users' = DOMAIN users \cup {w}
      /\ UNCHANGED <<closed, version, client, channel, task, missed>>
  BY DEF Connect, With
<1>2. ASSUME NEW u \in Tracked
      PROVE  VersionComes(u)'
  BY <1>1, <1>2, IsMember, VersionIdleStep DEF VersionsInv
<1>3. VersionComes(w)'
  <2>1. JoinsOnce(w)
    BY DEF IInv
  <2>2. Unread(w, {"snapshot", "stating"})
    BY <1>1, <2>1 DEF JoinsOnce, Joining, Unread
  <2>3. Unread(w, {"snapshot", "stating"})'
    BY <1>1, <2>2 DEF Unread, StatesTo
  <2>4. QED
    BY <2>3 DEF VersionComes
<1>4. QED
  BY <1>1, <1>2, <1>3 DEF VersionsInv, Tracked

\* A channel is closed, a connection ends, or nothing happens.
LEMMA FewerVersion ==
  ASSUME IInv, VersionsInv, UNCHANGED <<users, version, client, task, missed>>,
         closed \subseteq closed', \A u \in Tracked' : channel'[u] = channel[u]
  PROVE  VersionsInv'
<1>1. ASSUME NEW u \in Tracked'
      PROVE  VersionComes(u)'
  <2>1. u \in Tracked
    BY DEF Tracked
  <2>2. QED
    BY <2>1, IsMember, VersionIdleStep DEF VersionsInv
<1>2. QED
  BY <1>1 DEF VersionsInv

LEMMA CloseChannelVersion ==
  ASSUME IInv, VersionsInv, NEW w \in User, CloseChannel(w)
  PROVE  VersionsInv'
<1>1. /\ closed' = closed \cup {w} /\ channel' = [channel EXCEPT ![w] = <<>>]
      /\ UNCHANGED <<users, version, client, task, missed>>
  BY DEF CloseChannel
<1>2. \A u \in Tracked' : u # w /\ u \in User
  BY <1>1 DEF Tracked, IInv, ConnInv
<1>3. \A u \in Tracked' : channel'[u] = channel[u]
  BY <1>1, <1>2 DEF IInv, ChannelsInv
<1>4. QED
  BY <1>1, <1>3, FewerVersion

\* A client that receives the last version has it, or will once it has the state.
LEMMA ReceivedVersion ==
  ASSUME IInv, NEW c, ClientInv(c), NEW m, MessageInv(m), NEW d, d = Received(c, m)
  PROVE  /\ m = ChangeTo(version) /\ c.synced => d.version = version
         /\ m = ChangeTo(version) /\ ~c.synced => version \in d.buffer
         /\ m.type = "state" /\ (m.version = version \/ version \in c.buffer) =>
              d.version = version
         /\ m.type # "state" /\ c.synced /\ c.version = version => d.version = version
         /\ m.type # "state" /\ version \in c.buffer => version \in d.buffer
<1>1. version \in Nat
  BY DEF IInv, ConnInv
<1>2. /\ DOMAIN c = {"synced", "shown", "version", "buffer"}
      /\ c.version \in 0..version /\ c.buffer \in SUBSET (0..version)
  BY DEF ClientInv
<1>3. ASSUME NEW S \in SUBSET (0..version), version \in S
      PROVE  Max(S) = version
  <2>1. \A y \in S : y <= version
    BY <1>1
  <2>2. QED
    BY <1>1, <1>3, <2>1, MaxOfBounded
<1>4. CASE m.type = "state"
  <2>1. d.version = Max({m.version} \cup c.buffer)
    BY <1>4 DEF Received, Synced
  <2>2. {m.version} \cup c.buffer \in SUBSET (0..version)
    BY <1>2, <1>4 DEF MessageInv
  <2>3. m # ChangeTo(version)
    BY <1>4 DEF ChangeTo
  <2>4. m.version = version \/ version \in c.buffer => d.version = version
    BY <1>3, <2>1, <2>2
  <2>5. QED
    BY <1>4, <2>3, <2>4
<1>5. CASE m.type = "change" /\ c.synced
  <2>1. d = [c EXCEPT !.version = Max({@, m.version})]
    BY <1>5 DEF Received
  <2>2. {c.version, m.version} \in SUBSET (0..version)
    BY <1>2, <1>5 DEF MessageInv
  <2>3. d.version = Max({c.version, m.version}) /\ d.buffer = c.buffer
    BY <1>2, <2>1
  <2>4. c.version = version \/ m.version = version => d.version = version
    BY <1>3, <2>2, <2>3
  <2>5. m = ChangeTo(version) => m.version = version
    BY DEF ChangeTo
  <2>6. QED
    BY <1>5, <2>3, <2>4, <2>5
<1>6. CASE m.type = "change" /\ ~c.synced
  <2>1. d = [c EXCEPT !.buffer = @ \cup {m.version}]
    BY <1>6 DEF Received
  <2>2. d.buffer = c.buffer \cup {m.version}
    BY <1>2, <2>1
  <2>3. m = ChangeTo(version) => m.version = version
    BY DEF ChangeTo
  <2>4. QED
    BY <1>6, <2>2, <2>3
<1>7. CASE m.type \in {"join", "leave"}
  <2>1. d = [c EXCEPT !.shown = Shown(@, m)]
    BY <1>7 DEF Received
  <2>2. d.version = c.version /\ d.buffer = c.buffer
    BY <1>2, <2>1
  <2>3. m # ChangeTo(version)
    BY <1>7 DEF ChangeTo
  <2>4. QED
    BY <1>7, <2>2, <2>3
<1>8. QED
  BY <1>4, <1>5, <1>6, <1>7 DEF MessageInv

LEMMA ReceiveVersion ==
  ASSUME IInv, VersionsInv, NEW w \in User, Receive(w)
  PROVE  VersionsInv'
<1>1. /\ Len(channel[w]) \in Nat /\ Len(channel[w]) > 0
      /\ MessageInv(channel[w][1])
      /\ Len(channel'[w]) = Len(channel[w]) - 1
      /\ \A i \in 1..Len(channel[w]) - 1 : channel'[w][i] = channel[w][i + 1]
      /\ client'[w] = Received(client[w], channel[w][1])
      /\ \A u \in User \ {w} : channel'[u] = channel[u] /\ client'[u] = client[u]
      /\ UNCHANGED <<conn, users, closed, task, version, missed>>
  BY ReceiveEffect
<1>2. SUFFICES ASSUME NEW u \in Tracked
               PROVE  VersionComes(u)'
  BY <1>1 DEF VersionsInv, Tracked
<1>3. VersionComes(u) /\ u \in User /\ u \in DOMAIN users
  BY IsMember DEF VersionsInv
<1>4. CASE u # w
  BY <1>1, <1>3, <1>4 DEF VersionComes, Owes, Unread, StatesTo, ChangeTo
<1>5. CASE u = w
  <2>1. PICK c, m, d : c = client[u] /\ m = channel[u][1] /\ d = Received(c, m)
    OBVIOUS
  <2>2. ClientInv(c) /\ MessageInv(m) /\ client'[u] = d
    BY <1>1, <1>3, <1>5, <2>1 DEF IInv, ClientsInv
  <2>3. /\ m.type = "state" => d.synced
        /\ m.type # "state" => d.synced = c.synced
    BY <2>1, <2>2, ReceivedInv
  <2>4. /\ m = ChangeTo(version) /\ c.synced => d.version = version
        /\ m = ChangeTo(version) /\ ~c.synced => version \in d.buffer
        /\ m.type = "state" /\ (m.version = version \/ version \in c.buffer) =>
             d.version = version
        /\ m.type # "state" /\ c.synced /\ c.version = version => d.version = version
        /\ m.type # "state" /\ version \in c.buffer => version \in d.buffer
    BY <2>1, <2>2, ReceivedVersion
  <2>5. JoinsOnce(u) /\ (m.type = "state" => 1 \in StatesTo(u))
    BY <1>1, <1>3, <1>5, <2>1 DEF IInv, StatesTo
  <2>6. c.synced \/ StatesTo(u) = {} => m.type # "state"
    BY <2>1, <2>5 DEF JoinsOnce
  <2>7. m = ChangeTo(version) => m.type # "state"
    BY DEF ChangeTo
  <2>8. CASE \/ <<u, ChangeTo(version)>> \in missed
             \/ \E k \in Task : Owes(k, ChangeTo(version), u)
             \/ /\ task[Receiver(u)].at \in {"snapshot", "stating"}
                /\ task[Receiver(u)].version = version
    BY <1>1, <2>8 DEF VersionComes, Owes, ChangeTo
  <2>9. CASE \E i \in 1..Len(channel[u]) :
               /\ i # 1
               /\ \/ channel[u][i] = ChangeTo(version)
                  \/ channel[u][i].type = "state" /\ channel[u][i].version = version
    <3>1. PICK i \in 1..Len(channel[u]) :
               /\ i # 1
               /\ \/ channel[u][i] = ChangeTo(version)
                  \/ channel[u][i].type = "state" /\ channel[u][i].version = version
      BY <2>9
    <3>2. i - 1 \in 1..Len(channel'[u]) /\ channel'[u][i - 1] = channel[u][i]
      BY <1>1, <1>5, <3>1
    <3>3. QED
      BY <1>1, <3>1, <3>2 DEF VersionComes, ChangeTo
  <2>10. CASE \/ m = ChangeTo(version)
              \/ m.type = "state" /\ m.version = version
              \/ c.synced /\ c.version = version
              \/ ~c.synced /\ version \in c.buffer
    <3>1. \/ d.synced /\ d.version = version
          \/ ~d.synced /\ version \in d.buffer
      <4>1. CASE m.type = "state"
        BY <2>3, <2>4, <2>6, <2>7, <2>10, <4>1
      <4>2. CASE m.type # "state" /\ c.synced
        BY <2>3, <2>4, <2>10, <4>2
      <4>3. CASE m.type # "state" /\ ~c.synced
        BY <2>3, <2>4, <2>10, <4>3
      <4>4. QED
        BY <4>1, <4>2, <4>3
    <3>2. QED
      BY <1>1, <2>2, <3>1 DEF VersionComes
  <2>11. CASE Unread(u, {"snapshot", "stating"})
    <3>1. StatesTo(u) = {} /\ ~d.synced
      BY <2>1, <2>3, <2>6, <2>11 DEF Unread
    <3>2. StatesTo(u)' = {}
      BY <1>1, <1>5, <3>1 DEF StatesTo
    <3>3. Unread(u, {"snapshot", "stating"})'
      BY <1>1, <2>2, <2>11, <3>1, <3>2 DEF Unread
    <3>4. QED
      BY <3>3 DEF VersionComes
  <2>12. QED
    BY <1>3, <2>1, <2>8, <2>9, <2>10, <2>11 DEF VersionComes
<1>6. QED
  BY <1>4, <1>5

LEMMA VersionsStep ==
  ASSUME IInv, VersionsInv, [Next]_vars
  PROVE  VersionsInv'
<1>1. CASE UNCHANGED vars
  BY <1>1, FewerVersion DEF vars, serverVars
<1>2. ASSUME NEW k \in Task, Broadcasting(k)
      PROVE  VersionsInv'
  <2>1. CASE ReadRecipients(k)
    BY <2>1, ReadRecipientsVersion
  <2>2. CASE SendNext(k)
    <3>1. PICK v \in task[k].to :
            /\ channel' = [channel EXCEPT ![v] = Append(@, task[k].message)]
            /\ SetTask(k, Sending(task[k].message, task[k].to \ {v}))
      BY <2>2 DEF SendNext
    <3>2. QED
      BY <2>2, <3>1, SendNextVersion
  <2>3. CASE SendFails(k)
    BY <2>3, CutShortVersion DEF SendFails
  <2>4. QED
    BY <1>2, <2>1, <2>2, <2>3 DEF Broadcasting
<1>3. ASSUME NEW u \in User, Aborted(u)
      PROVE  VersionsInv'
  BY <1>3, CutShortVersion, TaskKeys DEF Aborted
<1>4. ASSUME NEW u \in User, Stating(u)
      PROVE  VersionsInv'
  BY <1>4, ReadVersionVersion, SendStateVersion DEF Stating
<1>5. ASSUME NEW u \in User, Join(u)
      PROVE  VersionsInv'
  <2>1. u \in DOMAIN users /\ DOMAIN users' = DOMAIN users
    BY <1>5 DEF Join, Handles, With, IInv, ConnInv
  <2>2. PICK t : t = Prepared(JoinOf(u))
    OBVIOUS
  <2>3. t.at = "prepared" /\ Receiver(u) \in Task /\ task[Receiver(u)] = Idle
    BY <1>5, <2>2, TaskKeys DEF Prepared, Join, Handles
  <2>4. QED
    BY <1>5, <2>1, <2>2, <2>3, PreparedVersion DEF Join
<1>6. ASSUME NEW u \in User, Leave(u)
      PROVE  VersionsInv'
  <2>1. DOMAIN users' \subseteq DOMAIN users
    BY <1>6 DEF Leave, Without
  <2>2. PICK t : t = Prepared(LeaveOf(u))
    OBVIOUS
  <2>3. t.at = "prepared" /\ Closer(u) \in Task /\ Closer(u)[2] = "closer"
    BY <2>2, TaskKeys DEF Prepared, Closer
  <2>4. QED
    BY <1>6, <2>1, <2>2, <2>3, PreparedVersion DEF Leave, Goodbye
<1>7. ASSUME NEW u \in User, End(u)
      PROVE  VersionsInv'
  BY <1>7, FewerVersion DEF End
<1>8. QED
  BY <1>1, <1>2, <1>3, <1>4, <1>5, <1>6, <1>7, ReceiveVersion, ConnectVersion,
     ChangeVersion, CloseChannelVersion DEF Next

\* VersionsCatchUp for any users, channels and requests: a client that has got the
\* state, and heard of every change, has the version of the server, however joins,
\* changes and the sendings of both were interleaved (handler/notebook.rs,
\* useNotebookSync.ts).
THEOREM VersionsCatchUpAlways == Spec => []VersionsCatchUp
<1>1. Init => VersionsInv
  <2> SUFFICES ASSUME Init, NEW u \in Tracked
               PROVE  VersionComes(u)
    BY DEF VersionsInv
  <2>1. u \in Present \cup Connected /\ u \in User
    BY SessionAssumption DEF Init, Tracked
  <2>2. CASE u \in Present
    <3>1. client[u].synced /\ client[u].version = 0 /\ version = 0
      BY <2>1, <2>2 DEF Init, NewClient
    <3>2. QED
      BY <3>1 DEF VersionComes
  <2>3. CASE u \notin Present
    <3>1. ~client[u].synced
      BY <2>1, <2>3 DEF Init, NewClient
    <3>2. channel[u] = <<>> /\ task[Receiver(u)] = Idle
      BY <2>1, TaskKeys DEF Init
    <3>3. StatesTo(u) = {}
      BY <3>2 DEF StatesTo
    <3>4. Unread(u, {"snapshot", "stating"})
      BY <3>1, <3>2, <3>3 DEF Unread, Idle
    <3>5. QED
      BY <3>4 DEF VersionComes
  <2>4. QED
    BY <2>2, <2>3
<1>2. IInv /\ VersionsInv => VersionsCatchUp
  <2> SUFFICES ASSUME IInv, VersionsInv, Settled, NEW u \in Listeners
               PROVE  \/ client[u].version = version
                      \/ <<u, ChangeTo(version)>> \in missed
    BY DEF VersionsCatchUp
  <2>1. VersionComes(u) /\ u \in User /\ client[u].synced
    BY IsMember DEF VersionsInv, Listeners, Tracked
  <2>2. Len(channel[u]) = 0
    BY <2>1 DEF Settled
  <2>3. \A k \in Task : \A m : ~Owes(k, m, u)
    BY DEF Settled, Owes, Idle
  <2>4. task[Receiver(u)].at = "idle"
    BY <2>1, TaskKeys DEF Settled, Idle
  <2>5. QED
    BY <2>1, <2>2, <2>3, <2>4 DEF VersionComes, Unread
<1>3. QED
  BY <1>1, <1>2, InitInv, StepInv, VersionsStep, PTL DEF Spec

----------------------------------------------------------------------------
(* Who is there is shown, and nobody else, one action after the other.     *)

\* A step that sends nothing to u and does not read its state.
LEMMA ViewStays ==
  ASSUME NEW u \in User, NEW w, client'[u] = client[u], channel'[u] = channel[u],
         \/ task'[Receiver(u)] = task[Receiver(u)]
         \/ /\ task[Receiver(u)].at # "stating"
            /\ task'[Receiver(u)].at # "stating"
  PROVE  /\ Shows(u, w) => Shows(u, w)'
         /\ Hides(u, w) => Hides(u, w)'
BY DEF Shows, Hides, Unread, WillShow, WillHide, StatesTo

\* The last message of a channel decides.
LEMMA LastCounts ==
  ASSUME IInv, NEW u \in User, NEW w, NEW n, channel'[u] = Append(channel[u], n)
  PROVE  /\ Presents(n, w) /\ ~Removes(n, w) => WillShow(u, w)'
         /\ Removes(n, w) /\ ~Presents(n, w) => WillHide(u, w)'
<1>1. IsSequence(channel[u]) /\ Len(channel[u]) \in Nat
  BY DEF IInv, ChannelsInv, IsSequence
<1>2. PICK l : l = Len(channel'[u])
  OBVIOUS
<1>3. l \in 1..Len(channel'[u]) /\ channel'[u][l] = n /\ l..Len(channel'[u]) = {l}
  BY <1>1, <1>2, AppendIsSequence
<1>4. ASSUME Presents(n, w), ~Removes(n, w)
      PROVE  WillShow(u, w)'
  <2>1. \E i \in 1..Len(channel'[u]) :
          /\ Presents(channel'[u][i], w)
          /\ \A j \in i..Len(channel'[u]) : ~Removes(channel'[u][j], w)
    BY <1>3, <1>4
  <2>2. QED
    BY <2>1 DEF WillShow, Presents, Removes
<1>5. ASSUME Removes(n, w), ~Presents(n, w)
      PROVE  WillHide(u, w)'
  <2>1. \E i \in 1..Len(channel'[u]) :
          /\ Removes(channel'[u][i], w)
          /\ \A j \in i..Len(channel'[u]) : ~Presents(channel'[u][j], w)
    BY <1>3, <1>5
  <2>2. QED
    BY <2>1 DEF WillHide, Presents, Removes
<1>6. QED
  BY <1>4, <1>5

\* A message that is not the state is sent to u.
LEMMA ViewSent ==
  ASSUME IInv, NEW u \in User, NEW w, NEW n, n.type # "state",
         client'[u] = client[u], channel'[u] = Append(channel[u], n),
         StatesTo(u)' = StatesTo(u),
         \/ task'[Receiver(u)] = task[Receiver(u)]
         \/ /\ task[Receiver(u)].at # "stating"
            /\ task'[Receiver(u)].at # "stating"
  PROVE  /\ ~Removes(n, w) /\ Shows(u, w) => Shows(u, w)'
         /\ ~Presents(n, w) /\ Hides(u, w) => Hides(u, w)'
         /\ /\ Presents(n, w) /\ ~Removes(n, w)
            /\ task[Receiver(u)].at = "stating" => w \in DOMAIN task[Receiver(u)].users
            => Shows(u, w)'
         /\ /\ Removes(n, w) /\ ~Presents(n, w)
            /\ task[Receiver(u)].at = "stating" => w \notin DOMAIN task[Receiver(u)].users
            => Hides(u, w)'
<1>1. IsSequence(channel[u]) /\ Len(channel[u]) \in Nat
  BY DEF IInv, ChannelsInv, IsSequence
<1>2. /\ Len(channel'[u]) = Len(channel[u]) + 1
      /\ \A i \in 1..Len(channel[u]) : channel'[u][i] = channel[u][i]
      /\ channel'[u][Len(channel[u]) + 1] = n
  BY <1>1, AppendIsSequence
<1>3. Unread(u, {"stating"}) => Unread(u, {"stating"})'
  BY DEF Unread
<1>4. ASSUME ~Removes(n, w), WillShow(u, w)
      PROVE  WillShow(u, w)'
  <2>1. CASE \E i \in 1..Len(channel[u]) :
               /\ Presents(channel[u][i], w)
               /\ \A j \in i..Len(channel[u]) : ~Removes(channel[u][j], w)
    <3>1. PICK i \in 1..Len(channel[u]) :
               /\ Presents(channel[u][i], w)
               /\ \A j \in i..Len(channel[u]) : ~Removes(channel[u][j], w)
      BY <2>1
    <3>2. i \in 1..Len(channel'[u]) /\ Presents(channel'[u][i], w)
      BY <1>1, <1>2, <3>1
    <3>3. \A j \in i..Len(channel'[u]) : ~Removes(channel'[u][j], w)
      BY <1>1, <1>2, <1>4, <3>1
    <3>4. QED
      BY <3>2, <3>3 DEF WillShow, Presents, Removes
  <2>2. CASE /\ w \in DOMAIN client[u].shown
             /\ \A j \in 1..Len(channel[u]) : ~Removes(channel[u][j], w)
    <3>1. \A j \in 1..Len(channel'[u]) : ~Removes(channel'[u][j], w)
      BY <1>1, <1>2, <1>4, <2>2
    <3>2. QED
      BY <2>2, <3>1 DEF WillShow, Removes
  <2>3. QED
    BY <1>4, <2>1, <2>2 DEF WillShow
<1>5. ASSUME ~Presents(n, w), WillHide(u, w)
      PROVE  WillHide(u, w)'
  <2>1. CASE \E i \in 1..Len(channel[u]) :
               /\ Removes(channel[u][i], w)
               /\ \A j \in i..Len(channel[u]) : ~Presents(channel[u][j], w)
    <3>1. PICK i \in 1..Len(channel[u]) :
               /\ Removes(channel[u][i], w)
               /\ \A j \in i..Len(channel[u]) : ~Presents(channel[u][j], w)
      BY <2>1
    <3>2. i \in 1..Len(channel'[u]) /\ Removes(channel'[u][i], w)
      BY <1>1, <1>2, <3>1
    <3>3. \A j \in i..Len(channel'[u]) : ~Presents(channel'[u][j], w)
      BY <1>1, <1>2, <1>5, <3>1
    <3>4. QED
      BY <3>2, <3>3 DEF WillHide, Presents, Removes
  <2>2. CASE /\ w \notin DOMAIN client[u].shown
             /\ \A j \in 1..Len(channel[u]) : ~Presents(channel[u][j], w)
    <3>1. \A j \in 1..Len(channel'[u]) : ~Presents(channel'[u][j], w)
      BY <1>1, <1>2, <1>5, <2>2
    <3>2. QED
      BY <2>2, <3>1 DEF WillHide, Presents
  <2>3. QED
    BY <1>5, <2>1, <2>2 DEF WillHide
<1>6. /\ Presents(n, w) /\ ~Removes(n, w) => WillShow(u, w)'
      /\ Removes(n, w) /\ ~Presents(n, w) => WillHide(u, w)'
  BY LastCounts
<1>7. QED
  BY <1>3, <1>4, <1>5, <1>6 DEF Shows, Hides

\* Task k goes on; nothing is sent.
LEMMA PresenceTaskStep ==
  ASSUME IInv, NEW u \in Tracked, NEW w \in User, PresenceOf(u, w),
         NEW k \in Task, NEW t, SetTask(k, t),
         w \in DOMAIN users' <=> w \in DOMAIN users,
         w \in DOMAIN users => users'[w] = users[w],
         client'[u] = client[u], channel'[u] = channel[u],
         missed \subseteq missed', overtaken \subseteq overtaken',
         k = Receiver(w) /\ Owes(k, JoinOf(w), u) =>
           Owes(k, JoinOf(w), u)' \/ <<u, JoinOf(w)>> \in missed' \/ Shows(u, w)',
         k = Closer(w) /\ Owes(k, LeaveOf(w), u) =>
           Owes(k, LeaveOf(w), u)' \/ <<u, LeaveOf(w)>> \in missed',
         k = Receiver(u) => task[k].at # "stating" /\ t.at # "stating"
  PROVE  PresenceOf(u, w)'
<1>1. /\ u \in User /\ Receiver(u) \in Task /\ Receiver(w) \in Task /\ Closer(w) \in Task
  BY IsMember, TaskKeys
<1>2. /\ task'[k] = t /\ \A j \in Task \ {k} : task'[j] = task[j]
  BY SetTaskEffect DEF IInv
<1>3. \A j \in Task \ {k} : \A m : Owes(j, m, u)' <=> Owes(j, m, u)
  BY OwesElsewhere
<1>4. \/ task'[Receiver(u)] = task[Receiver(u)]
      \/ /\ task[Receiver(u)].at # "stating"
         /\ task'[Receiver(u)].at # "stating"
  BY <1>1, <1>2
<1>5. /\ Shows(u, w) => Shows(u, w)'
      /\ Hides(u, w) => Hides(u, w)'
  BY <1>1, <1>4, ViewStays
<1>6. Excepted(u, w) => Excepted(u, w)'
  BY DEF Excepted
<1>7. /\ <<u, JoinOf(w)>> \in missed' => Excepted(u, w)'
      /\ <<u, LeaveOf(w)>> \in missed' => Excepted(u, w)'
  BY DEF Excepted, JoinOf, LeaveOf
<1>8. Owes(Receiver(w), JoinOf(w), u) =>
        \/ Owes(Receiver(w), JoinOf(w), u)' \/ Shows(u, w)'
        \/ <<u, JoinOf(w)>> \in missed'
  <2>1. CASE k = Receiver(w)
    BY <2>1
  <2>2. CASE k # Receiver(w)
    BY <1>1, <1>3, <2>2
  <2>3. QED
    BY <2>1, <2>2
<1>9. Owes(Closer(w), LeaveOf(w), u) =>
        \/ Owes(Closer(w), LeaveOf(w), u)'
        \/ <<u, LeaveOf(w)>> \in missed'
  <2>1. CASE k = Closer(w)
    BY <2>1
  <2>2. CASE k # Closer(w)
    BY <1>1, <1>3, <2>2
  <2>3. QED
    BY <2>1, <2>2
<1>10. QED
  BY <1>5, <1>6, <1>7, <1>8, <1>9 DEF PresenceOf

\* A user who is joining has nothing yet, and is sent nothing by its own join.
LEMMA JoiningUnread ==
  ASSUME IInv, NEW u \in User, Joining(u), task'[Receiver(u)].at # "stating",
         UNCHANGED <<client, channel>>, NEW w
  PROVE  Shows(u, w)' /\ Hides(u, w)'
<1>1. StatesTo(u) = {} /\ ~client[u].synced
  BY DEF IInv, JoinsOnce
<1>2. StatesTo(u)' = {}
  BY <1>1 DEF StatesTo
<1>3. Unread(u, {"stating"})'
  BY <1>1, <1>2 DEF Unread
<1>4. QED
  BY <1>3 DEF Shows, Hides

LEMMA ReadRecipientsPresence ==
  ASSUME IInv, PresenceInv, NEW k \in Task, ReadRecipients(k)
  PROVE  PresenceInv'
<1>1. /\ task[k].at = "prepared" /\ missed \subseteq missed' /\ overtaken \subseteq overtaken'
      /\ UNCHANGED <<users, closed, client, channel>>
  BY DEF ReadRecipients
<1>2. SUFFICES ASSUME NEW u \in Tracked, NEW w \in User
               PROVE  PresenceOf(u, w)'
  BY <1>1 DEF PresenceInv, Tracked
<1>3. PresenceOf(u, w) /\ u \in User /\ u \in DOMAIN users
  BY IsMember DEF PresenceInv
<1>4. PICK t, to : /\ t = Sending(task[k].message, to)
                   /\ to = Recipients(task[k].message)
  OBVIOUS
<1>5. SetTask(k, t) /\ t.at # "stating" /\ task[k].at # "stating"
  BY <1>1, <1>4 DEF ReadRecipients, Sending, Idle
<1>6. ASSUME k = Receiver(w), Owes(k, JoinOf(w), u)
      PROVE  Owes(k, JoinOf(w), u)' \/ Shows(u, w)'
  <2>1. CASE u = w
    <3>1. Joining(u)
      BY <1>6, <2>1 DEF Joining, Owes, JoinOf
    <3>2. task'[Receiver(u)].at # "stating"
      BY <1>5, <1>6, <2>1, SetTaskEffect DEF IInv
    <3>3. QED
      BY <1>1, <1>3, <3>1, <3>2, JoiningUnread
  <2>2. CASE u # w
    <3>1. u \in to
      BY <1>3, <1>4, <1>6, <2>2 DEF Owes, Recipients, JoinOf
    <3>2. QED
      BY <1>4, <1>5, <1>6, <3>1, SendingOwes
  <2>3. QED
    BY <2>1, <2>2
<1>7. ASSUME k = Closer(w), Owes(k, LeaveOf(w), u)
      PROVE  Owes(k, LeaveOf(w), u)'
  <2>1. u \in to
    BY <1>3, <1>4, <1>7 DEF Owes, Recipients, LeaveOf
  <2>2. QED
    BY <1>4, <1>5, <1>7, <2>1, SendingOwes
<1>8. QED
  BY <1>1, <1>3, <1>5, <1>6, <1>7, PresenceTaskStep

LEMMA CutShortPresence ==
  ASSUME IInv, PresenceInv, NEW k \in Task, SetTask(k, Idle),
         missed' = missed \cup Missed(task[k]),
         UNCHANGED <<users, closed, client, channel, overtaken>>
  PROVE  PresenceInv'
<1>1. SUFFICES ASSUME NEW u \in Tracked, NEW w \in User
               PROVE  PresenceOf(u, w)'
  BY DEF PresenceInv, Tracked
<1>2. PresenceOf(u, w) /\ u \in User /\ u \in DOMAIN users
  BY IsMember DEF PresenceInv
<1>3. \A m : Owes(k, m, u) => <<u, m>> \in missed'
  BY <1>2, MissedOwes
<1>4. CASE k = Receiver(u) /\ Joining(u)
  <2>1. task'[Receiver(u)].at # "stating"
    BY <1>4, SetTaskEffect DEF IInv, Idle
  <2>2. Shows(u, w)' /\ Hides(u, w)'
    BY <1>2, <1>4, <2>1, JoiningUnread
  <2>3. QED
    BY <2>2 DEF PresenceOf
<1>5. CASE ~(k = Receiver(u) /\ Joining(u))
  <2>1. k = Receiver(u) => task[k].at # "stating"
    BY <1>5 DEF Joining
  <2>2. PICK t : t = Idle
    OBVIOUS
  <2>3. t.at # "stating"
    BY <2>2 DEF Idle
  <2>4. QED
    BY <1>2, <1>3, <2>1, <2>2, <2>3, PresenceTaskStep
<1>6. QED
  BY <1>4, <1>5

LEMMA SendNextPresence ==
  ASSUME IInv, PresenceInv, NEW k \in Task, SendNext(k), NEW v \in task[k].to,
         NEW n, n = task[k].message,
         channel' = [channel EXCEPT ![v] = Append(@, n)],
         SetTask(k, Sending(n, task[k].to \ {v})),
         overtaken' = IF Overtakes(n, v) THEN overtaken \cup {<<v, n.user>>} ELSE overtaken
  PROVE  PresenceInv'
<1>1. /\ task[k].at = "sending" /\ missed' = missed /\ overtaken \subseteq overtaken'
      /\ UNCHANGED <<conn, users, closed, version, client>>
  BY DEF SendNext
<1>2. SUFFICES ASSUME NEW u \in Tracked, NEW w \in User
               PROVE  PresenceOf(u, w)'
  BY <1>1 DEF PresenceInv, Tracked
<1>3. /\ PresenceOf(u, w) /\ u \in User /\ u \in DOMAIN users
      /\ Receiver(u) \in Task /\ Receiver(w) \in Task /\ Closer(w) \in Task
  BY IsMember, TaskKeys DEF PresenceInv
<1>4. /\ TaskInv(k) /\ ChannelsInv /\ ConnInv /\ client'[u] = client[u]
  BY <1>1 DEF IInv, TasksInv
<1>5. /\ v \in User /\ n \in Announced(k) /\ (k[2] = "closer" => conn[k[1]] = "over")
      /\ k[1] \in User /\ k[2] \in {"receiver", "closer"}
      /\ k[2] = "receiver" => k = Receiver(k[1])
      /\ k[2] = "closer" => k = Closer(k[1])
  BY <1>1, <1>4, TaskKeys DEF TaskInv
<1>6. \/ k = Receiver(k[1]) /\ n = JoinOf(k[1])
      \/ n.type = "change"
      \/ k = Closer(k[1]) /\ n = LeaveOf(k[1]) /\ conn[k[1]] = "over"
  BY <1>5 DEF Announced, ChangeTo
<1>7. PICK t, to : t = Sending(n, to) /\ to = task[k].to \ {v}
  OBVIOUS
<1>8. t.at # "stating" /\ SetTask(k, t)
  BY <1>7 DEF Sending, Idle
<1>9. /\ task'[k] = t /\ \A j \in Task \ {k} : task'[j] = task[j]
  BY <1>8, SetTaskEffect DEF IInv
<1>10. \A j \in Task \ {k} : \A m : Owes(j, m, u)' <=> Owes(j, m, u)
  BY <1>8, OwesElsewhere
<1>11. \/ task'[Receiver(u)] = task[Receiver(u)]
       \/ /\ task[Receiver(u)].at # "stating"
          /\ task'[Receiver(u)].at # "stating"
  BY <1>1, <1>3, <1>8, <1>9
<1>12. Excepted(u, w) => Excepted(u, w)'
  BY <1>1 DEF Excepted
<1>13. CASE u # v
  <2>1. channel'[u] = channel[u]
    BY <1>3, <1>4, <1>5, <1>13 DEF ChannelsInv
  <2>2. /\ Shows(u, w) => Shows(u, w)'
        /\ Hides(u, w) => Hides(u, w)'
    BY <1>3, <1>4, <1>11, <2>1, ViewStays
  <2>3. \A m : Owes(k, m, u) => Owes(k, m, u)'
    <3>1. SUFFICES ASSUME NEW m, Owes(k, m, u)
                   PROVE  Owes(k, m, u)'
      OBVIOUS
    <3>2. u \in to /\ task[k].message = n
      BY <1>1, <1>7, <1>13, <3>1 DEF Owes
    <3>3. QED
      BY <1>7, <1>8, <3>1, <3>2, SendingOwes
  <2>4. \A j \in Task : \A m : Owes(j, m, u) => Owes(j, m, u)'
    BY <1>10, <2>3
  <2>5. QED
    BY <1>1, <1>3, <1>12, <2>2, <2>4 DEF PresenceOf
<1>14. CASE u = v
  <2>1. channel'[u] = Append(channel[u], n)
    BY <1>3, <1>4, <1>14 DEF ChannelsInv
  <2>2. n.type # "state"
    BY <1>6 DEF JoinOf, LeaveOf
  <2>3. StatesTo(u)' = StatesTo(u)
    BY <1>3, <1>4, <1>5, <2>2, NoMoreStates
  <2>4. /\ ~Removes(n, w) /\ Shows(u, w) => Shows(u, w)'
        /\ ~Presents(n, w) /\ Hides(u, w) => Hides(u, w)'
        /\ /\ Presents(n, w) /\ ~Removes(n, w)
           /\ task[Receiver(u)].at = "stating" => w \in DOMAIN task[Receiver(u)].users
           => Shows(u, w)'
        /\ /\ Removes(n, w) /\ ~Presents(n, w)
           /\ task[Receiver(u)].at = "stating" => w \notin DOMAIN task[Receiver(u)].users
           => Hides(u, w)'
    BY <1>3, <1>4, <1>11, <2>1, <2>2, <2>3, ViewSent
  <2>5. /\ Presents(n, w) <=> n = JoinOf(w)
        /\ Removes(n, w) <=> n = LeaveOf(w)
    BY <1>6 DEF Presents, Removes, JoinOf, LeaveOf
  <2>6. JoinOf(w) # LeaveOf(w) /\ JoinOf(w).user = w /\ LeaveOf(w).user = w
        /\ JoinOf(w).type = "join" /\ LeaveOf(w).type = "leave"
    BY DEF JoinOf, LeaveOf
  <2>7. CASE w \in DOMAIN users
    <3>1. n # LeaveOf(w)
      BY <1>4, <1>6, <2>6, <2>7 DEF ConnInv, LeaveOf, JoinOf
    <3>2. ASSUME n = JoinOf(w)
          PROVE  Shows(u, w)' \/ Excepted(u, w)'
      <4>1. CASE task[Receiver(u)].at = "stating" => w \in DOMAIN task[Receiver(u)].users
        BY <2>4, <2>5, <3>1, <3>2, <4>1
      <4>2. CASE /\ task[Receiver(u)].at = "stating"
                 /\ w \notin DOMAIN task[Receiver(u)].users
        <5>1. Overtakes(n, v)
          BY <1>14, <2>6, <3>2, <4>2 DEF Overtakes
        <5>2. QED
          BY <1>14, <2>6, <3>2, <5>1 DEF Excepted
      <4>3. QED
        BY <4>1, <4>2
    <3>3. ASSUME n # JoinOf(w), Owes(Receiver(w), JoinOf(w), u)
          PROVE  Owes(Receiver(w), JoinOf(w), u)'
      <4>1. Receiver(w) # k
        BY <3>3 DEF Owes
      <4>2. QED
        BY <1>3, <1>10, <3>3, <4>1
    <3>4. Shows(u, w) => Shows(u, w)'
      BY <2>4, <2>5, <3>1
    <3>5. QED
      BY <1>1, <1>3, <1>12, <2>7, <3>2, <3>3, <3>4 DEF PresenceOf
  <2>8. CASE w \notin DOMAIN users
    <3>1. conn[w] # "open"
      BY <1>4, <2>8 DEF ConnInv
    <3>2. n = JoinOf(w) => Excepted(u, w)'
      <4>1. n = JoinOf(w) => Overtakes(n, v)
        BY <2>6, <3>1 DEF Overtakes
      <4>2. QED
        BY <1>14, <2>6, <4>1 DEF Excepted
    <3>3. ASSUME n = LeaveOf(w)
          PROVE  Hides(u, w)' \/ Excepted(u, w)'
      <4>1. CASE task[Receiver(u)].at = "stating" => w \notin DOMAIN task[Receiver(u)].users
        BY <2>4, <2>5, <2>6, <3>3, <4>1
      <4>2. CASE /\ task[Receiver(u)].at = "stating"
                 /\ w \in DOMAIN task[Receiver(u)].users
        <5>1. Overtakes(n, v)
          BY <1>14, <2>6, <3>3, <4>2 DEF Overtakes
        <5>2. QED
          BY <1>14, <2>6, <3>3, <5>1 DEF Excepted
      <4>3. QED
        BY <4>1, <4>2
    <3>4. ASSUME n # LeaveOf(w), Owes(Closer(w), LeaveOf(w), u)
          PROVE  Owes(Closer(w), LeaveOf(w), u)'
      <4>1. Closer(w) # k
        BY <3>4 DEF Owes
      <4>2. QED
        BY <1>3, <1>10, <3>4, <4>1
    <3>5. n # JoinOf(w) /\ Hides(u, w) => Hides(u, w)'
      BY <2>4, <2>5
    <3>6. QED
      BY <1>1, <1>3, <1>12, <2>8, <3>2, <3>3, <3>4, <3>5 DEF PresenceOf
  <2>9. QED
    BY <2>7, <2>8
<1>15. QED
  BY <1>13, <1>14

\* The state of x is read.
LEMMA ReadVersionPresence ==
  ASSUME IInv, PresenceInv, NEW x \in User, ReadVersion(x)
  PROVE  PresenceInv'
<1>1. /\ task[Receiver(x)].at = "reading" /\ Receiver(x) \in Task
      /\ missed' = missed /\ overtaken' = overtaken
      /\ UNCHANGED <<users, closed, client, channel>>
  BY TaskKeys DEF ReadVersion
<1>2. PICK k, t : k = Receiver(x) /\ t = [at |-> "snapshot", version |-> version]
  OBVIOUS
<1>3. SetTask(k, t) /\ t.at = "snapshot"
  BY <1>2 DEF ReadVersion
<1>4. ASSUME NEW u \in Tracked, NEW w \in User
      PROVE  PresenceOf(u, w)'
  <2>1. PresenceOf(u, w) /\ \A m : ~Owes(k, m, u)
    BY <1>1, <1>2 DEF PresenceInv, Owes
  <2>2. QED
    BY <1>1, <1>2, <1>3, <2>1, PresenceTaskStep
<1>5. QED
  BY <1>1, <1>4 DEF PresenceInv, Tracked

LEMMA SnapshotUsersPresence ==
  ASSUME IInv, PresenceInv, NEW x \in User, SnapshotUsers(x)
  PROVE  PresenceInv'
<1>1. /\ task[Receiver(x)].at = "snapshot" /\ Receiver(x) \in Task
      /\ missed' = missed /\ overtaken' = overtaken
      /\ UNCHANGED <<users, closed, client, channel>>
  BY TaskKeys DEF SnapshotUsers
<1>2. PICK k, t : /\ k = Receiver(x)
                  /\ t = [at |-> "stating", version |-> task[Receiver(x)].version,
                          users |-> users]
  OBVIOUS
<1>3. SetTask(k, t) /\ t.at = "stating" /\ t.users = users
  BY <1>2 DEF SnapshotUsers
<1>4. ASSUME NEW u \in Tracked, NEW w \in User
      PROVE  PresenceOf(u, w)'
  <2>1. PresenceOf(u, w) /\ \A m : ~Owes(k, m, u)
    BY <1>1, <1>2 DEF PresenceInv, Owes
  <2>2. CASE u # x
    <3>1. k # Receiver(u)
      BY <1>2, <2>2 DEF Receiver
    <3>2. QED
      BY <1>1, <1>2, <1>3, <2>1, <3>1, PresenceTaskStep
  <2>3. CASE u = x
    <3>1. task'[Receiver(u)] = t
      BY <1>1, <1>2, <1>3, <2>3, SetTaskEffect DEF IInv
    <3>2. /\ w \in DOMAIN users => Shows(u, w)'
          /\ w \notin DOMAIN users => Hides(u, w)'
      BY <1>3, <3>1 DEF Shows, Hides
    <3>3. QED
      BY <1>1, <3>2 DEF PresenceOf
  <2>4. QED
    BY <2>2, <2>3
<1>5. QED
  BY <1>1, <1>4 DEF PresenceInv, Tracked

LEMMA SendStatePresence ==
  ASSUME IInv, PresenceInv, NEW x \in User, SendState(x)
  PROVE  PresenceInv'
<1>1. /\ task[Receiver(x)].at = "stating" /\ Receiver(x) \in Task
      /\ missed' = missed /\ overtaken' = overtaken
      /\ UNCHANGED <<users, closed, client>>
  BY TaskKeys DEF SendState
<1>2. PICK k, t, m : /\ k = Receiver(x) /\ t = Idle
                     /\ m = [type |-> "state", version |-> task[Receiver(x)].version,
                             users |-> task[Receiver(x)].users]
  OBVIOUS
<1>3. SetTask(k, t) /\ t.at = "idle"
  BY <1>2 DEF SendState, Idle
<1>4. /\ task'[k] = t /\ \A j \in Task \ {k} : task'[j] = task[j]
  BY <1>1, <1>2, <1>3, SetTaskEffect DEF IInv
<1>5. ChannelsInv
  BY DEF IInv
<1>6. ASSUME NEW u \in Tracked, NEW w \in User
      PROVE  PresenceOf(u, w)'
  <2>1. PresenceOf(u, w) /\ \A n : ~Owes(k, n, u)
    BY <1>1, <1>2, <1>6 DEF PresenceInv, Owes
  <2>2. u \in User /\ u \notin closed /\ client'[u] = client[u]
    BY <1>1, IsMember DEF Tracked
  <2>3. CASE u # x
    <3>1. k # Receiver(u)
      BY <1>2, <2>3 DEF Receiver
    <3>2. channel'[u] = channel[u]
      BY <1>5, <2>2, <2>3 DEF SendState, ChannelsInv
    <3>3. QED
      BY <1>1, <1>2, <1>3, <2>1, <2>2, <3>1, <3>2, PresenceTaskStep
  <2>4. CASE u = x
    <3>1. channel'[u] = Append(channel[u], m)
      BY <1>2, <1>5, <2>2, <2>4 DEF SendState, ChannelsInv
    <3>2. /\ Presents(m, w) <=> w \in DOMAIN task[k].users
          /\ Removes(m, w) <=> w \notin DOMAIN task[k].users
      BY <1>2 DEF Presents, Removes
    <3>3. /\ Presents(m, w) /\ ~Removes(m, w) => WillShow(u, w)'
          /\ Removes(m, w) /\ ~Presents(m, w) => WillHide(u, w)'
      BY <2>2, <3>1, LastCounts
    <3>4. /\ Shows(u, w) => w \in DOMAIN task[k].users
          /\ Hides(u, w) => w \notin DOMAIN task[k].users
      BY <1>1, <1>2, <2>4 DEF Shows, Hides, Unread
    <3>5. /\ Shows(u, w) => Shows(u, w)'
          /\ Hides(u, w) => Hides(u, w)'
      BY <1>2, <1>3, <1>4, <2>4, <3>2, <3>3, <3>4 DEF Shows, Hides
    <3>6. \A j \in Task : \A n : Owes(j, n, u) => Owes(j, n, u)'
      <4>1. \A j \in Task \ {k} : \A n : Owes(j, n, u)' <=> Owes(j, n, u)
        BY <1>1, <1>2, <1>3, OwesElsewhere
      <4>2. QED
        BY <2>1, <4>1
    <3>7. Receiver(w) \in Task /\ Closer(w) \in Task
      BY TaskKeys
    <3>8. QED
      BY <1>1, <2>1, <3>5, <3>6, <3>7 DEF PresenceOf, Excepted
  <2>5. QED
    BY <2>3, <2>4
<1>7. QED
  BY <1>1, <1>6 DEF PresenceInv, Tracked

\* Who a client shows after a message.
LEMMA ReceivedShown ==
  ASSUME NEW c, ClientInv(c), NEW m, MessageInv(m), NEW d, d = Received(c, m), NEW w
  PROVE  /\ Presents(m, w) => w \in DOMAIN d.shown
         /\ Removes(m, w) => w \notin DOMAIN d.shown
         /\ ~Removes(m, w) /\ w \in DOMAIN c.shown => w \in DOMAIN d.shown
         /\ ~Presents(m, w) /\ w \notin DOMAIN c.shown => w \notin DOMAIN d.shown
<1>1. DOMAIN c = {"synced", "shown", "version", "buffer"}
  BY DEF ClientInv
<1>2. CASE m.type = "state"
  <2>1. d.shown = m.users
    BY <1>2 DEF Received, Synced
  <2>2. QED
    BY <1>2, <2>1 DEF Presents, Removes
<1>3. CASE m.type = "change"
  <2>1. d.shown = c.shown
    BY <1>1, <1>3 DEF Received
  <2>2. QED
    BY <1>3, <2>1 DEF Presents, Removes
<1>4. CASE m.type = "join"
  <2>1. d.shown = Shown(c.shown, m)
    BY <1>1, <1>4 DEF Received
  <2>2. DOMAIN d.shown = DOMAIN c.shown \cup {m.user}
    BY <1>4, <2>1 DEF Shown, With
  <2>3. QED
    BY <1>4, <2>2 DEF Presents, Removes
<1>5. CASE m.type = "leave"
  <2>1. d.shown = Shown(c.shown, m)
    BY <1>1, <1>5 DEF Received
  <2>2. DOMAIN d.shown = DOMAIN c.shown \ {m.user}
    BY <1>5, <2>1 DEF Shown, Without
  <2>3. QED
    BY <1>5, <2>2 DEF Presents, Removes
<1>6. QED
  BY <1>2, <1>3, <1>4, <1>5 DEF MessageInv

\* A channel loses its head to the client.
LEMMA HeadCounts ==
  ASSUME NEW u \in User, NEW w, NEW m, NEW d, NEW n \in Nat, n > 0,
         Len(channel[u]) = n, channel[u][1] = m, Len(channel'[u]) = n - 1,
         \A i \in 1..n - 1 : channel'[u][i] = channel[u][i + 1],
         client'[u] = d,
         Presents(m, w) => w \in DOMAIN d.shown,
         Removes(m, w) => w \notin DOMAIN d.shown,
         ~Removes(m, w) /\ w \in DOMAIN client[u].shown => w \in DOMAIN d.shown,
         ~Presents(m, w) /\ w \notin DOMAIN client[u].shown => w \notin DOMAIN d.shown
  PROVE  /\ WillShow(u, w) => WillShow(u, w)'
         /\ WillHide(u, w) => WillHide(u, w)'
<1>1. PICK q, r : q = channel[u] /\ r = channel'[u]
  OBVIOUS
<1>2. /\ Len(q) = n /\ q[1] = m /\ Len(r) = n - 1
      /\ \A i \in 1..n - 1 : r[i] = q[i + 1]
  BY <1>1
<1>3. ASSUME WillShow(u, w)
      PROVE  WillShow(u, w)'
  <2>1. CASE \E i \in 1..n : /\ i # 1 /\ Presents(q[i], w)
                             /\ \A j \in i..n : ~Removes(q[j], w)
    <3>1. PICK i \in 1..n : /\ i # 1 /\ Presents(q[i], w)
                            /\ \A j \in i..n : ~Removes(q[j], w)
      BY <2>1
    <3>2. i - 1 \in 1..n - 1 /\ Presents(r[i - 1], w)
      BY <1>2, <3>1
    <3>3. \A j \in i - 1..n - 1 : j + 1 \in i..n /\ r[j] = q[j + 1]
      BY <1>2, <3>1
    <3>4. \A j \in i - 1..n - 1 : ~Removes(r[j], w)
      BY <3>1, <3>3
    <3>5. QED
      BY <1>1, <1>2, <3>2, <3>4 DEF WillShow, Presents, Removes
  <2>2. CASE /\ Presents(q[1], w) \/ w \in DOMAIN client[u].shown
             /\ \A j \in 1..n : ~Removes(q[j], w)
    <3>1. w \in DOMAIN d.shown
      BY <1>2, <2>2
    <3>2. \A j \in 1..n - 1 : ~Removes(r[j], w)
      BY <1>2, <2>2
    <3>3. QED
      BY <1>1, <1>2, <3>1, <3>2 DEF WillShow, Removes
  <2>3. QED
    BY <1>1, <1>2, <1>3, <2>1, <2>2 DEF WillShow
<1>4. ASSUME WillHide(u, w)
      PROVE  WillHide(u, w)'
  <2>1. CASE \E i \in 1..n : /\ i # 1 /\ Removes(q[i], w)
                             /\ \A j \in i..n : ~Presents(q[j], w)
    <3>1. PICK i \in 1..n : /\ i # 1 /\ Removes(q[i], w)
                            /\ \A j \in i..n : ~Presents(q[j], w)
      BY <2>1
    <3>2. i - 1 \in 1..n - 1 /\ Removes(r[i - 1], w)
      BY <1>2, <3>1
    <3>3. \A j \in i - 1..n - 1 : j + 1 \in i..n /\ r[j] = q[j + 1]
      BY <1>2, <3>1
    <3>4. \A j \in i - 1..n - 1 : ~Presents(r[j], w)
      BY <3>1, <3>3
    <3>5. QED
      BY <1>1, <1>2, <3>2, <3>4 DEF WillHide, Presents, Removes
  <2>2. CASE /\ Removes(q[1], w) \/ w \notin DOMAIN client[u].shown
             /\ \A j \in 1..n : ~Presents(q[j], w)
    <3>1. w \notin DOMAIN d.shown
      BY <1>2, <2>2
    <3>2. \A j \in 1..n - 1 : ~Presents(r[j], w)
      BY <1>2, <2>2
    <3>3. QED
      BY <1>1, <1>2, <3>1, <3>2 DEF WillHide, Presents
  <2>3. QED
    BY <1>1, <1>2, <1>4, <2>1, <2>2 DEF WillHide
<1>5. QED
  BY <1>3, <1>4

LEMMA ReceivePresence ==
  ASSUME IInv, PresenceInv, NEW x \in User, Receive(x)
  PROVE  PresenceInv'
<1>1. /\ Len(channel[x]) \in Nat /\ Len(channel[x]) > 0
      /\ MessageInv(channel[x][1])
      /\ Len(channel'[x]) = Len(channel[x]) - 1
      /\ \A i \in 1..Len(channel[x]) - 1 : channel'[x][i] = channel[x][i + 1]
      /\ client'[x] = Received(client[x], channel[x][1])
      /\ \A u \in User \ {x} : channel'[u] = channel[u] /\ client'[u] = client[u]
      /\ UNCHANGED <<users, closed, task, missed, overtaken>>
  BY ReceiveEffect
<1>2. ASSUME NEW u \in Tracked, NEW w \in User
      PROVE  PresenceOf(u, w)'
  <2>1. PresenceOf(u, w) /\ u \in User
    BY <1>2, IsMember DEF PresenceInv
  <2>2. /\ Shows(u, w) => Shows(u, w)'
        /\ Hides(u, w) => Hides(u, w)'
    <3>1. CASE u # x
      <4>1. /\ client'[u] = client[u] /\ channel'[u] = channel[u]
            /\ task'[Receiver(u)] = task[Receiver(u)]
        BY <1>1, <2>1, <3>1
      <4>2. QED
        BY <2>1, <4>1, ViewStays
    <3>2. CASE u = x
      <4>1. PICK c, m, d : c = client[u] /\ m = channel[u][1] /\ d = Received(c, m)
        OBVIOUS
      <4>2. ClientInv(c) /\ MessageInv(m) /\ client'[u] = d
        BY <1>1, <2>1, <3>2, <4>1 DEF IInv, ClientsInv
      <4>3. m.type # "state" => d.synced = c.synced
        BY <4>1, <4>2, ReceivedInv
      <4>4. /\ Presents(m, w) => w \in DOMAIN d.shown
            /\ Removes(m, w) => w \notin DOMAIN d.shown
            /\ ~Removes(m, w) /\ w \in DOMAIN c.shown => w \in DOMAIN d.shown
            /\ ~Presents(m, w) /\ w \notin DOMAIN c.shown => w \notin DOMAIN d.shown
        BY <4>1, <4>2, ReceivedShown
      <4>5. PICK n : n = Len(channel[u])
        OBVIOUS
      <4>6. /\ WillShow(u, w) => WillShow(u, w)'
            /\ WillHide(u, w) => WillHide(u, w)'
        BY <1>1, <2>1, <3>2, <4>1, <4>2, <4>4, <4>5, HeadCounts
      <4>7. ASSUME Unread(u, {"stating"})
            PROVE  Unread(u, {"stating"})'
        <5>1. ~c.synced /\ StatesTo(u) = {}
          BY <4>1, <4>7 DEF Unread
        <5>2. m.type # "state"
          BY <1>1, <3>2, <4>1, <5>1 DEF StatesTo
        <5>3. StatesTo(u)' = {}
          <6>1. \A i \in 1..n : channel[u][i].type # "state"
            BY <4>5, <5>1 DEF StatesTo
          <6>2. /\ n \in Nat /\ n > 0 /\ Len(channel'[u]) = n - 1
                /\ \A i \in 1..n - 1 : channel'[u][i] = channel[u][i + 1]
            BY <1>1, <3>2, <4>5
          <6>3. \A i \in 1..n - 1 : i + 1 \in 1..n
            BY <6>2
          <6>4. \A i \in 1..Len(channel'[u]) : channel'[u][i].type # "state"
            BY <6>1, <6>2, <6>3
          <6>5. QED
            BY <6>4 DEF StatesTo
        <5>4. QED
          BY <1>1, <4>2, <4>3, <4>7, <5>1, <5>2, <5>3 DEF Unread
      <4>8. QED
        BY <1>1, <4>6, <4>7 DEF Shows, Hides
    <3>3. QED
      BY <3>1, <3>2
  <2>3. \A k \in Task : \A n : Owes(k, n, u)' <=> Owes(k, n, u)
    BY <1>1 DEF Owes
  <2>4. Receiver(w) \in Task /\ Closer(w) \in Task
    BY TaskKeys
  <2>5. QED
    BY <1>1, <2>1, <2>2, <2>3, <2>4 DEF PresenceOf, Excepted
<1>3. QED
  BY <1>1, <1>2 DEF PresenceInv, Tracked

\* No task goes on.
LEMMA PresenceIdleStep ==
  ASSUME IInv, NEW u \in User, NEW w \in User, PresenceOf(u, w),
         UNCHANGED <<client, task, missed, overtaken>>, channel'[u] = channel[u],
         w \in DOMAIN users' <=> w \in DOMAIN users,
         w \in DOMAIN users => users'[w] = users[w]
  PROVE  PresenceOf(u, w)'
<1>1. /\ Shows(u, w) => Shows(u, w)'
      /\ Hides(u, w) => Hides(u, w)'
  <2>1. client'[u] = client[u] /\ task'[Receiver(u)] = task[Receiver(u)]
    OBVIOUS
  <2>2. QED
    BY <2>1, ViewStays
<1>2. \A k \in Task : \A n : Owes(k, n, u)' <=> Owes(k, n, u)
  BY DEF Owes
<1>3. Receiver(w) \in Task /\ Closer(w) \in Task
  BY TaskKeys
<1>4. QED
  BY <1>1, <1>2, <1>3 DEF PresenceOf, Excepted

LEMMA ConnectPresence ==
  ASSUME IInv, PresenceInv, NEW x \in User, Connect(x)
  PROVE  PresenceInv'
<1>1. /\ conn[x] = "new" /\ users' = With(users, x, FALSE)
      /\ UNCHANGED <<closed, client, channel, task, missed, overtaken>>
  BY DEF Connect
<1>2. /\ DOMAIN users' = DOMAIN users \cup {x} /\ users'[x] = FALSE
      /\ \A w \in DOMAIN users \ {x} : users'[w] = users[w]
  BY <1>1 DEF With
<1>3. ASSUME NEW u \in Tracked', NEW w \in User
      PROVE  PresenceOf(u, w)'
  <2>1. CASE w = x
    BY <1>2, <2>1 DEF PresenceOf
  <2>2. CASE u = x
    <3>1. JoinsOnce(x)
      BY DEF IInv
    <3>2. Unread(x, {"stating"})
      BY <1>1, <3>1 DEF JoinsOnce, Joining, Unread
    <3>3. Unread(x, {"stating"})'
      BY <1>1, <3>2 DEF Unread, StatesTo
    <3>4. Shows(u, w)' /\ Hides(u, w)'
      BY <2>2, <3>3 DEF Shows, Hides
    <3>5. QED
      BY <3>4 DEF PresenceOf
  <2>3. CASE w # x /\ u # x
    <3>1. u \in Tracked /\ channel'[u] = channel[u]
      BY <1>1, <1>2, <2>3 DEF Tracked
    <3>2. PresenceOf(u, w) /\ u \in User
      BY <3>1, IsMember DEF PresenceInv
    <3>3. /\ w \in DOMAIN users' <=> w \in DOMAIN users
          /\ w \in DOMAIN users => users'[w] = users[w]
      BY <1>2, <2>3
    <3>4. QED
      BY <1>1, <3>1, <3>2, <3>3, PresenceIdleStep
  <2>4. QED
    BY <2>1, <2>2, <2>3
<1>4. QED
  BY <1>3 DEF PresenceInv

\* A channel is closed, a connection ends, or nothing happens.
LEMMA FewerPresence ==
  ASSUME IInv, PresenceInv, UNCHANGED <<users, client, task, missed, overtaken>>,
         closed \subseteq closed', \A u \in Tracked' : channel'[u] = channel[u]
  PROVE  PresenceInv'
<1>1. ASSUME NEW u \in Tracked', NEW w \in User
      PROVE  PresenceOf(u, w)'
  <2>1. u \in Tracked
    BY DEF Tracked
  <2>2. PresenceOf(u, w) /\ u \in User
    BY <2>1, IsMember DEF PresenceInv
  <2>3. QED
    BY <2>2, PresenceIdleStep
<1>2. QED
  BY <1>1 DEF PresenceInv

\* A task that has nothing to do for now takes up an announcement.
LEMMA PreparedPresence ==
  ASSUME IInv, PresenceInv, NEW k \in Task, NEW m, SetTask(k, Prepared(m)),
         UNCHANGED <<client, channel, closed, missed, overtaken>>,
         DOMAIN users' \subseteq DOMAIN users,
         task[k] = Idle \/ k = Closer(m.user),
         \A w \in User :
           \/ /\ w \in DOMAIN users' <=> w \in DOMAIN users
              /\ w \in DOMAIN users => users'[w] = users[w]
              /\ k # Closer(w)
           \/ w \in DOMAIN users' /\ k = Receiver(w) /\ m = JoinOf(w)
           \/ w \notin DOMAIN users' /\ k = Closer(w) /\ m = LeaveOf(w)
  PROVE  PresenceInv'
<1>1. ASSUME NEW u \in Tracked', NEW w \in User
      PROVE  PresenceOf(u, w)'
  <2>1. u \in Tracked
    BY DEF Tracked
  <2>2. PresenceOf(u, w) /\ u \in User
    BY <2>1, IsMember DEF PresenceInv
  <2>3. PICK t : t = Prepared(m)
    OBVIOUS
  <2>4. t.at = "prepared" /\ t.message = m /\ SetTask(k, t)
    BY <2>3 DEF Prepared
  <2>5. task'[k] = t
    BY <2>4, SetTaskEffect DEF IInv
  <2>6. Owes(k, m, u)'
    BY <2>4, <2>5 DEF Owes
  <2>7. CASE w \in DOMAIN users' /\ k = Receiver(w) /\ m = JoinOf(w)
    <3>1. Owes(Receiver(w), JoinOf(w), u)'
      BY <2>6, <2>7
    <3>2. QED
      BY <2>7, <3>1 DEF PresenceOf
  <2>8. CASE w \notin DOMAIN users' /\ k = Closer(w) /\ m = LeaveOf(w)
    <3>1. Owes(Closer(w), LeaveOf(w), u)'
      BY <2>6, <2>8
    <3>2. QED
      BY <2>8, <3>1 DEF PresenceOf
  <2>9. CASE /\ w \in DOMAIN users' <=> w \in DOMAIN users
             /\ w \in DOMAIN users => users'[w] = users[w]
             /\ k # Closer(w)
    <3>1. k = Receiver(w) \/ k = Receiver(u) => task[k] = Idle
      BY DEF Receiver, Closer
    <3>2. task[k] = Idle => task[k].at # "stating" /\ \A n : ~Owes(k, n, u)
      BY DEF Idle, Owes
    <3>3. QED
      BY <2>1, <2>2, <2>4, <2>9, <3>1, <3>2, PresenceTaskStep
  <2>10. QED
    BY <2>7, <2>8, <2>9
<1>2. QED
  BY <1>1 DEF PresenceInv

LEMMA JoinPresence ==
  ASSUME IInv, PresenceInv, NEW x \in User, Join(x)
  PROVE  PresenceInv'
<1>1. /\ conn[x] = "open" /\ task[Receiver(x)] = Idle
      /\ users' = With(users, x, TRUE)
      /\ SetTask(Receiver(x), Prepared(JoinOf(x)))
      /\ UNCHANGED <<client, channel, closed, missed, overtaken>>
  BY DEF Join, Handles
<1>2. x \in DOMAIN users
  BY <1>1 DEF IInv, ConnInv
<1>3. /\ DOMAIN users' = DOMAIN users
      /\ \A w \in DOMAIN users \ {x} : users'[w] = users[w]
  BY <1>1, <1>2 DEF With
<1>4. PICK k, m : k = Receiver(x) /\ m = JoinOf(x)
  OBVIOUS
<1>5. k \in Task /\ \A w \in User : k # Closer(w)
  BY <1>4, TaskKeys DEF Receiver, Closer
<1>6. ASSUME NEW w \in User
      PROVE  \/ /\ w \in DOMAIN users' <=> w \in DOMAIN users
                /\ w \in DOMAIN users => users'[w] = users[w]
                /\ k # Closer(w)
             \/ w \in DOMAIN users' /\ k = Receiver(w) /\ m = JoinOf(w)
  <2>1. CASE w = x
    BY <1>2, <1>3, <1>4, <2>1
  <2>2. CASE w # x
    BY <1>3, <1>5, <2>2
  <2>3. QED
    BY <2>1, <2>2
<1>7. QED
  BY <1>1, <1>3, <1>4, <1>5, <1>6, PreparedPresence

LEMMA ChangePresence ==
  ASSUME IInv, PresenceInv, NEW x \in User, Change(x)
  PROVE  PresenceInv'
<1>1. /\ task[Receiver(x)] = Idle
      /\ SetTask(Receiver(x), Prepared(ChangeTo(version')))
      /\ UNCHANGED <<users, client, channel, closed, missed, overtaken>>
  BY DEF Change, Handles
<1>2. PICK k, m : k = Receiver(x) /\ m = ChangeTo(version')
  OBVIOUS
<1>3. k \in Task /\ \A w \in User : k # Closer(w)
  BY <1>2, TaskKeys DEF Receiver, Closer
<1>4. \A w \in User : /\ w \in DOMAIN users' <=> w \in DOMAIN users
                      /\ w \in DOMAIN users => users'[w] = users[w]
                      /\ k # Closer(w)
  BY <1>1, <1>3
<1>5. QED
  BY <1>1, <1>2, <1>3, <1>4, PreparedPresence

LEMMA CloseChannelPresence ==
  ASSUME IInv, PresenceInv, NEW x \in User, CloseChannel(x)
  PROVE  PresenceInv'
<1>1. /\ closed' = closed \cup {x} /\ channel' = [channel EXCEPT ![x] = <<>>]
      /\ UNCHANGED <<users, client, task, missed, overtaken>>
  BY DEF CloseChannel
<1>2. \A u \in Tracked' : u # x /\ u \in User
  BY <1>1 DEF Tracked, IInv, ConnInv
<1>3. \A u \in Tracked' : channel'[u] = channel[u]
  BY <1>1, <1>2 DEF IInv, ChannelsInv
<1>4. QED
  BY <1>1, <1>3, FewerPresence

LEMMA LeavePresence ==
  ASSUME IInv, PresenceInv, NEW x \in User, Leave(x)
  PROVE  PresenceInv'
<1>1. /\ users' = Without(users, x)
      /\ SetTask(Closer(x), Prepared(LeaveOf(x)))
      /\ UNCHANGED <<client, channel, closed, missed, overtaken>>
  BY DEF Leave, Goodbye
<1>2. /\ DOMAIN users' = DOMAIN users \ {x}
      /\ \A w \in DOMAIN users' : users'[w] = users[w]
  BY <1>1 DEF Without
<1>3. PICK k, m : k = Closer(x) /\ m = LeaveOf(x)
  OBVIOUS
<1>4. /\ k \in Task /\ k = Closer(m.user)
      /\ \A w \in User : w # x => k # Closer(w)
  BY <1>3, TaskKeys DEF Closer, LeaveOf
<1>5. ASSUME NEW w \in User
      PROVE  \/ /\ w \in DOMAIN users' <=> w \in DOMAIN users
                /\ w \in DOMAIN users => users'[w] = users[w]
                /\ k # Closer(w)
             \/ w \notin DOMAIN users' /\ k = Closer(w) /\ m = LeaveOf(w)
  <2>1. CASE w = x
    BY <1>2, <1>3, <2>1
  <2>2. CASE w # x
    BY <1>2, <1>4, <2>2
  <2>3. QED
    BY <2>1, <2>2
<1>6. QED
  BY <1>1, <1>2, <1>3, <1>4, <1>5, PreparedPresence

LEMMA PresenceStep ==
  ASSUME IInv, PresenceInv, [Next]_vars
  PROVE  PresenceInv'
<1>1. CASE UNCHANGED vars
  BY <1>1, FewerPresence DEF vars, serverVars
<1>2. ASSUME NEW k \in Task, Broadcasting(k)
      PROVE  PresenceInv'
  <2>1. CASE ReadRecipients(k)
    BY <2>1, ReadRecipientsPresence
  <2>2. CASE SendNext(k)
    <3>1. PICK n : n = task[k].message
      OBVIOUS
    <3>2. PICK v \in task[k].to :
            /\ channel' = [channel EXCEPT ![v] = Append(@, n)]
            /\ SetTask(k, Sending(n, task[k].to \ {v}))
            /\ overtaken' = IF Overtakes(n, v) THEN overtaken \cup {<<v, n.user>>}
                            ELSE overtaken
      BY <2>2, <3>1 DEF SendNext
    <3>3. QED
      BY <2>2, <3>1, <3>2, SendNextPresence
  <2>3. CASE SendFails(k)
    BY <2>3, CutShortPresence DEF SendFails
  <2>4. QED
    BY <1>2, <2>1, <2>2, <2>3 DEF Broadcasting
<1>3. ASSUME NEW u \in User, Aborted(u)
      PROVE  PresenceInv'
  BY <1>3, CutShortPresence, TaskKeys DEF Aborted
<1>4. ASSUME NEW u \in User, Stating(u)
      PROVE  PresenceInv'
  BY <1>4, ReadVersionPresence, SnapshotUsersPresence, SendStatePresence DEF Stating
<1>5. ASSUME NEW u \in User, End(u)
      PROVE  PresenceInv'
  BY <1>5, FewerPresence DEF End
<1>6. QED
  BY <1>1, <1>2, <1>3, <1>4, <1>5, ReceivePresence, ConnectPresence, JoinPresence,
     ChangePresence, CloseChannelPresence, LeavePresence DEF Next

\* PresenceRight for any users, channels and requests: what a client shows once
\* nothing is under way is who is there, however joins, leaves, the sending of the
\* state and broken connections were interleaved (handler/user.rs, handler.rs,
\* useNotebookSync.ts), but for what a broadcast that was cut short kept from it and
\* what came to it before an older state.
THEOREM PresenceRightAlways == Spec => []PresenceRight
<1>1. Init => PresenceInv
  <2> SUFFICES ASSUME Init, NEW u \in Tracked, NEW w \in User
               PROVE  PresenceOf(u, w)
    BY DEF PresenceInv
  <2>1. /\ u \in Present \cup Connected /\ u \in User
        /\ DOMAIN users = Present \cup Connected
        /\ \A v \in DOMAIN users : users[v] <=> v \in Present
    BY SessionAssumption DEF Init, Tracked
  <2>2. /\ channel[u] = <<>> /\ Len(channel[u]) = 0
        /\ task[Receiver(u)] = Idle /\ Idle.at = "idle"
    BY <2>1, TaskKeys DEF Init, Idle
  <2>3. CASE u \in Present
    <3>1. client[u].shown = users
      BY <2>1, <2>3 DEF Init, NewClient
    <3>2. /\ w \in DOMAIN users => WillShow(u, w)
          /\ w \notin DOMAIN users => WillHide(u, w)
      BY <2>2, <3>1 DEF WillShow, WillHide
    <3>3. QED
      BY <2>2, <3>2 DEF PresenceOf, Shows, Hides
  <2>4. CASE u \notin Present
    <3>1. ~client[u].synced
      BY <2>1, <2>4 DEF Init, NewClient
    <3>2. StatesTo(u) = {}
      BY <2>2 DEF StatesTo
    <3>3. Unread(u, {"stating"})
      BY <2>2, <3>1, <3>2 DEF Unread
    <3>4. QED
      BY <3>3 DEF PresenceOf, Shows, Hides
  <2>5. QED
    BY <2>3, <2>4
<1>2. IInv /\ PresenceInv => PresenceRight
  <2> SUFFICES ASSUME IInv, PresenceInv, Settled, NEW u \in Listeners, NEW w \in User
               PROVE  \/ Excepted(u, w)
                      \/ IF w \in DOMAIN users
                         THEN users[w] => w \in DOMAIN client[u].shown
                         ELSE w \notin DOMAIN client[u].shown
    BY DEF PresenceRight, Excepted
  <2>1. PresenceOf(u, w) /\ u \in User /\ client[u].synced
    BY IsMember DEF PresenceInv, Listeners, Tracked
  <2>2. Len(channel[u]) = 0
    BY <2>1 DEF Settled
  <2>3. ~Owes(Receiver(w), JoinOf(w), u) /\ ~Owes(Closer(w), LeaveOf(w), u)
    BY TaskKeys DEF Settled, Owes, Idle
  <2>4. task[Receiver(u)].at = "idle"
    BY <2>1, TaskKeys DEF Settled, Idle
  <2>5. ~Unread(u, {"stating"})
    BY <2>1 DEF Unread
  <2>6. /\ Shows(u, w) => w \in DOMAIN client[u].shown
        /\ Hides(u, w) => w \notin DOMAIN client[u].shown
    BY <2>2, <2>4, <2>5 DEF Shows, Hides, WillShow, WillHide
  <2>7. QED
    BY <2>1, <2>3, <2>6 DEF PresenceOf
<1>3. QED
  BY <1>1, <1>2, InitInv, StepInv, PresenceStep, PTL DEF Spec

===============================================================================

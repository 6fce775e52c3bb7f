-------------------------------- MODULE Session --------------------------------
(***************************************************************************)
(* Connections: how a user comes, is announced and gets the state, hears   *)
(* of changes, and goes (server/src/websocket/handler.rs,                  *)
(* handler/user.rs, AppState::broadcast), with what a client makes of the  *)
(* messages (useNotebookSync.ts, userStore.ts).                            *)
(*                                                                         *)
(* A connection has a task that handles its messages and, at its end, one  *)
(* that says goodbye.  Both broadcast by sending to one channel after      *)
(* another: a full channel makes them wait, a closed one ends the handler. *)
(* The task that empties a channel, the socket and the client are one step *)
(* here: the socket adds to the capacity of a channel, nothing else.  The  *)
(* notebook is its version.                                                *)
(*                                                                         *)
(* missed and overtaken are history variables.                             *)
(***************************************************************************)
EXTENDS Naturals, Sequences, FiniteSetsExt, Maps

CONSTANTS
  User,
  Present,     \* who is there and synchronised at first
  Connected,   \* who is connected then and has not joined
  Capacity,    \* of a channel
  MaxRequests  \* bound: who comes, joins and goes, changes and broken sockets

ASSUME SessionAssumption ==
  /\ Present \subseteq User /\ Connected \subseteq User \ Present
  /\ Capacity \in Nat \ {0}

Receiver(u) == <<u, "receiver">>   \* recv_handle
Closer(u) == <<u, "closer">>       \* the end of websocket_connection
Task == User \X {"receiver", "closer"}

VARIABLES
  conn,       \* per user: not yet there, open, ending or over
  users,      \* AppState::users: whether a user has a name yet
  closed,     \* whose channel has lost its receiver
  channel,    \* per user: tx_channel
  task,       \* per task: what it is doing
  version,    \* of the notebook
  requests,   \* what has come from outside so far
  client,     \* per user: what the client knows
  missed,     \* the messages that a cut broadcast kept from a user
  overtaken   \* who was to hear of whom at a time when it could not help:
              \* between the snapshot and the sending of the state, or after
              \* the goodbye

serverVars == <<conn, users, closed, task, version, requests>>
vars == <<serverVars, channel, client, missed, overtaken>>

Idle == [at |-> "idle"]

JoinOf(u) == [type |-> "join", user |-> u]
LeaveOf(u) == [type |-> "leave", user |-> u]
ChangeTo(n) == [type |-> "change", version |-> n]

Counted == requests < MaxRequests /\ requests' = requests + 1

SetTask(k, t) == task' = [task EXCEPT ![k] = t]

HasRoom(v) == v \notin closed /\ Len(channel[v]) < Capacity

----------------------------------------------------------------------------
(* Broadcasts: broadcast.                                                  *)

Prepared(m) == [at |-> "prepared", message |-> m]

\* A slip: the announcement is all.
SendingOnly(m, to) ==
  IF to # {} THEN [at |-> "sending", message |-> m, to |-> to] ELSE Idle

\* What remains to be done when the users in to have not been sent m yet: after
\* its announcement a user gets the state.
Sending(m, to) ==
  IF to # {} THEN [at |-> "sending", message |-> m, to |-> to]
  ELSE IF m.type = "join" THEN [at |-> "reading"] ELSE Idle

Recipients(m) == IF m.type = "join" THEN DOMAIN users \ {m.user} ELSE DOMAIN users

ReadRecipients(k) ==
  /\ task[k].at = "prepared"
  /\ SetTask(k, Sending(task[k].message, Recipients(task[k].message)))
  /\ UNCHANGED <<conn, users, closed, channel, version, requests, client, missed, overtaken>>

\* The state that v is about to be sent is older than m, or m is the join of a
\* user who has said goodbye.
Overtakes(m, v) ==
  LET t == task[Receiver(v)]
  IN  \/ /\ t.at = "stating"
         /\ \/ m.type = "join" /\ m.user \notin {w \in DOMAIN t.users : t.users[w]}
            \/ m.type = "leave" /\ m.user \in DOMAIN t.users
      \/ m.type = "join" /\ conn[m.user] # "open"

SendNext(k) ==
  /\ task[k].at = "sending"
  /\ \E v \in task[k].to :
       LET m == task[k].message
       IN  /\ HasRoom(v)
           /\ channel' = [channel EXCEPT ![v] = Append(@, m)]
           /\ SetTask(k, Sending(m, task[k].to \ {v}))
           /\ overtaken' = IF Overtakes(m, v) THEN overtaken \cup {<<v, m.user>>}
                           ELSE overtaken
  /\ UNCHANGED <<conn, users, closed, version, requests, client, missed>>

\* What task t still had to send is not sent.
Missed(t) ==
  CASE t.at = "prepared" -> (DOMAIN users) \X {t.message}
    [] t.at = "sending"  -> t.to \X {t.message}
    [] OTHER             -> {}

\* A channel is closed: the rest of the handler is left out.
SendFails(k) ==
  /\ task[k].at = "sending" /\ task[k].to \cap closed # {}
  /\ missed' = missed \cup Missed(task[k])
  /\ SetTask(k, Idle)
  /\ UNCHANGED <<conn, users, closed, channel, version, requests, client, overtaken>>

----------------------------------------------------------------------------
(* Coming: websocket_connection and handle_join.                           *)

Handles(u) == conn[u] = "open" /\ task[Receiver(u)] = Idle

Connect(u) ==
  /\ conn[u] = "new" /\ Counted
  /\ conn' = [conn EXCEPT ![u] = "open"]
  /\ users' = With(users, u, FALSE)
  /\ UNCHANGED <<closed, channel, task, version, client, missed, overtaken>>

\* The name of u is set; a client joins once.
Join(u) ==
  /\ Handles(u) /\ ~users[u] /\ Counted
  /\ users' = With(users, u, TRUE)
  /\ SetTask(Receiver(u), Prepared(JoinOf(u)))
  /\ UNCHANGED <<conn, closed, channel, version, client, missed, overtaken>>

\* The state is read piece by piece.
ReadVersion(u) ==
  /\ task[Receiver(u)].at = "reading"
  /\ SetTask(Receiver(u), [at |-> "snapshot", version |-> version])
  /\ UNCHANGED <<conn, users, closed, channel, version, requests, client, missed, overtaken>>

SnapshotUsers(u) ==
  /\ task[Receiver(u)].at = "snapshot"
  /\ SetTask(Receiver(u), [at |-> "stating", version |-> task[Receiver(u)].version,
                           users |-> users])
  /\ UNCHANGED <<conn, users, closed, channel, version, requests, client, missed, overtaken>>

SendState(u) ==
  /\ task[Receiver(u)].at = "stating" /\ (HasRoom(u) \/ u \in closed)
  /\ channel' = IF u \in closed THEN channel
                ELSE [channel EXCEPT ![u] =
                        Append(@, [type |-> "state", version |-> task[Receiver(u)].version,
                                   users |-> task[Receiver(u)].users])]
  /\ SetTask(Receiver(u), Idle)
  /\ UNCHANGED <<conn, users, closed, version, requests, client, missed, overtaken>>

\* A user changes the notebook.
Change(u) ==
  /\ Handles(u) /\ client[u].synced /\ Counted
  /\ version' = version + 1
  /\ SetTask(Receiver(u), Prepared(ChangeTo(version')))
  /\ UNCHANGED <<conn, users, closed, channel, client, missed, overtaken>>

----------------------------------------------------------------------------
(* Going.                                                                  *)

\* The socket breaks, or what empties the channel is aborted.
CloseChannel(u) ==
  /\ conn[u] # "new" /\ u \notin closed 
  /\ IF conn[u] = "open" THEN Counted ELSE UNCHANGED requests
  /\ closed' = closed \cup {u}
  /\ channel' = [channel EXCEPT ![u] = <<>>]
  /\ UNCHANGED <<conn, users, task, version, client, missed, overtaken>>

\* One of the two tasks of the connection has ended.
End(u) ==
  /\ conn[u] = "open"
  /\ \/ u \in closed /\ UNCHANGED requests
     \/ u \notin closed /\ task[Receiver(u)] = Idle /\ Counted
  /\ conn' = [conn EXCEPT ![u] = "ending"]
  /\ UNCHANGED <<users, closed, channel, task, version, client, missed, overtaken>>

\* The other one is aborted, which takes effect where it next waits.
Aborted(u) ==
  /\ conn[u] \in {"ending", "over"} /\ task[Receiver(u)] # Idle
  /\ missed' = missed \cup Missed(task[Receiver(u)])
  /\ SetTask(Receiver(u), Idle)
  /\ UNCHANGED <<conn, users, closed, channel, version, requests, client, overtaken>>

\* A slip: nobody is told.
SilentGoodbye(u) == Idle

Goodbye(u) == Prepared(LeaveOf(u))

Leave(u) ==
  /\ conn[u] = "ending"
  /\ conn' = [conn EXCEPT ![u] = "over"]
  /\ users' = Without(users, u)
  /\ SetTask(Closer(u), Goodbye(u))
  /\ UNCHANGED <<closed, channel, version, requests, client, missed, overtaken>>

----------------------------------------------------------------------------
(* The client.                                                             *)

NewClient == [synced |-> FALSE, shown |-> <<>>, version |-> 0, buffer |-> {}]

\* A slip: what came before the state is not replayed.
SyncedWithoutReplay(c, m) ==
  [synced |-> TRUE, shown |-> m.users, version |-> m.version, buffer |-> {}]

\* handleFullState: the state replaces everything; what was buffered is replayed,
\* and no change is taken that is not newer.
Synced(c, m) ==
  [synced |-> TRUE, shown |-> m.users, version |-> Max({m.version} \cup c.buffer),
   buffer |-> {}]

\* addUser and removeUser: an entry that is there already stays.
Shown(shown, m) ==
  CASE m.type = "leave"                              -> Without(shown, m.user)
    [] m.type = "join" /\ m.user \notin DOMAIN shown -> With(shown, m.user, TRUE)
    [] OTHER                                         -> shown

Received(c, m) ==
  CASE m.type = "state"               -> Synced(c, m)
    [] m.type = "change" /\ c.synced  -> [c EXCEPT !.version = Max({@, m.version})]
    [] m.type = "change" /\ ~c.synced -> [c EXCEPT !.buffer = @ \cup {m.version}]
    [] OTHER                          -> [c EXCEPT !.shown = Shown(@, m)]

Receive(u) ==
  /\ channel[u] # <<>>
  /\ client' = [client EXCEPT ![u] = Received(@, Head(channel[u]))]
  /\ channel' = [channel EXCEPT ![u] = Tail(@)]
  /\ UNCHANGED <<serverVars, missed, overtaken>>

----------------------------------------------------------------------------

Init ==
  /\ conn = [u \in User |-> IF u \in Present \cup Connected THEN "open" ELSE "new"]
  /\ users = [u \in Present \cup Connected |-> u \in Present]
  /\ closed = {}
  /\ channel = [u \in User |-> <<>>]
  /\ task = [k \in Task |-> Idle]
  /\ version = 0 /\ requests = 0
  /\ client = [u \in User |-> [NewClient EXCEPT
                                 !.synced = u \in Present,
                                 !.shown = IF u \in Present THEN users ELSE <<>>]]
  /\ missed = {} /\ overtaken = {}

Broadcasting(k) == ReadRecipients(k) \/ SendNext(k) \/ SendFails(k)

Stating(u) == ReadVersion(u) \/ SnapshotUsers(u) \/ SendState(u)

Next ==
  \/ \E k \in Task : Broadcasting(k)
  \/ \E u \in User :
       \/ Stating(u) \/ Receive(u)
       \/ Connect(u) \/ Join(u) \/ Change(u)
       \/ CloseChannel(u) \/ End(u) \/ Aborted(u) \/ Leave(u)

\* Something that the tasks and the clients can still do is done: all that tokio,
\* which runs every task that can go on, and clients that read have to give, since
\* every request leads to finitely many steps.
Progress ==
  \/ \E k \in Task : Broadcasting(k)
  \/ \E u \in User : Stating(u) \/ Receive(u)

Spec == Init /\ [][Next]_vars /\ WF_vars(Progress)

----------------------------------------------------------------------------
(* Properties.                                                             *)

\* Nothing is under way.
Settled ==
  /\ \A k \in Task : task[k] = Idle
  /\ \A u \in User : channel[u] = <<>> /\ conn[u] # "ending"

\* Who can be expected to know.
Listeners == {u \in DOMAIN users \ closed : client[u].synced}

\* Once nothing is under way, a client shows everybody who is there and has a
\* name, and nobody who has left.  A broadcast that was cut short, and a message
\* that came before a state that is older, are excepted.
PresenceRight ==
  Settled =>
    \A u \in Listeners : \A w \in User :
      \/ <<u, w>> \in overtaken
      \/ <<u, JoinOf(w)>> \in missed \/ <<u, LeaveOf(w)>> \in missed
      \/ IF w \in DOMAIN users THEN users[w] => w \in DOMAIN client[u].shown
         ELSE w \notin DOMAIN client[u].shown

\* Once nothing is under way, a client has the version of the server, whenever it
\* joined, unless the broadcast of the last change was cut short.  It is the number
\* of the last change; what the changes were is not looked at.
VersionsCatchUp ==
  Settled => \A u \in Listeners : \/ client[u].version = version
                                  \/ <<u, ChangeTo(version)>> \in missed

\* Who joins gets the state, unless its connection ends or its announcement
\* meets a closed channel.  (Those who are connected at first stand for all: to
\* join, the others become like them.)
JoinersSync ==
  \A u \in Connected :
    task[Receiver(u)] = Prepared(JoinOf(u))
      ~> \/ client[u].synced \/ conn[u] # "open" \/ u \in closed
         \/ \E v \in User : <<v, JoinOf(u)>> \in missed

===============================================================================

-------------------------------- MODULE OrderSync --------------------------------
(***************************************************************************)
(* The order of the cells, kept by the server and changed by its clients:  *)
(* ConcurrentStateHolder's order (conflict_resolver/resolver.rs), the      *)
(* handlers of cell_insert, cell_delete, cell_move and join, the broadcast, *)
(* and the clients' pending operations (notebookEngine.ts,                 *)
(* useNotebookSync.ts).                                                    *)
(*                                                                         *)
(* A client applies an operation to its own list at once and remembers it  *)
(* as pending until the echo comes back with the index the server gave.    *)
(* The server changes its order under a lock and sends afterwards; a       *)
(* joiner is sent the state and the version, each read on its own.         *)
(*                                                                         *)
(* log and, in a client's store, seen and astray are there for the         *)
(* properties: the code has no counterpart and no action depends on them.  *)
(***************************************************************************)
EXTENDS FractionalList, Functions, FiniteSetsExt

CONSTANTS
  Client,
  InitialCells,   \* the cells in the notebook at first, in order
  Joiner,         \* the clients that are not connected at first
  MaxOperations,  \* bound: operations the users make in all
  Kinds,          \* bound: the kinds of operations they make
  SerialBroadcast \* TRUE: no operation is applied while another is being sent

ASSUME JoinerAssumption == Joiner \subseteq Client
ASSUME BoundAssumption == MaxOperations \in Nat
ASSUME KindsAssumption == Kinds \subseteq {"cell_insert", "cell_delete", "cell_move"}
\* A cell has an id of its own (uuid).
ASSUME CellsAssumption ==
  /\ InitialCells \in Seq(Range(InitialCells)) /\ IsInjective(InitialCells)
  /\ Range(InitialCells) \cap (Client \X Nat) = {}
ASSUME SerialAssumption == SerialBroadcast \in BOOLEAN

VARIABLES
  order,     \* the server's list and its version
  task,      \* per client: what the server's receiving task is doing
  toServer,  \* per client: requests on their way
  toClient,  \* per client: messages on their way
  client,    \* per client: its store
  made,      \* per client: operations its user made
  log        \* the server's list after each operation

vars == <<order, task, toServer, toClient, client, made, log>>

----------------------------------------------------------------------------
(* Operations and messages.                                                *)

Operation(id, kind, cell, index) ==
  [id |-> id, type |-> kind, cell |-> cell, index |-> index]

\* handleOperation, and what the server does under its lock.
Reordered(l, op) ==
  CASE op.type = "cell_insert" -> InsertAt(l, op.cell, The(op.index))
    [] op.type = "cell_move"   -> MoveTo(l, op.cell, The(op.index))
    [] OTHER                   -> Delete(l, op.cell)

\* The operation as the server answers it, with the index it gave.
Confirmed(op, l, c, version) ==
  [author |-> c, version |-> version, type |-> op.type, id |-> op.id,
   cell |-> op.cell,
   index |-> IF op.index = NoIndex THEN NoIndex
             ELSE {RealIndex(l, The(op.index))}]

FullState(l, version) == [type |-> "full_state", list |-> l, version |-> version]

Join == [type |-> "join"]

Idle == [at |-> "idle"]
Applied(message) == [at |-> "applied", message |-> message]
Broadcasting(message, rest) ==
  [at |-> "broadcast", message |-> message, rest |-> rest]
ReadingVersion(l) == [at |-> "version", list |-> l]
SendingState(l, version) == [at |-> "state", list |-> l, version |-> version]

SetTask(c, t) == task' = [task EXCEPT ![c] = t]
Deliver(d, m) == toClient' = [toClient EXCEPT ![d] = Append(@, m)]

\* The notebook at first: cells that were appended one after the other.
\* Versions count from here.
InitialList ==
  LET list[n \in 0..Len(InitialCells)] ==
        IF n = 0 THEN EmptyList
        ELSE InsertAt(list[n - 1], InitialCells[n],
                      IF n = 1 THEN DefaultIndex
                      ELSE After(Highest(DOMAIN list[n - 1].byIndex)))
  IN  list[Len(InitialCells)]

ListAt(v) == IF v = 0 THEN InitialList ELSE log[v]

Connected(c) == client[c].session # "away"

----------------------------------------------------------------------------
(* The client: what its user does.                                         *)

\* The socket opens and the client asks to join.
Connect(c) ==
  /\ ~Connected(c)
  /\ client' = [client EXCEPT ![c].session = "joining"]
  /\ toServer' = [toServer EXCEPT ![c] = <<Join>>]
  /\ UNCHANGED <<order, task, toClient, made, log>>

\* The index right before or right behind the one given.
NextIndex(l, i) == IF Above(l, i) = {} THEN NoIndex ELSE {Lowest(Above(l, i))}
PrevIndex(l, i) == IF Below(l, i) = {} THEN NoIndex ELSE {Highest(Below(l, i))}

\* cellsAroundIdx: a new cell goes to either end or between two neighbours.
InsertPlaces(l) ==
  IF l = EmptyList THEN {NewIndexBetween(NoIndex, NoIndex)}
  ELSE {NewIndexBetween(PrevIndex(l, i), {i}) : i \in DOMAIN l.byIndex}
       \cup {NewIndexBetween({i}, NextIndex(l, i)) : i \in DOMAIN l.byIndex}

\* moveTo: a cell changes places with the one before or behind it.
MovePlaces(l, cell) ==
  LET i == l.byId[cell]
  IN  {NewIndexBetween(PrevIndex(l, p), {p}) : p \in PrevIndex(l, i)}
      \cup {NewIndexBetween({n}, NextIndex(l, n)) : n \in NextIndex(l, i)}

\* applyLocalOperation, and the request that is sent with it.
Make(c, op) ==
  /\ FoldFunction(+, 0, made) < MaxOperations
  /\ op.type \in Kinds
  /\ client' = [client EXCEPT
       ![c].list = Reordered(@, op),
       ![c].cells = IF op.type = "cell_insert" THEN @ \cup {op.cell}
                    ELSE IF op.type = "cell_delete" THEN @ \ {op.cell} ELSE @,
       ![c].pending = Append(@, op)]
  /\ toServer' = [toServer EXCEPT ![c] = Append(@, op)]
  /\ made' = [made EXCEPT ![c] = @ + 1]
  /\ UNCHANGED <<order, task, toClient, log>>

NewId(c) == <<c, made[c] + 1>>

InsertCell(c) ==
  /\ Connected(c)
  /\ \E i \in InsertPlaces(client[c].list) :
       Make(c, Operation(NewId(c), "cell_insert", NewId(c), {i}))

\* handleDeleteCell does nothing where the store has no such cell.
DeleteCell(c) ==
  \E cell \in Ids(client[c].list) \cap client[c].cells :
    Make(c, Operation(NewId(c), "cell_delete", cell, NoIndex))

MoveCell(c) ==
  \E cell \in Ids(client[c].list) :
    \E i \in MovePlaces(client[c].list, cell) :
      Make(c, Operation(NewId(c), "cell_move", cell, {i}))

----------------------------------------------------------------------------
(* The client: what it receives.                                           *)

\* A slip: the cell stays where the client had put it.
OwnEchoUnmoved(s, m) ==
  IF s.pending = <<>> THEN s ELSE [s EXCEPT !.pending = Tail(@)]

\* A slip: the last pending operation is taken to be the one that came back.
OwnEchoNewest(s, m) ==
  IF s.pending = <<>> THEN s ELSE [s EXCEPT !.pending = SubSeq(@, 1, Len(@) - 1)]

\* The client's own operation comes back: whatever it is, the first pending
\* one is taken to be it, and moved where the server put it.
OwnEcho(s, m) ==
  LET p == Head(s.pending)
  IN  IF s.pending = <<>> THEN s
      ELSE [s EXCEPT
        !.list = IF /\ m.index # NoIndex /\ p.index # NoIndex
                    /\ m.index # p.index
                 THEN MoveToStrict(@, p.cell, The(m.index)) ELSE @,
        !.pending = Tail(@)]

\* The pending operations that asked for the very index of m.
Rivals(s, m) ==
  {k \in DOMAIN s.pending : m.index # NoIndex /\ s.pending[k].index = m.index}

CellsAfter(cells, m) ==
  CASE m.type = "cell_insert" -> cells \cup {m.cell}
    [] m.type = "cell_delete" -> cells \ {m.cell}
    [] OTHER -> cells

\* Another client's operation: a pending cell that asked for its index gives
\* way and is put back behind it.
ForeignOperation(s, m) ==
  LET mine == s.pending[Min(Rivals(s, m))]
  IN  [s EXCEPT
        !.list = IF Rivals(s, m) = {} THEN Reordered(@, m)
                 ELSE InsertAt(Reordered(Delete(@, mine.cell), m),
                               mine.cell, The(mine.index)),
        !.cells = CellsAfter(@, m)]

\* A slip: no operation is passed over.
HandledAlways(c, s, m) ==
  IF m.author = c THEN OwnEcho(s, m) ELSE ForeignOperation(s, m)

\* handleCellInsert, handleCellDelete, handleCellMove: nothing that the full
\* state held already.
Handled(c, s, m) ==
  IF m.version <= s.version THEN s
  ELSE IF m.author = c THEN OwnEcho(s, m) ELSE ForeignOperation(s, m)

\* Events after which the code does not keep a client on the server's order.
\* An operation arrives whose predecessor has not been seen ...
Skips(s, m) == m.version # s.seen + 1

\* ... or a foreign one names a cell that is pending here, or wants the index of
\* a cell other than the one that gives way to it, or that one has since been moved
\* or deleted ...
Superseded(s, k) ==
  \E j \in DOMAIN s.pending : j > k /\ s.pending[j].cell = s.pending[k].cell

Clashes(s, m) ==
  LET yielding == {s.pending[Min(R)].cell : R \in {Rivals(s, m)} \ {{}}}
  IN  \/ \E k \in DOMAIN s.pending : s.pending[k].cell = m.cell
      \/ Rivals(s, m) # {} /\ Superseded(s, Min(Rivals(s, m)))
      \/ \E i \in m.index : Occupied(s.list, i) /\ s.list.byIndex[i] \notin yielding

\* ... or an own one has got the index it asked for, which the cell has left
\* here meanwhile.
LeftItsPlace(s, m) ==
  /\ m.index # NoIndex /\ m.index = Head(s.pending).index
  /\ ~Superseded(s, 1)
  /\ ~Has(s.list, m.cell) \/ s.list.byId[m.cell] # The(m.index)

LosesTrack(c, s, m) ==
  Skips(s, m) \/ IF m.author = c THEN LeftItsPlace(s, m) ELSE Clashes(s, m)

\* A joiner is sent a state that is not the one of the version that is sent
\* with it, or has made operations before.
TornState(s, m) == m.list # ListAt(m.version) \/ s.pending # <<>>

Noted(c, s, m) ==
  LET new == m.version > s.version
  IN  [Handled(c, s, m) EXCEPT !.seen = IF new THEN m.version ELSE @,
                               !.astray = @ \/ (new /\ LosesTrack(c, s, m))]

\* bufferUntilSynced.
ReceiveOperation(c, m) ==
  /\ m.type # "full_state"
  /\ client' = [client EXCEPT ![c] =
       IF @.session = "joined" THEN Noted(c, @, m)
       ELSE [client[c] EXCEPT !.held = Append(@, m)]]

\* A slip: what was held back is forgotten.
ReplayedNot(c, s, held) == s

\* runBufferReplay.
Replayed(c, s, held) ==
  LET after[n \in 0..Len(held)] ==
        IF n = 0 THEN s ELSE Noted(c, after[n - 1], held[n])
  IN  after[Len(held)]

\* handleFullState: the state replaces the list, then what was held back is
\* handled.  What is pending stays pending.
ReceiveFullState(c, m) ==
  /\ m.type = "full_state"
  /\ client' = [client EXCEPT ![c] =
       Replayed(c, [@ EXCEPT !.session = "joined", !.list = m.list,
                             !.cells = Ids(m.list), !.version = m.version,
                             !.held = <<>>, !.seen = m.version,
                             !.astray = TornState(client[c], m)],
                @.held)]

Receive(c) ==
  /\ toClient[c] # <<>>
  /\ LET m == Head(toClient[c])
     IN  ReceiveOperation(c, m) \/ ReceiveFullState(c, m)
  /\ toClient' = [toClient EXCEPT ![c] = Tail(@)]
  /\ UNCHANGED <<order, task, toServer, made, log>>

----------------------------------------------------------------------------
(* The server.                                                             *)

\* The receiving task of c takes its next message.
Takes(c) ==
  /\ task[c] = Idle
  /\ toServer[c] # <<>>
  /\ toServer' = [toServer EXCEPT ![c] = Tail(@)]

MayApply ==
  SerialBroadcast => \A c \in Client : task[c].at \notin {"applied", "broadcast"}

OrderAfter(op) ==
  [version |-> order.version + 1, list |-> Reordered(order.list, op)]

\* apply_insert, apply_delete, apply_move, under the lock of the order.
ApplyOperation(c) ==
  /\ Takes(c)
  /\ MayApply
  /\ LET op == Head(toServer[c])
     IN  /\ op.type # "join"
         /\ order' = OrderAfter(op)
         /\ SetTask(c, Applied(Confirmed(op, order.list, c, order'.version)))
  /\ log' = Append(log, order'.list)
  /\ UNCHANGED <<toClient, client, made>>

\* A slip: the author is left out.
RecipientsButAuthor(c) == {d \in Client \ {c} : Connected(d)}

Recipients(c) == {d \in Client : Connected(d)}

\* broadcast: the recipients are the users of this moment ...
BeginBroadcast(c) ==
  /\ task[c].at = "applied"
  /\ SetTask(c, Broadcasting(task[c].message, Recipients(c)))
  /\ UNCHANGED <<order, toServer, toClient, client, made, log>>

\* ... and are sent the message one after the other.
Send(c) ==
  /\ task[c].at = "broadcast"
  /\ \E d \in task[c].rest :
       /\ Deliver(d, task[c].message)
       /\ SetTask(c, IF task[c].rest = {d} THEN Idle
                     ELSE [task[c] EXCEPT !.rest = @ \ {d}])
  /\ UNCHANGED <<order, toServer, client, made, log>>

\* handle_join reads the state ...
ReadState(c) ==
  /\ Takes(c)
  /\ Head(toServer[c]).type = "join"
  /\ SetTask(c, ReadingVersion(order.list))
  /\ UNCHANGED <<order, toClient, client, made, log>>

\* ... then the version, under a lock of its own ...
ReadVersion(c) ==
  /\ task[c].at = "version"
  /\ SetTask(c, SendingState(task[c].list, order.version))
  /\ UNCHANGED <<order, toServer, toClient, client, made, log>>

\* ... and then sends both.
SendState(c) ==
  /\ task[c].at = "state"
  /\ Deliver(c, FullState(task[c].list, task[c].version))
  /\ SetTask(c, Idle)
  /\ UNCHANGED <<order, toServer, client, made, log>>

----------------------------------------------------------------------------

Init ==
  /\ order = [version |-> 0, list |-> InitialList]
  /\ task = [c \in Client |-> Idle]
  /\ toServer = [c \in Client |-> <<>>]
  /\ toClient = [c \in Client |-> <<>>]
  /\ client = [c \in Client |->
       LET l == IF c \in Joiner THEN EmptyList ELSE InitialList
       IN  [session |-> IF c \in Joiner THEN "away" ELSE "joined",
            list |-> l, cells |-> Ids(l), pending |-> <<>>, version |-> 0,
            held |-> <<>>, seen |-> 0, astray |-> FALSE]]
  /\ made = [c \in Client |-> 0]
  /\ log = <<>>

Act(c) == Connect(c) \/ InsertCell(c) \/ DeleteCell(c) \/ MoveCell(c)

Handle(c) ==
  \/ ApplyOperation(c) \/ BeginBroadcast(c) \/ Send(c)
  \/ ReadState(c) \/ ReadVersion(c) \/ SendState(c)

Next == \E c \in Client : Act(c) \/ Receive(c) \/ Handle(c)

Spec == Init /\ [][Next]_vars

\* Messages arrive and the runtime keeps polling every task.
FairSpec == Spec /\ \A c \in Client : WF_vars(Receive(c)) /\ WF_vars(Handle(c))

----------------------------------------------------------------------------
(* Properties.                                                             *)

\* The two maps of every list mirror each other (list.rs:14-17): no list, on
\* the server or at a client, ever shows a cell twice or at an index where it
\* no longer is, whatever overtakes what and whenever a client joins.
ListsMirrored ==
  MapsMirror(order.list) /\ \A c \in Client : MapsMirror(client[c].list)

IsOwn(c, m) == m.type # "full_state" /\ m.author = c

\* Where operations of c are on their way back to it, the first to arrive first:
\* what was held back, what is on its way, what is being sent and what is still to
\* be handled.
Awaited(c) ==
  UNION {{<<1, i>> : i \in {i \in DOMAIN client[c].held : IsOwn(c, client[c].held[i])}},
         {<<2, i>> : i \in {i \in DOMAIN toClient[c] : IsOwn(c, toClient[c][i])}},
         IF \/ task[c].at = "applied"
            \/ task[c].at = "broadcast" /\ c \in task[c].rest THEN {<<3, 1>>} ELSE {},
         {<<4, i>> : i \in {i \in DOMAIN toServer[c] : toServer[c][i].type # "join"}}}

AwaitedId(c, p) ==
  CASE p[1] = 1 -> client[c].held[p[2]].id
    [] p[1] = 2 -> toClient[c][p[2]].id
    [] p[1] = 3 -> task[c].message.id
    [] p[1] = 4 -> toServer[c][p[2]].id

ArrivesBefore(p, q) == p[1] < q[1] \/ (p[1] = q[1] /\ p[2] < q[2])

\* The client takes any echo of its own to be that of its first pending
\* operation, without a look at the id (notebookEngine.ts:229-239).  It always
\* is: what is on its way back are exactly the pending operations, in their order.
EchoesMatchPending ==
  \A c \in Client :
    LET pending == client[c].pending
        Is(p, k) == AwaitedId(c, p) = pending[k].id
    IN  /\ \A k \in DOMAIN pending :
             /\ \E p \in Awaited(c) : Is(p, k)
             /\ \A l \in DOMAIN pending : pending[l].id = pending[k].id => l = k
        /\ \A p \in Awaited(c) : \E k \in DOMAIN pending :
             /\ Is(p, k)
             /\ \A q \in Awaited(c) : ArrivesBefore(p, q) =>
                  \E l \in DOMAIN pending : k < l /\ Is(q, l)

\* A client that has not been led astray has every cell exactly where the
\* server had it after the last operation the client has seen, but for the
\* cells it has operations pending on.
ClientOnServerOrder ==
  \A c \in Client :
    client[c].session = "joined" /\ ~client[c].astray =>
      LET s == client[c]
          server == ListAt(s.seen)
          settled(l) == Ids(l) \ {s.pending[k].cell : k \in DOMAIN s.pending}
      IN  /\ settled(s.list) = settled(server)
          /\ \A id \in settled(server) : s.list.byId[id] = server.byId[id]
          /\ s.cells = Ids(s.list)

Quiet ==
  \A c \in Client : /\ toServer[c] = <<>> /\ toClient[c] = <<>>
                    /\ task[c] = Idle /\ client[c].session # "joining"

\* When nothing is on its way, a client that has not been led astray has
\* every cell, no other, and in the server's order: no operation was lost to
\* it and none handled twice.
TrackingClientsConverge ==
  Quiet => \A c \in Client :
             client[c].session = "joined" /\ ~client[c].astray =>
               client[c].list = order.list

\* An operation does not stay pending: its echo comes back, and is the
\* acknowledgement (README.md:69-71).  Nobody leaves here: a broadcast that ends
\* at a closed channel (state.rs:52) may leave out the author.
PendingSettles ==
  \A c \in Client : client[c].pending # <<>> ~> client[c].pending = <<>>

===============================================================================

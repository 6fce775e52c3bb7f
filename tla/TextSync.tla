-------------------------------- MODULE TextSync --------------------------------
(***************************************************************************)
(* One cell edited by several clients at once: the server's handler        *)
(* (handle_text_edit, server/src/handler/notebook.rs), the broadcast       *)
(* (AppState::broadcast) and the clients' engine (notebookEngine.ts,       *)
(* useNotebookSync.ts, useTextSync.ts).                                    *)
(*                                                                         *)
(* A client applies an edit to its own text at once, collects edits in a   *)
(* buffer while one request is in flight, and takes the echo of its own    *)
(* edit as the acknowledgement.  The server runs one task per client,      *)
(* which handles that client's requests in order; an edit is committed     *)
(* under the cell's lock, and only then sent, to one recipient after the   *)
(* other, while the tasks of other clients go on.  Every client has a FIFO *)
(* channel to the server and one back.                                     *)
(*                                                                         *)
(* log and astray are history variables: the code has no counterpart of  *)
(* them and no action depends on them.                                     *)
(***************************************************************************)
EXTENDS CellState, FiniteSets

CONSTANTS
  Client,
  InitialText,    \* the content the cell was inserted with
  MaxText,        \* bound: a user does not type a text longer than this
  MaxTyped,       \* bound: changes the users make in all
  SerialBroadcast \* TRUE: no edit is committed while another is being sent

ASSUME ClientsTypeThemselves == Client \subseteq Char
ASSUME BoundsAssumption == MaxText \in Nat /\ MaxTyped \in Nat
ASSUME SerialAssumption == SerialBroadcast \in BOOLEAN
ASSUME TextAssumption == InitialText \in Text

VARIABLES
  cell,      \* the server's cell
  task,      \* per client: what the server's receiving task is doing
  toServer,  \* per client: requests on their way
  toClient,  \* per client: messages on their way
  client,    \* per client: its store
  typed,     \* changes made by the users so far
  log,       \* every edit accepted so far, with the text it gave
  astray     \* the clients that met an event after which the code does not
             \* keep them on the server's text

serverVars == <<cell, task, log>>
vars == <<cell, task, toServer, toClient, client, typed, log, astray>>

TextAt(v) == IF v = 0 THEN InitialText ELSE log[v].text

----------------------------------------------------------------------------
(* Messages and the handler's states.                                      *)

EditRequest(id, base, operation) ==
  [type |-> "text_edit", id |-> id, base |-> base, operation |-> operation]

TextEdit(c, id, version, operation) ==
  [type |-> "text_edit", author |-> c, id |-> id, version |-> version,
   operation |-> operation]

CellResync(content, version) ==
  [type |-> "cell_resync", content |-> content, version |-> version]

TextOperationFailed == [type |-> "text_operation_failed"]

Idle == [at |-> "idle"]
Broadcasting(message, rest) ==
  [at |-> "broadcast", message |-> message, rest |-> rest]
ReadingVersion(content) == [at |-> "resync", content |-> content]

SetTask(c, t) == task' = [task EXCEPT ![c] = t]

Deliver(d, m) == toClient' = [toClient EXCEPT ![d] = Append(@, m)]

\* The client's pending operations: none, or one.
None == <<>>
----------------------------------------------------------------------------
(* The client.                                                             *)

\* What a user makes of a text in one change: insert the character they
\* type, delete one, or type over one.
Changed(c, text) ==
  { SubSeq(text, 1, p) \o <<c>> \o SubSeq(text, p + 1 + d, Len(text)) :
      p \in 0..Len(text), d \in {0} }
  \cup
  { SubSeq(text, 1, p - 1) \o t \o SubSeq(text, p + 1, Len(text)) :
      p \in 1..Len(text), t \in {<<>>, <<c>>} }

\* localTextEdit: the edit shows at once and is composed into the buffer.
LocalTextEdit(s, diff) ==
  [s EXCEPT !.content = Apply(diff, @),
            !.buffer = IF @ = None THEN <<diff>> ELSE <<Compose(@[1], diff)>>]

\* handleChange: the editor reports a new text.
Type(c) ==
  /\ typed < MaxTyped
  /\ \E new \in Changed(c, client[c].content) :
       /\ new # client[c].content
       /\ Len(new) <= MaxText
       /\ client' = [client EXCEPT
            ![c] = LocalTextEdit(@, ComputeDiff(@.content, new))]
  /\ typed' = typed + 1
  /\ UNCHANGED <<serverVars, toServer, toClient, astray>>

\* A slip: a request is sent although one is in flight.
MayFlushEagerly(s) == s.buffer # None

\* tryFlushBuffer: nothing in flight and something buffered.
MayFlush(s) == s.unconfirmed = None /\ s.buffer # None

Flushed(s) ==
  [s EXCEPT !.unconfirmed = <<EditRequest(s.sent + 1, s.version, s.buffer[1])>>,
            !.buffer = None,
            !.sent = @ + 1]

\* attemptFlush: a client that may send does so, unless it sent less than
\* SEND_THROTTLE_MS ago; then the retry timer will call it again (Flush).
AttemptFlush(c, s) ==
  \/ /\ MayFlush(s)
     /\ client' = [client EXCEPT ![c] = Flushed(s)]
     /\ toServer' = [toServer EXCEPT ![c] = Append(@, Flushed(s).unconfirmed[1])]
  \/ /\ client' = [client EXCEPT ![c] = s]
     /\ UNCHANGED toServer

\* A timer (idle, burst or retry) fires and the throttle has expired.
Flush(c) ==
  /\ MayFlush(client[c])
  /\ client' = [client EXCEPT ![c] = Flushed(@)]
  /\ toServer' = [toServer EXCEPT ![c] = Append(@, Flushed(client[c]).unconfirmed[1])]
  /\ UNCHANGED <<serverVars, toClient, typed, astray>>

IsAck(c, s, m) ==
  m.author = c /\ s.unconfirmed # None /\ s.unconfirmed[1].id = m.id

\* A slip: the echo does not count as a version seen.
AcknowledgedAtOldVersion(s, m) == [s EXCEPT !.unconfirmed = None]

Acknowledged(s, m) == [s EXCEPT !.version = m.version, !.unconfirmed = None]

\* transform of an incoming operation against a pending one, if there is one.
CanPass(op, pending) == pending = None \/ Transformable(op, pending[1])

\* A slip: what is pending is not transformed in turn.
PassLeavingPending(op, pending) ==
  [incoming |-> IF pending = None THEN op ELSE Transform(op, pending[1]).aPrime,
   pending  |-> pending]

Pass(op, pending) ==
  IF pending = None THEN [incoming |-> op, pending |-> None]
  ELSE LET t == Transform(op, pending[1])
       IN  [incoming |-> t.aPrime, pending |-> <<t.bPrime>>]

\* receiveServerTextOperation for an edit that is not the awaited echo: the
\* operation is transformed over the request in flight, which stays as it was
\* sent, and over the buffer, which is transformed in turn.  When a length
\* does not fit, the update of the store throws and is undone.
Integrated(s, m) ==
  LET inFlight == IF s.unconfirmed = None THEN None
                  ELSE <<s.unconfirmed[1].operation>>
      first    == Pass(m.operation, inFlight).incoming
      second   == Pass(first, s.buffer)
  IN  IF /\ CanPass(m.operation, inFlight)
         /\ CanPass(first, s.buffer)
         /\ Applicable(second.incoming, s.content)
      THEN [s EXCEPT !.content = Apply(second.incoming, @),
                     !.buffer = second.pending,
                     !.version = m.version]
      ELSE s

\* Events after which the client's code does not keep the client on the
\* server's text: an edit whose predecessor has not been seen; a second
\* foreign edit while the same request is in flight; a resync that is torn or
\* behind what has been seen; a refusal of an edit that stays on the screen.
LeadsAstray(c, m) ==
  LET s == client[c]
  IN  CASE m.type = "text_edit" ->
             /\ m.version > s.version
             /\ \/ m.version # s.version + 1
                \/ /\ ~IsAck(c, s, m)
                   /\ s.unconfirmed # None
                   /\ s.unconfirmed[1].base # s.version
        [] m.type = "cell_resync" ->
             m.content # TextAt(m.version) \/ m.version < s.version
        [] OTHER -> TRUE

ReceiveTextEdit(c, m) ==
  LET s == client[c]
  IN  /\ m.type = "text_edit"
      /\ \/ /\ m.version <= s.version
            /\ UNCHANGED <<client, toServer>>
         \/ /\ m.version > s.version
            /\ IsAck(c, s, m)
            /\ AttemptFlush(c, Acknowledged(s, m))
         \/ /\ m.version > s.version
            /\ ~IsAck(c, s, m)
            /\ client' = [client EXCEPT ![c] = Integrated(@, m)]
            /\ UNCHANGED toServer

\* resyncCellContent: the server's text replaces everything.
Resynced(s, m) ==
  [s EXCEPT !.content = m.content, !.version = m.version,
            !.buffer = None, !.unconfirmed = None]

ReceiveCellResync(c, m) ==
  /\ m.type = "cell_resync"
  /\ AttemptFlush(c, Resynced(client[c], m))

\* clearUnconfirmedTextOperation: the refused edit stays on the screen.
ReceiveFailure(c, m) ==
  /\ m.type = "text_operation_failed"
  /\ AttemptFlush(c, [client[c] EXCEPT !.unconfirmed = None])

Receive(c) ==
  /\ toClient[c] # <<>>
  /\ LET m == Head(toClient[c])
     IN  /\ \/ ReceiveTextEdit(c, m)
            \/ ReceiveCellResync(c, m)
            \/ ReceiveFailure(c, m)
         /\ astray' = IF LeadsAstray(c, m) THEN astray \cup {c}
                      ELSE IF m.type = "cell_resync" THEN astray \ {c}
                      ELSE astray
  /\ toClient' = [toClient EXCEPT ![c] = Tail(@)]
  /\ UNCHANGED <<serverVars, typed>>

----------------------------------------------------------------------------
(* The server.                                                             *)

\* The receiving task of c takes its next message, an edit.
Takes(c) ==
  /\ task[c] = Idle
  /\ toServer[c] # <<>> /\ Head(toServer[c]).type = "text_edit"
  /\ toServer' = [toServer EXCEPT ![c] = Tail(@)]

MayCommit == SerialBroadcast => \A c \in Client : task[c].at # "broadcast"

\* apply_text_operation accepts: the edit is committed under the cell's lock
\* and its broadcast begins.
Commit(c) ==
  /\ Takes(c)
  /\ MayCommit
  /\ LET r == Head(toServer[c])
         real == Rebased(cell, r.base, r.operation)[1]
         next == Edited(cell, r.base, r.operation, c)
     IN  /\ Accepts(cell, r.base, r.operation)
         /\ cell' = next
         /\ log' = Append(log, [author |-> c, id |-> r.id, base |-> r.base,
                                operation |-> real, text |-> next.content])
         /\ SetTask(c, Broadcasting(TextEdit(c, r.id, next.version, real),
                                    Client))
  /\ UNCHANGED <<toClient, client, typed, astray>>

\* broadcast sends to one recipient after the other, in the order of a hash
\* map.
Send(c) ==
  /\ task[c].at = "broadcast"
  /\ \E d \in task[c].rest :
       /\ Deliver(d, task[c].message)
       /\ SetTask(c, IF task[c].rest = {d} THEN Idle
                     ELSE [task[c] EXCEPT !.rest = @ \ {d}])
  /\ UNCHANGED <<cell, toServer, client, typed, log, astray>>

\* send_text_error_message: the base version is no longer remembered; the
\* content is read first.
ReadContent(c) ==
  /\ Takes(c)
  /\ TooOld(cell, Head(toServer[c]).base)
  /\ SetTask(c, ReadingVersion(cell.content))
  /\ UNCHANGED <<cell, toClient, client, typed, log, astray>>

\* ... and the version under a lock of its own, when others may have edited.
SendResync(c) ==
  /\ task[c].at = "resync"
  /\ Deliver(c, CellResync(task[c].content, cell.version))
  /\ SetTask(c, Idle)
  /\ UNCHANGED <<cell, toServer, client, typed, log, astray>>

\* send_text_error_message: the operation does not fit.
Fail(c) ==
  /\ Takes(c)
  /\ LET r == Head(toServer[c])
     IN  ~TooOld(cell, r.base) /\ ~Accepts(cell, r.base, r.operation)
  /\ Deliver(c, TextOperationFailed)
  /\ UNCHANGED <<serverVars, client, typed, astray>>

----------------------------------------------------------------------------

Init ==
  /\ cell = NewCell(InitialText)
  /\ task = [c \in Client |-> Idle]
  /\ toServer = [c \in Client |-> <<>>]
  /\ toClient = [c \in Client |-> <<>>]
  /\ client = [c \in Client |->
       [content |-> InitialText, version |-> 0, buffer |-> None,
        unconfirmed |-> None, sent |-> 0]]
  /\ typed = 0
  /\ log = <<>>
  /\ astray = {}

Handle(c) == Commit(c) \/ Send(c) \/ ReadContent(c) \/ SendResync(c) \/ Fail(c)

Next == \E c \in Client : Type(c) \/ Flush(c) \/ Receive(c) \/ Handle(c)

Spec == Init /\ [][Next]_vars

----------------------------------------------------------------------------
(* Properties.                                                             *)

TypeOK ==
  /\ cell.content \in Text /\ cell.version = Len(log)
  /\ DOMAIN task = Client
  /\ \A c \in Client : task[c].at \in {"idle", "broadcast", "resync"}
  /\ \A c \in Client :
       /\ client[c].content \in Text
       /\ client[c].version \in 0..cell.version
       /\ client[c].buffer \in Seq(Operation) /\ Len(client[c].buffer) <= 1
       /\ client[c].unconfirmed = None
            \/ client[c].unconfirmed[1].operation \in Operation
       /\ Len(toServer[c]) <= 1
  /\ typed \in 0..MaxTyped
  /\ astray \subseteq Client

\* The request in flight as it stands after the edits the client has seen
\* since it sent it; the client itself keeps no such operation.
InFlightNow(c) ==
  LET s == client[c]
      u == s.unconfirmed[1]
  IN  IF s.unconfirmed = None THEN <<Times(Retain, Len(TextAt(s.version)))>>
      ELSE RebaseOver(SubSeq(log, u.base + 1, s.version), u.operation)

\* A client that has not been led astray shows the server's text at the
\* version it has seen, with its request in flight and its buffer on top.
\* Typing, sending, acknowledging and integrating all keep this, in every
\* order in which tasks and channels may run.
ClientOnServerText ==
  \A c \in Client \ astray :
    LET s == client[c]
        server == TextAt(s.version)
        mine == InFlightNow(c)
        shown == Apply(mine[1], server)
    IN  /\ mine # <<>> /\ Applicable(mine[1], server)
        /\ IF s.buffer = None THEN s.content = shown
           ELSE /\ Applicable(s.buffer[1], shown)
                /\ s.content = Apply(s.buffer[1], shown)

Quiet ==
  \A c \in Client :
    /\ task[c] = Idle /\ toServer[c] = <<>> /\ toClient[c] = <<>>
    /\ client[c].buffer = None

\* "... so every replica converges on the same text"
\* (docs/conflict-resolution.md:22): when nothing is on its way, every client
\* shows what the server holds.
Convergence ==
  Quiet => \A c \in Client : client[c].content = cell.content

\* The same for the clients that were not led astray.
TrackingClientsConverge ==
  Quiet => \A c \in Client \ astray :
             client[c].content = cell.content /\ client[c].version = cell.version

\* Whatever the server has committed since it was sent, a request of a client
\* on track still fits, unless the server no longer remembers its base: the
\* server answers it with an echo or a resync, never with a failure.
RequestsFit ==
  \A c \in Client \ astray :
    toServer[c] # <<>> =>
      LET r == Head(toServer[c])
      IN  TooOld(cell, r.base) \/ Accepts(cell, r.base, r.operation)

\* What a user types, the server commits: every request of a client that
\* stays on track is eventually answered and every buffer sent, so that in the
\* end it shows what the server holds.
TypingIsShared ==
  \A c \in Client :
    <>[](c \in astray \/ client[c].content = cell.content)

===============================================================================

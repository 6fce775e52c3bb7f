# crab-collab in TLA+

A specification of the collaborative notebook in this repository: TLA+ modules
translated from its code, model-checked with TLC on small instances, and
theorems about them checked by TLAPS for every value of the constants. Paths
below are relative to the repository.

## 1. The system

One server process holds one notebook. Browsers connect to it over a websocket
each; a Python kernel hangs off it over ZeroMQ. There is no persistence: a
restart of the server is a new notebook.

| Part | State | Operations | Talks to |
|---|---|---|---|
| Text operations, `crates/ot`, `frontend/src/utils/textDiff.ts` | none | `apply`, `transform`, `compose`, `transform_position`, `computeDiff` | used by the server and, as wasm, by the clients |
| Cell text, `ConcurrentStateHolder.cells` (`crates/notebook/src/conflict_resolver/resolver.rs`) | per cell: content, version, at most 1000 remembered edits and the version before the oldest of them | `apply_text_operation`, `rebase_position`, outputs | a map entry per cell is its lock |
| Cell order, `ConcurrentStateHolder.order`, `crates/crdt` | version, and a list ordered by fractional indexes: id to index and index to id | `insert_at`, `delete`, `move_to`, `move_to_strict` | one lock for all; the same list, as wasm, in every client |
| Handlers and broadcast, `crates/server/src/handler`, `state/state.rs`, `websocket/handler.rs` | per connection: a receiving task, a sending task, a channel of 100 messages; the table of users | join, leave, insert, delete, move, edit, focus, run | a handler changes the state under its lock, releases it, and then sends to one recipient after the other |
| Client engine, `frontend/src/stores/notebookEngine.ts`, `hooks/useNotebookSync.ts`, `hooks/useTextSync.ts` | the cells, the list, per cell a buffer and a request in flight, the pending structural operations, what was held back before the full state | local edits, echoes, foreign changes, resync, full state, flush timers | its websocket |
| Execution queue, `crates/execution_queue` | per cell that is to run: message id, status | `execute`, `output_receiver`, `get_pending_executions` | kernel client; results to `handle_output` |
| Kernel client, `crates/kernel` | two sockets, process | `execute_code`, two listeners | ipykernel |
| Focus, `crates/server/src/state/focus.rs`, `hooks/useFocusSync.ts`, `stores/userStore.ts` | per user a cell, per cell the cursors in it | set, clear, transform, snapshot | handlers |

**What is hard.** Every change is shown by its author at once, committed by the
server later, and comes back as an echo among other people's changes. The tasks
of different clients run concurrently: the commit is under a lock, the
broadcast is not, so broadcasts overtake each other. A joiner is sent parts of
the state that were read under different locks. Answers of the kernel come on
two sockets that are ordered in themselves only, and can come before the
execution queue knows under which id to expect them. The history is bounded.
The hazards, each at its line, are in `PROJECT.json`.

**What makes each part correct.** Text operations: both orders of two
concurrent edits give one text. Cell text: an edit is transformed over exactly
the edits its base misses. Text synchronisation: a client shows the server's
text with its own changes on top, and what is typed is shared. List: the two maps
mirror each other. Order synchronisation: a client has every cell where the
server has it, and every operation is acknowledged. Queue: one run of a cell at a time,
its results in order, and an end to it. Execution at the clients: the outputs of
one run, the same everywhere. Connections: who leaves disturbs nobody. Focus:
a cursor stays at its place in the text.

## 2. Modules

    TextOT            TextOTCheck                Maps
      |  \________________|                     / | \
    CellState________________________ FocusState |  Session
      |      \            \                      |
      |    TextSync      NaiveHolder             ExecutionQueue
      |       |             |                    |
      |    CursorSync       |                    ExecutionSync
    CellHistory             |
             \              |          FractionalList
             HolderRefinement            |        \
                                       IndexedList  OrderSync

A module extends the one above it; HolderRefinement extends CellHistory and
instantiates NaiveHolder. Each `..._proofs` module extends the lowest module it is about
(CellHistory_proofs: HolderRefinement; Execution_proofs: ExecutionSync; OrderSync_proofs: IndexedList too) and
`SequenceFacts`, the lemmas about sequences they share. TextOT_proofs, about TextOTCheck and CellState, is
extended by those of CellHistory, FocusState and CursorSync, which is also about TextSync. `MC...` modules hold definitions a
configuration cannot express (sequences, symmetry); the other configurations
instantiate the module itself. `PROJECT.json` maps each definition to its lines.

* **TextOT**: operations as sequences of one-character components (the crate
  run-length encodes them): retain, delete or a character. `Transform`,
  `Compose`, `TransformPosition` follow the crate's loops, as recursive functions of what
  the loop has still before it; `ComputeDiff` is the client's diff. Surrogate pairs and JSON are left out.
* **TextOTCheck**: two sites edit one text, exchange and go on: the operators
  against what they are for. It is a test bench, not a part of the system.
* **CellState**: one entry of the map of cells: `TooOld`, `Unseen` (the skip
  into the history), `Rebased`, `Remember` (cap), `Edited`
  (`apply_text_operation`), `RebasePosition`. Pure operators, used by both modules
  below.
* **CellHistory**: a cell fed with edits against any version, also from clients
  whose text does not fit the version they name.
* **NaiveHolder**: the cell of `naive_resolver.rs`, which forgets no edit: the
  abstract specification of a cell. Its one action leaves the base version and
  the edit free; a cell that was never edited has no version there.
* **HolderRefinement**: CellHistory with every edit ever accepted (`past`) next
  to it, mapped to NaiveHolder (`NaiveCell`): `ImplementsNaive`, `AnswersAgree`.
* **TextSync**: one cell, several clients. `Type` is a keystroke (diff,
  composition into the buffer), `Flush` a timer, `Receive` an inbound message
  with the flush that follows it, `Commit`/`Send` `handle_text_edit` with its
  commit and each send, `ReadContent`/`SendResync` the two reads of
  a resync, `Fail` the refusal. Every client has a FIFO channel in each
  direction and one task at the server.
* **CursorSync**: TextSync with the cursors. `TypeAndNote`, `Move` and `Restore` are the three
  ways a cursor moves: by an edit of the user, by hand, and by the editor, which puts it back after the
  edit of another (`CellEditor.tsx:109-122`). The first and the last note it; only the first sets
  a timer (`timer`). `FlushBoth` and `FlushCursor` are
  `attemptFlush`, which needs a timer that fires or an acknowledgement, `SendReport` is `trySend`
  once nothing is pending; `TakeReport` is `handle_change_focus`. A position only tells two cursors apart here.
* **FocusState**: `focus.rs` with its handlers. The index and a bucket have locks
  of their own: `CommitEdit`, `TakeBucket`, `Shift` are the steps of an edit;
  `ReportCursor`, `SetFocus` of a report; `DeleteCell`, `ClearCell` of a
  deletion; `Disconnect`, `ClearUser` of the end of a connection; `BeginSnapshot` and
  `ReadBucket` of the snapshot. `Aborted`, `SetFocusCut` and `ClearCellCut` are
  the places where an aborted task may stop. A bucket lives on in the tasks that
  have looked it up when its cell is gone.
* **FractionalList**: `list.rs`. The index crate's byte strings, ordered like words in a
  dictionary, are sequences of integers in that order: there is one between any two, and one before and
  behind each.
* **IndexedList**: the list under any sequence of calls.
* **OrderSync**: the cells' order at server and clients. `InsertCell`,
  `DeleteCell`, `MoveCell` are the user's buttons with the neighbours the UI
  picks; `OwnEcho`, `ForeignOperation` are the two branches of
  `receiveServerOperation`; `ApplyOperation`, `BeginBroadcast`, `Send` the
  handlers with the moment the recipients are taken; `ReadState`, `ReadVersion`,
  `SendState` the join; `ReceiveFullState` with `Replayed` the client's side of it.
* **ExecutionQueue**: `Register`, `Submit`, `SubmitFails`, `Name` are the steps of
  `execute` between its awaits, and `Abort` the end of the connection at any of them, which ends the
  receiving task (`websocket/handler.rs:66`). `Kernel...` is the kernel as the client crate
  knows it (external): busy, outputs, reply on shell, idle. `ReceiveIopub` and
  `ReceiveShell` are `output_receiver` on the next message of either listener.
* **ExecutionSync**: the queue's steps plus `Announce` (the broadcast of
  execution_pending), `HandleOutput`, `DeleteCell` at any moment of a run,
  the join, and what clients show. A handler changes the notebook or the queue and then has something to tell (`Telling`);
  the clients to tell it to are read in a step of their own (`BeginSending`, `BeginOutput`; `state.rs:37-49`) and sent to
  one by one (`Send`, `SendOutput`). A client is among them from `Connect` on (`websocket/handler.rs:28`);
  notebook, version and executions are read for it later, one by one (`ReadNotebook`, `ReadVersion`, `ReadExecutions`;
  `user.rs:28-35`). So a joiner may be sent an output its state has already. `Viewer` are the clients whose store is
  followed: what is sent to others changes nothing but their own stores. A viewer does not leave, another client
  may while it runs a cell.
* **Session**: connections. `Connect`, `Join`, `ReadVersion`, `SnapshotUsers`,
  `SendState` are the way in, `CloseChannel`, `End`, `Aborted`, `Leave` the way
  out; `ReadRecipients`, `SendNext`, `SendFails` are `broadcast`, over channels that can be full
  or closed; `Receive` is what a client makes of a message, its buffer before the
  full state included. The notebook is its version.
* **Maps**: functions with a changing domain (`With`, `Without`, `Overridden`).

**History variables.** `log` (every committed state), `missed` (runs of which an
answer found no pending execution), `left` in a task that was aborted (the cell it was to run), and `seen`, `since` in a client's store are
read by properties only. So are `past` in HolderRefinement; `serial`, `edit`, `restored` and
`misled` in CursorSync; `report`, `raced`, `late` and `cut` in FocusState (what
was set and for which version; whose position an edit may have missed; who was set
where after that was gone; whom an aborted change left half done); and
`missed` and `overtaken` in Session (which messages a cut broadcast kept from
whom; who heard of whom at a time when it could not help). Where the code has no way
back from an event, the variable names whom it has hit, and the property
speaks of everybody else. So is `astray`: a client enters it at the events after
which the code does not keep it on the server's state, and the properties speak
of the other clients. The events are named one by one in the modules:
* text (`LeadsAstray`): a second foreign edit, or a gap in the versions, while a request
  is in flight; a refused request; a resync that is torn or behind what the client has
  seen. Any other resync brings the client back.
* order (`LosesTrack`, `TornState`): an operation out of order; a foreign operation
  on a cell with pending operations, or wanting the index of a cell that does not give way to it or is superseded;
  an own echo for a place the cell has left meanwhile; a joiner whose version
  is not that of the state it is sent, or who made operations before it.

`SerialBroadcast = TRUE` keeps a change from being committed while another is
being sent. The code does not; it separates what goes wrong
in the client from what goes wrong because broadcasts overtake each other.

Operators named after a slip ("A slip: ...") stand next to the definition they
would replace. They are mutants: each property is shown to fail when the code's
definition is exchanged for its slip (`PROJECT.json`, "mutants").

## 3. Runs

Times are of two workers.

| Run | Configuration | Checks | Bounds |
|---|---|---|---|
| text_operations | MCTextOT | `DiffIsExact`, `ComposeIsSequential`, `TransformConverges`, `CursorStaysPut` | texts up to 3 of 2 characters: every pair of concurrent edits, one of them composed of two (40 s) |
| cell_history | MCHolders | `HistoryIsTail`, `HistoryReplays`, `RecentEditsAccepted`, `CursorsKeepOrder`, `AnswersAgree`, `ImplementsNaive` | cap 2 and 4 edits, so the history overflows twice (15 000 states) |
| text_sync | MCTextSync | `TypeOK`, `ClientOnServerText`, `TrackingClientsConverge`, `RequestsFit` | 2 clients, 4 changes, cap 1 (110 s, 1.2 M states) |
| text_convergence_claim | MCTextSyncConvergence | `Convergence` fails | 3 changes |
| cursor_sync | MCCursorSync | `CursorAfterItsEdit`, `LastCursorShown`, `TypingIsShared`, `ReportsAreSent` | 2 clients, 2 changes, and for one of the two a cursor that moves once by hand or by the editor; 2 positions (110 s, 374 000 states) |
| indexed_list | MCIndexedList | `Mirrored`, `OthersStay` | 3 ids, 4 indexes asked for, 5 calls |
| order_sync | MCOrderSync | `ClientOnServerOrder` | 2 clients, 2 cells, 3 operations, broadcasts in turn |
| order_join | MCOrderSyncJoin | `ListsMirrored`, `EchoesMatchPending`, `TrackingClientsConverge`, `PendingSettles` | 1 client and 1 joiner, 2 operations, broadcasts overlapping |
| execution_queue | MCExecutionQueue | `OneRunPerCell`, `ResultsInOrder`, `RunsEnd` | 2 clients, 2 cells, 3 runs, 1 output each (140 s, 675 000 states) |
| execution_sync | MCExecutionSync | `OutputsOfOneRun`, `ClientsShowOutputs`, `NotShownRunning`, `JoinersRecover` | 1 runner, 1 joiner, both of whom may delete, 1 cell, 2 runs, channels of 1 (170 s, 3.5 M states) |
| focus | MCFocusState | `FocusTypeOK`, `Membership`, `CursorsExact`, `SnapshotHasThoseWhoStay`, `OnlyLateReportsStay` | 2 users, 2 cells, one of them still to be made (30 s, 582 000 states) |
| session | MCSession | `PresenceRight`, `VersionsCatchUp`, `JoinersSync` | 3 users: one there, one connected, one to come; channels of 1 (90 s, 641 000 states) |

**Why the bounds suffice.** Two clients give every relation the code
distinguishes: own and foreign, in flight and buffered, before and after the
full state. In text_sync four changes allow a request in flight, a buffer
behind it, and two foreign edits before the echo; with a history of one, the same run has
requests that are too old, the resync, and an edit between its two reads. A client with a
request in flight is led astray by the second foreign edit, so a longer history would add
nothing to the clients the properties speak of; longer rebases are what
cell_history is for. In order_sync three operations allow a client to have two
pending on one cell when a foreign one arrives. In execution_sync two runs
are what it takes to see the outputs of one replaced by those of the other, and
a joiner that came in the middle of the first recover with the second. The runner deletes the cell while the other
joins, the joiner, once it has, while the other's request is handled.
In focus two users are the one whose position is at
stake and the one who edits or deletes; with two cells there is one to leave
and one to enter, and a cell can be made, entered, deleted and reported late. In session
the three users are a joiner, one who is told of it and one who breaks the
broadcast. In cursor_sync two changes let a cursor wait for a buffer behind a
request in flight, and the move by hand or by the editor comes before, between or after them (`Mover`
and `MaxMoved`: the cursor of one client moves once without typing); two
positions tell a cursor that is where the last one sent was from one that is not.
`Room` and `Capacity` are the channels of 256 and 100 messages; in
execution_sync and in session they hold one, which makes senders wait earlier.

**What the passing runs show** is in the comment of each property. The ones to
read first: `ClientOnServerText` (the invariant of the client's algorithm: text
shown = server's text at the version seen, with the request in flight as it is
*now* and the buffer on top), `ClientOnServerOrder` (its counterpart for the list),
`EchoesMatchPending` (the client never looks at the id of an
echo; it need not), `OneRunPerCell`, `ResultsInOrder`, `Membership` (who is in which
cell, under two levels of locks and aborted tasks), `ImplementsNaive` and
`AnswersAgree` (forgetting edits changes no answer but to requests that are too
old), `PresenceRight` (what a client shows of who is there, whoever comes and goes
meanwhile), `CursorAfterItsEdit` (`useTextSync.ts:19`).

**What the violation run shows.** `Convergence`
(`docs/conflict-resolution.md:20-22`): `receiveServerTextOperation` moves an
inbound edit past the request in flight but does not move the request
(`notebookEngine.ts:284-291`), so the second inbound edit during one round trip is
misplaced or dropped, and the texts differ for good.

**Other disagreements** met while modelling, each an event named by a history
variable or an exception in a property:

* Text: an echo that is overtaken by a later version is dropped and the request
  never acknowledged (`useNotebookSync.ts:284`).
* Order: two users move one cell at the same time; the one the server handles last
  gets the index it asked for, and its client therefore does not apply the
  echo, although it has applied the other move meanwhile (`notebookEngine.ts:235`;
  `README.md:30` promises one order). A deleted pending cell comes back as an
  id without a cell (`notebookEngine.ts:242-258`).
* Joining: a cell inserted between the reads of state and version never reaches
  the joiner, and one deleted there stays (`user.rs:28-32`). Who comes or goes
  between the snapshot and the sending of the state is lost on the joiner, since
  `setUsers` replaces what it heard. An announcement that meets a closed channel
  leaves the joiner without the state (`user.rs:22-24`). `addUser` keeps an entry
  that has no name yet (`userStore.ts:26`).
* Leaving: a broadcast ends at the first closed channel, and an aborted task
  stops in the middle of one: some clients never hear of the change. An aborted task that is not
  waiting may still send its join after the goodbye.
* Execution: in two cases the pending entry is never removed and the cell cannot run again. One is that
  busy and idle arrive before `execute` has stored the message
  id (`execution_queue.rs:55`, `199`). The other is that whoever asked leaves while `execute` awaits: when the
  sending task ends first, `websocket/handler.rs:66` aborts the receiving task, and the entry stays without an
  id, whatever the kernel answers (`execution_queue.rs:43-57`). They are the two exceptions of `RunsEnd`. Outputs around a join are
  lost (`useNotebookSync.ts:108-116`) or, as a client is a recipient before its state is read, shown twice, until
  the next run. A cell may show as
  pending although its run has ended (`handler/execution.rs:31`).
* Focus: `focus.rs:15-19` calls a change of cells atomic; a task aborted while
  it waits for a bucket leaves index and buckets at odds about a user. A report that
  is handled before a deletion or a goodbye and set after it makes the focus anew, and an
  aborted deletion leaves the focus of its cell.
* Cursors at the client: a position noted with an edit is reported at the
  next flush although the user has moved the cursor by hand since, and replaces
  the timer of that move (`useTextSync.ts:26-28`); a position equal to the last
  one sent is not reported even if another is waiting to be sent, or edits
  have moved the cursor since (`useFocusSync.ts:53-56`). Both are exceptions of
  `LastCursorShown`. A cursor the editor puts back after the edit of another is noted without a
  timer (`CellEditor.tsx:147-151`, `useTextSync.ts:97-102`): if no other flush comes it is not reported before
  the user types again, and until then the others show the one before. That is the exception of `ReportsAreSent`
  (`Stranded`). A report carries the version at the time of sending, up to 75 ms
  and any number of retries after the position was measured
  (`useFocusSync.ts:29-37`; `docs/conflict-resolution.md:45-46` says it is the version
  it was measured against), and `ChangeFocus` carries none, so a client cannot tell
  which edits a position has seen; no property speaks of the exact place.

**Fairness.** `OrderSync`: weak fairness of `Receive` (websockets deliver;
JavaScript handlers run to completion) and of each task's steps (the runtime polls every
woken task; the locks are held only within a step). `CursorSync` and `Session`: one weak
fairness condition on all steps of tasks, timers and clients together, which suffices because
every request leads to finitely many of them; the timers of `useTextSync.ts` and
`useFocusSync.ts` are real timers and are set again while something is buffered or waits.
Typing, clicking, coming and going are not fair. `ExecutionQueue`: weak fairness of each task's
steps of `execute`, which an abort ends (a task that is gone has no step left), and of the kernel's
steps, that is, the code a user runs comes to an end; `KernelPrints`,
`SubmitFails` and `Abort` are not fair on their own. In CursorSync a flush is enabled only while a timer is set. Clients are presumed to read: one that
never empties its channel blocks every broadcast, as the code is. `PendingSettles` presumes that
nobody leaves: the first closed channel ends a broadcast (`state.rs:52`), and an author behind it would wait
for its echo for ever. Who leaves is the matter of Session, whose `VersionsCatchUp` speaks of the number of the last
change only, not of the content.

`CHECK_DEADLOCK FALSE` everywhere: with the bounds used up and nothing on its
way, the system is at rest.

## 4. Proofs

What is proved holds for every value of the constants: any clients, users, cells and
texts, any number of changes, any capacity. Each module states an inductive invariant,
has one lemma per action or kind of action, and ends with the theorem. The invariants
were checked by TLC on the instances above before they were proved.

Beyond what is said with each module, three assumptions about constants are needed throughout, all
stated in the modules that declare them: no character is one of the two marks of an operation
(`CharAssumption`), `HistoryCap` is a natural number, and a cell begins with a text (`TextAssumption`).

| Module | Theorem | Property |
|---|---|---|
| TextOT_proofs | Transformation, Composition | what `Transform` and `Compose` do, of any two operations |
| | DiffIsExactAlways, ComposeIsSequentialAlways | `DiffIsExact`, `ComposeIsSequential` |
| | TransformConvergesAlways, CursorStaysPutAlways | `TransformConverges`, `CursorStaysPut` |
| CellHistory_proofs | HistoryIsTailAlways, HistoryReplaysAlways | `HistoryIsTail`, `HistoryReplays` |
| | EditsFitAlways, RecentEditsAcceptedAlways | every remembered edit fits its text; `RecentEditsAccepted` |
| | CursorsKeepOrderAlways | `CursorsKeepOrder` |
| | HolderImplementsNaive, AnswersAgreeAlways | `ImplementsNaive` (refinement), `AnswersAgree` |
| Execution_proofs | OneRunPerCellAlways, ResultsInOrderAlways | `OneRunPerCell`, `ResultsInOrder`, of the queue alone |
| | QueueAmongHandlers | both, of the queue among its handlers |
| | OutputsOfOneRunAlways | `OutputsOfOneRun` |
| | ClientsShowOutputsAlways, NotShownRunningAlways, JoinersRecoverAlways | `ClientsShowOutputs`, `NotShownRunning`, `JoinersRecover` |
| FocusState_proofs | MembershipAlways, OnlyLateReportsStayAlways, SnapshotHasThoseWhoStayAlways | `Membership`, `OnlyLateReportsStay`, `SnapshotHasThoseWhoStay` |
| | FocusTypeOKAlways, CursorsExactAlways | `FocusTypeOK`, `CursorsExact` |
| Session_proofs | VersionsCatchUpAlways, PresenceRightAlways | `VersionsCatchUp`, `PresenceRight` |
| OrderSync_proofs | EchoesMatchPendingAlways | `EchoesMatchPending` |
| | ListsMirroredAlways, ClientOnServerOrderAlways | `ListsMirrored`, `ClientOnServerOrder` of OrderSync |
| | TrackingClientsConvergeAlways | `TrackingClientsConverge` of OrderSync |
| | MirroredAlways, OthersStayAlways | `Mirrored`, `OthersStay` |
| CursorSync_proofs | CursorAfterItsEditAlways, LastCursorShownAlways | `CursorAfterItsEdit`, `LastCursorShown` |
| | TypeOKAlways, RequestsFitAlways | `TypeOK`, `RequestsFit` of TextSync |
| | ClientOnServerTextAlways, TrackingClientsConvergeAlways | `ClientOnServerText`, `TrackingClientsConverge` of TextSync |

**TextOT_proofs.** The operators are recursive, and the library's induction rules cannot be used here, as they
take an operator as a parameter. Two lemmas take their place. `LeastNumber` (from the well-foundedness of the subsets of a
finite set) gives induction for *sets* of numbers and, from it, of sequences (`SequenceInduction`):
a set that has the empty sequence, and a longer one with each shorter one, has all. `RecursiveFunction` says
that a recursion over something that shrinks defines a function; with it each operator gets its equations,
one component at a time (`ApplySteps`, `TransformSteps`, `PositionCons`). Then `Transformation`
goes through two operations as the loop does: an insertion of the first, of the second, a pair of what each does to one
character. `Composition` does the same, with the lengths. That the crate keeps an insertion before the deletions
beside it is the set `Normal`; `PushFrontFacts` says that keeping to it changes nothing of what an operation does.
The difference of two texts is a fold, followed by a table of its intermediate results (`FoldRun`). `CursorStaysPut` is
`PositionCounts`. `TextInv` adds to the four invariants that the edits of the two sites fit. The last part is about cells:
an edit of a text the history remembers, transformed over the edits since, is an edit of the current text (`RebaseFits`);
positions stay inside it and in order (`PositionsStayInside`).

**CellHistory_proofs.** The invariant adds to the two properties
only that the record has its fields and that history and texts are sequences;
`HistoryReplays` needs `HistoryIsTail` for the index of the edit that leaves when the
cap is reached. The argument: an accepted edit appends one
version to both; lemmas on `Append` and `Tail` give what the other positions
hold; one case for a full history, one for room left. That the remembered edits fit the texts they were
made to (`EditsFit`) is an invariant of its own; with `RebaseFits` and `PositionsStayInside` it gives
`RecentEditsAccepted` and `CursorsKeepOrder`. For the refinement the
invariant is that the history is the tail of `past` (`HistoryIsTail` gives
where it begins); then what is skipped in either holder leaves the same
edits, so the folds over them, whatever they compute, are equal. An initial state maps to
one, and a step to a step. From: `HistoryCap` is a natural number.

**Execution_proofs.** `OneRunPerCell` is not inductive. `QueueInv` follows a run through
the places where it can be (`InHand`: with a task, in the kernel's requests, on a socket):
an aborted task has none, and its entry stays (`AbortInv`); each place has ids that were sent already; a task that prepares a run has the entry of the
cell to itself (`Prepared`); a cell with a run in hand has an entry, and only that run
(`Registered`); and the last status of a run is the last of its answers (`EndIsLast`), so
that the entry goes when nothing is in hand any more. For the results, `ResultsInv` adds that the next
id is nowhere (`Fresh`), that nothing follows an end (`NoneAfterEnd`) and what may come before a
start (`StartIsFirst`). What the handlers do to the variables of the queue is one lemma
(`HandlersInv`), so the same invariant serves for the composition. `NotebookInv`
follows the outputs of a cell from the results that wait to the notebook.

For the clients, `ShownCellsInv` says which cells one shows: those of the notebook, the stale ones, and
those whose deletion still comes to it with a version the client has not skipped (`Covers`); the same holds
of the state a task has read and of one on its way, so a joiner can take it over. What is told and not yet sent counts as owed to everybody
(`Owes`), and the reading of the recipients loses nothing to a client that has joined, as it is connected
(`BeginOutputTracks`). `Follows` says what it
shows of a cell: the messages on their way, applied one after another (`Leads`), and then the result it is owed, lead
to what the notebook has; for who is in before the kernel is used `BlankInv` gives the beginning.
`Ends` says that behind every message that makes a cell run or finish there is its end: on the way, in the
hands of the task, among the results, or it is still to be made of the run that is registered (`Begun`;
`WaitingEndInv` for the results). `ShowsInv` says both of every client that has joined and every cell (`Tracks`), unless
the client is behind: each run the notebook has something of or may get something of (`Known`)
was sent before the client joined, or an answer of it was missed, or its start has still to come (`Behind`). That is
where an output that is missing, or there twice, is allowed for. Who
joins when runs were sent is behind, as `KnownInv` bounds the ids of the known runs by the number sent; the handling of a start ends
it, as that clears the outputs whatever the client shows (`StartTracks`). So for who was there from the
start `Tracks` is left, and with it, once nothing is under way and the lists are empty, the first two properties.
`JoinersRecover` assumes that the notebook has something of a later run with no answer missed, so its client is not behind; and
the cell is not shown running, as a run that is registered has its end on the way or has missed an answer
(`UnderwayInv`). From: a notebook has
finitely many cells (`CellAssumption`; the version counts the deleted ones), who deletes is a client.

**FocusState_proofs.** `Membership` is not inductive: the
invariant adds that the index names buckets that exist and no two cells share one, so that
what is done to one bucket is done to one cell at most; this also covers an edit
that shifts a bucket its cell has lost. `LateInv` (who stays) says that who is in a deleted cell was set there
late or somebody is about to clear it. `SnapshotInv` says where somebody who does not move
is found or will be: in what was read, or in the bucket that is still to be read. Actions that leave index and
buckets alone share one lemma. From: nothing about the constants beyond their being sets.

For the positions, `CursorsInv` says of every cell that its history is well kept, and of every position that it is what
the edits between its report and the last shift make of it (`PlacesInv`, in terms of `Stretch`: the edits from one version
to another), that who is still there is in the bucket of its own cell only (`OwnInv`), and that the edit a task has in hand is the one that made
its version, as long as the cell remembers it (`TasksInv`). One shift is then one edit more (`OverOneMore`), and with no
shift outstanding the stretch is all the holder would replay. It matters that the
id of a deleted cell is not used again (`CellsInv`). The exception for a report whose version is forgotten is the code's: it then replays what is
left, best effort (`resolver.rs:282-283`). From: a cell begins with a text of bounded length.

**Session_proofs.** `IInv` is about form, and `JoinsOnce`: a user is on the way to have the state,
has it on its way, or has got it, one of the three and once. `VersionsInv` says of
everybody who can be reached how the version still comes to them: they have it; it is in a message on
its way, behind every older state; a task still owes it; it is in the buffer; or the state is still to be read.
`PresenceInv` says the same of who is there, for every pair of users: the last message on the way that is about
a user decides (`WillShow`), or a task owes it, or the state will say it. With nothing on the way only
"they have it" is left. From: the capacity is positive.

**OrderSync_proofs.** The operations of a client are numbered through: the requests on their way are the
last ones made (`RequestsInv`), the server has taken all before (`Taken`), and what has no echo yet at the client is
what is pending (`Settled`). `EchoesInv` says the echoes on the way carry exactly the numbers between, in their order.
Two things could break it at a client that joins. An echo could be held back and then dropped as no newer than
the state: `JoinInv` has the state sent before anything of the client's own is taken (Join is its first request),
`VersionsInv` has every echo newer than the state. And the replay could take something off the pending list:
`ReplayKeeps` goes through it by its least counterexample, as nothing held back is the client's own. What the list
operations compute stays closed. From: nothing about the constants.

The second part is about the list alone, under any calls (IndexedList). The indexes are totally ordered
(`PrecTransitive`, `PrecTotal`), there is one between any two (`BetweenFits`), and finitely many have a lowest
and a highest (`FirstOf`). `RealIndexIsFree` is the
heart: the index an id is given is held by nobody and lies before the next
one. One lemma per call says the call keeps the list well-formed. For `OthersStay`, an action property, every call
but a strict move leaves the other cells where they are (`CallsLeaveOthers`); a strict move puts the occupant
before the next cell, so that it passes nobody (`StrictMoveKeepsOrder`). From:
the indexes asked for are indexes.

The third part brings both together: a second invariant, `OrderInv`, proved with the first. Of the server it says (`LogInv`)
that the log is gapless and each of its lists well-formed. Of each client:

* a message on its way says what its operation made of the list of the version before, at an index that was free, and an
  inserted cell is new (`Message`); no operation comes to a client twice (`OnceInv`), neither from the channel nor from
  what was held back nor from a task that has still to send it (`Coming`);
* its list is well-formed, and no cell it knows of is inserted anew by what comes (`Orderly`), with which `ListsMirrored` follows;
* unless it was led astray (`Tracking`): but for the cells with pending operations its list is that of the version it
  has seen (`SameOrder`, which is `ClientOnServerOrder`); the last pending operation on a cell decides whether the cell
  is there (`Consistent`); each version it has not seen is still to come (`Delivered`). With nothing on the way, nothing is
  pending by the first invariant and nothing unseen, so `TrackingClientsConverge` follows;
* the state a joiner is sent is that of *some* version up to the one it is sent with, and all after that version
  come (`JoinerInv`): the two are read under different locks, and `astray` marks those that got a state too old.

`ForeignFollows` and `ForeignTracks` are the heart: what somebody else's operation does at a client that has own ones
pending, and where the cell that gives way goes. They show that the events `LosesTrack` and `TornState` name are all there are: in
any other order of operations, echoes and states the client stays on the server's list. `ReplayFits` goes through what was
held back, `LaterTracks` carries the invariant over what others do. From: the cells in the notebook at
first are different ones, and none has the id of a cell made later (`CellsAssumption`: ids are uuids).

**CursorSync_proofs.** The invariant follows a cursor along the way from its client to another:
the timer, the channel to the server, the broadcast, the channel to the other. At every
place no edit with the cursor's id is behind it: an id that is handed over is larger than all before
(`HandsOver`), the task of a client takes one message at a time and has sent it to everybody
before it takes the next, and channels keep their order. So timers, flushes and broadcasts of
others need no case of their own beyond `ClientStep` and `ServerStep`. For the last cursor, `LastInv`
says where it is, of every client that is not misled: noted, waiting, or sent, and then what comes to
another client ends with it (`Comes`: the last report in the channel to the server, else the one the task still
owes that client, else the last in its channel, else what it shows). `FlowsOn` says that a step leaves
what will have come; one lemma per action proves it, so that what is left is the client's own record.
From: nothing about the constants; the text operators stay closed.

For the texts the invariant (`TextSyncInv`) is about the log of what the server has committed, and about each client
against it. The log is a trail: each edit is one of the text before it, and the cell remembers its tail (`Committed`).
Of a client, with its store, channels and task (`Served`): the store is well-formed (`Store`); its request is with its
channel, with its task, or answered and on its way back, one of the three and once (`Once`), and never lost
(`NotLost`); what was committed for it is what it had become over the edits since its base (`Commits`); and, unless it was led
astray, its request fits the text of its base and its buffer what request and server's text make (`OnTrack`), which
is `ClientOnServerText`. The step that matters is an edit of somebody else's that meets a request and a buffer: two uses of
`Transformation`, one over the other. `Delivery` says that each version a client has not seen is in a message on
its way or with a task that has still to send it; a resync on its way counts, as it brings the client to a later version.
So with nothing on its way a client has seen every version, and `TrackingClientsConverge` follows. The invariant has
one lemma per action and splits a store's change from what is put on its way (`Goes`, `Answered`). From: a cell begins
with a text, and who types has a name that is a character (`ClientsTypeThemselves`; it only tells the typists apart).

**Only model-checked.** Liveness (`RunsEnd`, `JoinersSync`, `PendingSettles`,
`TypingIsShared`, `ReportsAreSent`), which is out of the prover's reach. Every safety property of a passing
run is proved.

## 5. Not modelled

* The deletion of a cell with edits under way (TextSync; FocusState has it for the
  focus, ExecutionSync for runs). A joiner of TextSync. The order, outputs and
  deletion of the naive holder, which keeps version and history of deleted ids; its
  nested read lock (`naive_resolver.rs:55-68`), listed as a hazard.
* What is sent before the socket is open (`useWebsocket.ts:45`): the operation is
  dropped silently and stays pending. A client that comes again: the frontend does
  not reconnect.
* Where exactly a client shows the cursor of another one (`rebaseCursorPosition`,
  `transformfocusPositionsForTextEdit`), for the reason given above, and the conversion
  between UTF-16 and code points.
* Vectors of cells (`notebook.rs`), wire types, JSON: data without behaviour.
  Rendering. Kernel process, framing and signatures. A kernel that dies leaves every
  cell pending; `restart` and `interrupt` are called by nothing, and a restart would
  start no new shell listener (`client.rs:153-157`).
* `operation_failed`: `ConcurrentStateHolder` refuses no structural operation.

## 6. Plan

Done, in this order: text operations; cell history and its proof; text
synchronisation; list and its proof; order synchronisation; execution queue; execution at
the clients; the naive holder as an abstract specification and the proof of the
refinement; focus and its proof; sessions; deletion during a run; cursors at the client.

Then the proofs: the queue and the outputs in the notebook; focus (who stays, the snapshot);
sessions (versions, presence); the cursor, its edit and the last report of it; the echoes of pending operations;
what the clients show of the cells and their runs, joiners included; the text operators, and with them the history
of a cell, the positions of the focus and the texts at the clients; the lists at server and clients.

Left, in modelling, if the code grows there: deletion in TextSync; a client's operations before its
socket is open.

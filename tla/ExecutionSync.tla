------------------------------ MODULE ExecutionSync ------------------------------
(***************************************************************************)
(* What becomes of the results of the execution queue (ExecutionQueue):    *)
(* the handlers of execute_cell and of the kernel's outputs                *)
(* (handler/execution.rs), the outputs in the notebook, and what the       *)
(* clients show of it (useNotebookSync.ts, notebookStore.ts), joiners      *)
(* included.  A cell may be deleted while it runs.                         *)
(*                                                                         *)
(* A step of the queue is a step here; the broadcasts are added to it.     *)
(* What is told to the clients is done first: between the change and the   *)
(* reading of who is connected others may go on, and a client may connect. *)
(* A viewer does not leave, and a client that leaves does so when nothing  *)
(* is being sent to it: what a closed channel does to a broadcast is in    *)
(* Session.                                                                *)
(* since and stale, in a client's store, are there for the properties: the  *)
(* code has no counterpart and no action depends on them.                  *)
(***************************************************************************)
EXTENDS ExecutionQueue

CONSTANTS
  Joiner,   \* the clients that are not connected at first
  Runner,   \* bound: the clients whose users run cells
  Deleter,  \* bound: the clients whose users delete cells
  Viewer,   \* the clients of which the store is modelled
  Capacity  \* how many messages can be on their way to a client

ASSUME CellAssumption == IsFiniteSet(Cell)

ASSUME ViewAssumption == Joiner \subseteq Viewer /\ Viewer \subseteq Client
                         /\ Deleter \subseteq Client /\ Capacity \in Nat \ {0}

VARIABLES
  output,    \* what the task of handle_output is doing
  cell,      \* per cell that was not deleted: outputs and execution number in the notebook
  toClient,  \* per viewer: messages on their way
  client     \* per viewer: its store

viewVars == <<output, cell, toClient, client>>
vars == <<queueVars, viewVars>>

Connected == {c \in Viewer : client[c].session # "away"}

\* A task that has m to tell to every client, and has yet to see which there are.
Telling(m) == [at |-> "telling", message |-> m]

\* broadcast sends to the clients that are connected when it begins.
Broadcasting(m) ==
  IF Connected = {} THEN Idle
  ELSE [at |-> "broadcast", message |-> m, rest |-> Connected]

\* A send waits for room.
Deliver(d, m) ==
  /\ Len(toClient[d]) < Capacity
  /\ toClient' = [toClient EXCEPT ![d] = Append(@, m)]

Pending(x) == [type |-> "execution_pending", cell |-> x]

\* A user runs and deletes what the client shows.
Shows(c, x) ==
  c \in Viewer => client[c].session = "joined" /\ x \in DOMAIN client[c].shown

----------------------------------------------------------------------------
(* handle_execute.                                                         *)

\* When execute has returned, every client hears that the cell is pending.
Announce(c) == NameThen(c, Telling(Pending(task[c].cell)))

BeginSending(c) ==
  /\ task[c].at = "telling"
  /\ SetTask(c, Broadcasting(task[c].message))
  /\ UNCHANGED <<pending, kernelVars, results, runs, missed, viewVars>>

Send(c) ==
  /\ task[c].at = "broadcast"
  /\ \E d \in task[c].rest :
       /\ Deliver(d, task[c].message)
       /\ SetTask(c, IF task[c].rest = {d} THEN Idle
                     ELSE [task[c] EXCEPT !.rest = @ \ {d}])
  /\ UNCHANGED <<pending, kernelVars, results, runs, missed, output, cell, client>>

----------------------------------------------------------------------------
(* handle_delete_cell.                                                     *)

\* Of the order of the cells; here nothing else changes it.
Version == Cardinality(Cell \ DOMAIN cell)

\* The run of the cell goes on.
DeleteCell(c, x) ==
  /\ task[c] = Idle /\ Shows(c, x)
  /\ cell' = Without(cell, x)
  /\ SetTask(c, Telling([type |-> "cell_delete", cell |-> x, version |-> Version + 1]))
  /\ UNCHANGED <<pending, kernelVars, results, runs, missed, output, toClient, client>>

----------------------------------------------------------------------------
(* handle_output.                                                          *)

\* A slip: what the cell showed before stays.
CellAfterAppending(s, r) ==
  CASE r.type = "cell_output" -> [s EXCEPT !.outputs = Append(@, r.id)]
    [] r.type = "execution_finished" -> [s EXCEPT !.number = {r.id}]
    [] OTHER -> s

CellAfter(s, r) ==
  CASE r.type = "execution_started" -> [outputs |-> <<>>, number |-> None]
    [] r.type = "cell_output" -> [s EXCEPT !.outputs = Append(@, r.id)]
    [] r.type = "execution_finished" -> [s EXCEPT !.number = {r.id}]
    [] OTHER -> s

\* The notebook first, then the clients.  Of a cell that is gone only the end is
\* told: with everything else the notebook fails first.
HandleOutput ==
  /\ output = Idle /\ results # <<>>
  /\ LET r == Head(results)
     IN  IF r.cell \in DOMAIN cell
         THEN /\ cell' = [cell EXCEPT ![r.cell] = CellAfter(@, r)]
              /\ output' = Telling(r)
         ELSE /\ output' = IF r.type = "cell_idle" THEN Telling(r) ELSE Idle
              /\ UNCHANGED cell
  /\ results' = Tail(results)
  /\ UNCHANGED <<pending, task, kernelVars, runs, missed, toClient, client>>

BeginOutput ==
  /\ output.at = "telling"
  /\ output' = Broadcasting(output.message)
  /\ UNCHANGED <<queueVars, cell, toClient, client>>

SendOutput ==
  /\ output.at = "broadcast"
  /\ \E d \in output.rest :
       /\ Deliver(d, output.message)
       /\ output' = IF output.rest = {d} THEN Idle
                    ELSE [output EXCEPT !.rest = @ \ {d}]
  /\ UNCHANGED <<queueVars, cell, client>>

----------------------------------------------------------------------------
(* Joining.                                                                *)

\* The client is connected: from now on it is sent what all are sent ...
Connect(c) ==
  /\ task[c] = Idle /\ client[c].session = "away"
  /\ client' = [client EXCEPT ![c].session = "joining"]
  /\ SetTask(c, [at |-> "connected"])
  /\ UNCHANGED <<pending, kernelVars, results, runs, missed, output, cell, toClient>>

\* ... its first request is to join; its task reads the notebook ...
ReadNotebook(c) ==
  /\ task[c].at = "connected"
  /\ SetTask(c, [at |-> "notebook", cell |-> cell])
  /\ UNCHANGED <<pending, kernelVars, results, runs, missed, viewVars>>

\* ... then the version ...
ReadVersion(c) ==
  /\ task[c].at = "notebook"
  /\ SetTask(c, [at |-> "version", cell |-> task[c].cell, version |-> Version,
                 stale |-> DOMAIN task[c].cell \ DOMAIN cell])
  /\ UNCHANGED <<pending, kernelVars, results, runs, missed, viewVars>>

\* ... then the pending executions ...
ReadExecutions(c) ==
  /\ task[c].at = "version"
  /\ SetTask(c, [at |-> "state", message |->
       [type |-> "full_state", notebook |-> task[c].cell, version |-> task[c].version,
        stale |-> task[c].stale,
        pending |-> [x \in DOMAIN pending |-> pending[x].status]]])
  /\ UNCHANGED <<pending, kernelVars, results, runs, missed, viewVars>>

\* ... and sends all of it.
SendState(c) ==
  /\ task[c].at = "state"
  /\ Deliver(c, task[c].message)
  /\ SetTask(c, Idle)
  /\ UNCHANGED <<pending, kernelVars, results, runs, missed, output, cell, client>>

----------------------------------------------------------------------------
(* The client.                                                             *)

\* toCellState.
StateOf(m, x) ==
  IF x \notin DOMAIN m.pending THEN "idle"
  ELSE IF m.pending[x] = "pending" THEN "pending" ELSE "running"

\* A slip: the outputs are cleared as soon as the run is pending.
ShownAfterClearingEarly(s, m) ==
  CASE m.type = "execution_pending"  -> [s EXCEPT !.state = "pending", !.outputs = <<>>]
    [] m.type = "execution_started"  -> [s EXCEPT !.state = "running"]
    [] m.type = "cell_output"        -> [s EXCEPT !.outputs = Append(@, m.id)]
    [] m.type = "execution_finished" -> [s EXCEPT !.state = "finishing",
                                                  !.number = {m.id}]
    [] OTHER                         -> [s EXCEPT !.state = "idle"]

\* A slip: the end of a run ends only what is finishing.
ShownAfterHanging(s, m) ==
  CASE m.type = "execution_pending"  -> [s EXCEPT !.state = "pending"]
    [] m.type = "execution_started"  -> [s EXCEPT !.state = "running",
                                                  !.outputs = <<>>]
    [] m.type = "cell_output"        -> [s EXCEPT !.outputs = Append(@, m.id)]
    [] m.type = "execution_finished" -> [s EXCEPT !.state = "finishing",
                                                  !.number = {m.id}]
    [] OTHER -> [s EXCEPT !.state = IF @ = "finishing" THEN "idle" ELSE @]

\* A start clears the outputs, and leaves the number.
ShownAfter(s, m) ==
  CASE m.type = "execution_pending"  -> [s EXCEPT !.state = "pending"]
    [] m.type = "execution_started"  -> [s EXCEPT !.state = "running",
                                                  !.outputs = <<>>]
    [] m.type = "cell_output"        -> [s EXCEPT !.outputs = Append(@, m.id)]
    [] m.type = "execution_finished" -> [s EXCEPT !.state = "finishing",
                                                  !.number = {m.id}]
    [] OTHER                         -> [s EXCEPT !.state = "idle"]

\* handleFullState: what is shown is the state, without what was deleted
\* meanwhile.
Joined(c, m) ==
  LET newer == {d \in client[c].deletions : d.version > m.version}
  IN  [session |-> "joined", since |-> kernel.sent, stale |-> m.stale,
       version |-> m.version, deletions |-> {},
       shown |-> [x \in DOMAIN m.notebook \ {d.cell : d \in newer} |->
         [outputs |-> m.notebook[x].outputs, number |-> m.notebook[x].number,
          state |-> StateOf(m, x)]]]

\* handleCellDelete, and bufferUntilSynced.  The version stays that of the state.
Deleted(s, m) ==
  IF s.session # "joined" THEN [s EXCEPT !.deletions = @ \cup {m}]
  ELSE IF m.version <= s.version THEN s
  ELSE [s EXCEPT !.shown = Without(@, m.cell)]

\* A slip: a result brings a cell back.
ShowingAgain(s, m) ==
  IF s.session # "joined" THEN s
  ELSE [s EXCEPT !.shown = With(@, m.cell, ShownAfter(
         IF m.cell \in DOMAIN @ THEN @[m.cell]
         ELSE [outputs |-> <<>>, number |-> None, state |-> "idle"], m))]

\* The results of a run, and discardUntilSynced: those of a cell that is not
\* there are ignored.
Showing(s, m) ==
  IF s.session # "joined" \/ m.cell \notin DOMAIN s.shown THEN s
  ELSE [s EXCEPT !.shown[m.cell] = ShownAfter(@, m)]

Receive(c) ==
  /\ toClient[c] # <<>>
  /\ LET m == Head(toClient[c])
     IN  client' = [client EXCEPT ![c] =
           CASE m.type = "full_state"  -> Joined(c, m)
             [] m.type = "cell_delete" -> Deleted(@, m)
             [] OTHER                  -> Showing(@, m)]
  /\ toClient' = [toClient EXCEPT ![c] = Tail(@)]
  /\ UNCHANGED <<queueVars, output, cell>>

----------------------------------------------------------------------------

Init ==
  /\ QueueInit
  /\ output = Idle
  /\ cell = [x \in Cell |-> [outputs |-> <<>>, number |-> None]]
  /\ toClient = [c \in Viewer |-> <<>>]
  /\ client = [c \in Viewer |->
       [session |-> IF c \in Joiner THEN "away" ELSE "joined", since |-> 0,
        stale |-> {}, version |-> 0, deletions |-> {},
        shown |-> [x \in Cell |-> [outputs |-> <<>>, number |-> None,
                                   state |-> "idle"]]]]

\* That a cell goes between get_cell and execute is as if it went after that.
Run(c) ==
  /\ c \in Runner
  /\ \E x \in DOMAIN cell : Shows(c, x) /\ Register(c, x)

QueueStep ==
  /\ \/ \E c \in Client : Run(c) \/ Submit(c) \/ SubmitFails(c) \/ Announce(c)
     \/ \E c \in Client \ Viewer : Abort(c)
     \/ Kernel \/ ReceiveIopub \/ ReceiveShell
  /\ UNCHANGED viewVars

Next ==
  \/ QueueStep
  \/ \E c \in Client : BeginSending(c) \/ Send(c)
  \/ \E c \in Deleter, x \in DOMAIN cell : DeleteCell(c, x)
  \/ \E c \in Viewer : \/ Receive(c)
                       \/ Connect(c) \/ ReadNotebook(c) \/ ReadVersion(c)
                       \/ ReadExecutions(c) \/ SendState(c)
  \/ HandleOutput \/ BeginOutput \/ SendOutput

Spec == Init /\ [][Next]_vars

----------------------------------------------------------------------------
(* Properties.                                                             *)

\* A cell shows the outputs of one run, the one that was started last, unless
\* the start of a run was missed.
OutputsOfOneRun ==
  \A x \in DOMAIN cell :
    Range(cell[x].outputs) \cap missed = {} =>
      /\ Cardinality(Range(cell[x].outputs)) <= 1
      /\ x \in DOMAIN pending /\ pending[x].status = "executing" /\ results = <<>>
           => Range(cell[x].outputs) \subseteq pending[x].id

Quiet ==
  /\ kernel.requests = <<>> /\ iopub = <<>> /\ shell = <<>> /\ results = <<>>
  /\ output = Idle
  /\ \A c \in Client : task[c].at \in {"idle", "gone"}
  /\ \A c \in Viewer : toClient[c] = <<>>

\* The clients that have been there since before anything was sent to the
\* kernel.
FromTheStart == {c \in Viewer : client[c].session = "joined" /\ client[c].since = 0}

\* When nothing is under way, a client that was there from the start shows the
\* cells the notebook has, the outputs they have there, and the execution number
\* too if there is one: no result of a run brings a cell back that was deleted.
\* A cell that was deleted after the state of a joiner was read, and before its
\* version was, is shown for ever.
ClientsShowOutputs ==
  Quiet => \A c \in FromTheStart :
           /\ DOMAIN client[c].shown = DOMAIN cell \cup client[c].stale
           /\ \A x \in DOMAIN cell :
             /\ client[c].shown[x].outputs = cell[x].outputs
             /\ cell[x].number # None => client[c].shown[x].number = cell[x].number

\* A cell is not shown running or finishing when its run has ended, although
\* the reply of the kernel may come after the end.
NotShownRunning ==
  Quiet => \A c \in FromTheStart, x \in DOMAIN cell :
             x \notin DOMAIN pending => client[c].shown[x].state \in {"idle", "pending"}

\* Whatever a client has missed or got twice by joining in the middle of a run,
\* it shows the outputs the notebook has, and none of them as running, once the
\* cell holds those of a run that was sent to the kernel after it had joined
\* and of which no answer was missed.
JoinersRecover ==
  Quiet => \A c \in Viewer, x \in DOMAIN cell :
    LET of == Range(cell[x].outputs) \cup cell[x].number
    IN  /\ client[c].session = "joined"
        /\ of # {} /\ \A id \in of : id[2] > client[c].since
        /\ of \cap missed = {}
        => /\ client[c].shown[x].outputs = cell[x].outputs
           /\ client[c].shown[x].state \in {"idle", "pending"}

===============================================================================

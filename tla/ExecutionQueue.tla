----------------------------- MODULE ExecutionQueue -----------------------------
(***************************************************************************)
(* The execution queue (execution_queue.rs) between the handlers that ask  *)
(* for runs and the kernel with its two sockets (kernel/client.rs).        *)
(*                                                                         *)
(* A run is registered as pending, sent to the kernel, and only then given *)
(* the id under which the kernel answers.  Answers come on two sockets,    *)
(* status and outputs on iopub and the reply on shell, and one task takes  *)
(* them in any order.  The connection of whoever asks can end at any       *)
(* moment, and its receiving task with it.                                 *)
(*                                                                         *)
(* missed, and left in a task that is gone, are there for the properties:  *)
(* no action depends on them.                                              *)
(***************************************************************************)
EXTENDS Naturals, FiniteSets, Sequences, Functions, Maps

CONSTANTS
  Client,
  Cell,        \* the code cells of the notebook
  MaxRuns,     \* bound: runs that are registered
  MaxOutputs,  \* bound: outputs of one run
  Room         \* how many results can wait to be handled

ASSUME BoundsAssumption == MaxRuns \in Nat /\ MaxOutputs \in Nat /\ Room \in Nat \ {0}

VARIABLES
  pending,   \* pending_executions: per cell that is to run, id and status
  task,      \* per client: what the server's receiving task is doing
  kernel,    \* the requests the kernel has, and what it does with the first
  iopub,     \* status and outputs on their way
  shell,     \* replies on their way
  results,   \* what the queue has made of them
  runs,      \* runs registered so far
  missed     \* the runs of which an answer found no pending execution

kernelVars == <<kernel, iopub, shell>>
queueVars == <<pending, task, kernelVars, results, runs, missed>>

\* The id of a run: the cell is in it for the properties only, the code
\* compares ids.
Id(x, n) == <<x, n>>
None == {}

Idle == [at |-> "idle"]
Submitting(x) == [at |-> "submitting", cell |-> x]
Naming(x, id) == [at |-> "naming", cell |-> x, id |-> id]
Gone(x) == [at |-> "gone", left |-> x]

SetTask(c, t) == task' = [task EXCEPT ![c] = t]

----------------------------------------------------------------------------
(* execute.                                                                *)

\* A slip: a cell may be queued that is queued already.
MayQueueAgain(x) == TRUE

MayQueue(x) == x \notin DOMAIN pending

\* The run is registered under no id, if the cell has none.
Register(c, x) ==
  /\ task[c] = Idle
  /\ runs < MaxRuns
  /\ MayQueue(x)
  /\ pending' = With(pending, x, [id |-> None, status |-> "pending"])
  /\ runs' = runs + 1
  /\ SetTask(c, Submitting(x))
  /\ UNCHANGED <<kernelVars, results, missed>>

\* execute_code sends the request under a fresh id ...
Submit(c) ==
  /\ task[c].at = "submitting"
  /\ LET id == Id(task[c].cell, kernel.sent + 1)
     IN  /\ kernel' = [kernel EXCEPT !.requests = Append(@, id), !.sent = @ + 1]
         /\ SetTask(c, Naming(task[c].cell, id))
  /\ UNCHANGED <<pending, iopub, shell, results, runs, missed>>

\* ... or cannot, and the run is dropped without a word.
SubmitFails(c) ==
  /\ task[c].at = "submitting"
  /\ pending' = Without(pending, task[c].cell)
  /\ SetTask(c, Idle)
  /\ UNCHANGED <<kernelVars, results, runs, missed>>

\* The run gets its id, if it is still registered, and execute returns.
NameThen(c, next) ==
  /\ task[c].at = "naming"
  /\ LET x == task[c].cell
     IN  pending' = IF x \in DOMAIN pending
                    THEN [pending EXCEPT ![x].id = {task[c].id}] ELSE pending
  /\ SetTask(c, next)
  /\ UNCHANGED <<kernelVars, results, runs, missed>>

Name(c) == NameThen(c, Idle)

\* The connection ends, and the receiving task is aborted where it waits: the
\* run that it has registered and not named stays as it is.  A task that is
\* aborted between two requests is one that takes no further request.
Abort(c) ==
  /\ task[c].at \in {"submitting", "naming"}
  /\ SetTask(c, Gone(task[c].cell))
  /\ UNCHANGED <<pending, kernelVars, results, runs, missed>>

----------------------------------------------------------------------------
(* The kernel, as its client knows it: one request after the other, busy   *)
(* and idle around everything else on iopub, the reply on shell.           *)

Publish(type) ==
  iopub' = Append(iopub, [type |-> type, parent |-> Head(kernel.requests)])

KernelBusy ==
  /\ kernel.phase = "idle" /\ kernel.requests # <<>>
  /\ kernel' = [kernel EXCEPT !.phase = "busy"]
  /\ Publish("busy")
  /\ UNCHANGED <<pending, task, shell, results, runs, missed>>

KernelPrints ==
  /\ kernel.phase = "busy" /\ kernel.printed < MaxOutputs
  /\ kernel' = [kernel EXCEPT !.printed = @ + 1]
  /\ Publish("output")
  /\ UNCHANGED <<pending, task, shell, results, runs, missed>>

KernelReplies ==
  /\ kernel.phase = "busy"
  /\ kernel' = [kernel EXCEPT !.phase = "replied"]
  /\ shell' = Append(shell, Head(kernel.requests))
  /\ UNCHANGED <<pending, task, iopub, results, runs, missed>>

KernelIdle ==
  /\ kernel.phase = "replied"
  /\ kernel' = [kernel EXCEPT !.phase = "idle", !.printed = 0, !.requests = Tail(@)]
  /\ Publish("idle")
  /\ UNCHANGED <<pending, task, shell, results, runs, missed>>

Kernel == KernelBusy \/ KernelPrints \/ KernelReplies \/ KernelIdle

----------------------------------------------------------------------------
(* output_receiver: the two listeners feed one channel, so that the answers *)
(* of one socket stay in order and those of both mix in any way.           *)

\* A slip: an answer goes to whatever its cell has pending.
FoundByCell(parent) == {x \in DOMAIN pending : x = parent[1]}

\* find_execution_by_parent: an execution without an id is not found.
Found(parent) == {x \in DOMAIN pending : pending[x].id = {parent}}

Result(type, x, id) == [type |-> type, cell |-> x, id |-> id]

\* A slip: the run is marked at its end and not taken out.
PendingAfterKept(type, x) ==
  CASE type = "busy" -> [pending EXCEPT ![x].status = "executing"]
    [] type = "idle" -> [pending EXCEPT ![x].status = "finished"]
    [] OTHER -> pending

\* What an answer does to the execution that is found (update_status,
\* take_execution_by_parent).
PendingAfter(type, x) ==
  CASE type = "busy" -> [pending EXCEPT ![x].status = "executing"]
    [] type = "idle" -> Without(pending, x)
    [] OTHER -> pending

ResultType(type) ==
  CASE type = "busy" -> "execution_started"
    [] type = "output" -> "cell_output"
    [] type = "reply" -> "execution_finished"
    [] OTHER -> "cell_idle"

\* A result waits for room.
TakeAnswer(type, parent) ==
  /\ \/ \E x \in Found(parent) :
          /\ Len(results) < Room
          /\ pending' = PendingAfter(type, x)
          /\ results' = Append(results, Result(ResultType(type), x, parent))
          /\ UNCHANGED missed
     \/ /\ Found(parent) = {}
        /\ missed' = missed \cup {parent}
        /\ UNCHANGED <<pending, results>>
  /\ UNCHANGED <<runs, task, kernel>>

ReceiveIopub ==
  /\ iopub # <<>>
  /\ iopub' = Tail(iopub)
  /\ TakeAnswer(Head(iopub).type, Head(iopub).parent)
  /\ UNCHANGED shell

ReceiveShell ==
  /\ shell # <<>>
  /\ shell' = Tail(shell)
  /\ TakeAnswer("reply", Head(shell))
  /\ UNCHANGED iopub

----------------------------------------------------------------------------

QueueInit ==
  /\ pending = <<>>
  /\ task = [c \in Client |-> Idle]
  /\ kernel = [requests |-> <<>>, phase |-> "idle", printed |-> 0, sent |-> 0]
  /\ iopub = <<>> /\ shell = <<>> /\ results = <<>>
  /\ runs = 0
  /\ missed = {}

Execute(c) == Submit(c) \/ SubmitFails(c) \/ Name(c)

QueueNext ==
  \/ \E c \in Client : Execute(c) \/ Abort(c) \/ \E x \in Cell : Register(c, x)
  \/ Kernel \/ ReceiveIopub \/ ReceiveShell

QueueSpec == QueueInit /\ [][QueueNext]_queueVars

\* Every task is polled until it is aborted, every answer arrives and the code
\* that is run comes to an end.  Nobody need run anything, and nobody leave.
FairQueueSpec ==
  /\ QueueSpec
  /\ WF_queueVars(KernelBusy) /\ WF_queueVars(KernelReplies) /\ WF_queueVars(KernelIdle)
  /\ WF_queueVars(ReceiveIopub) /\ WF_queueVars(ReceiveShell)
  /\ \A c \in Client : WF_queueVars(Execute(c))

----------------------------------------------------------------------------
(* Properties.                                                             *)

\* The runs of a cell that the kernel has or of which an answer is under way.
Unfinished(x) ==
  {id \in Range(kernel.requests) \cup {iopub[k].parent : k \in DOMAIN iopub} :
     id[1] = x}

\* docs/conflict-resolution.md:62-63, "A cell that is already pending or
\* executing cannot be queued again": from the first request until the last
\* status has been taken off the socket, no second run of a cell is under way,
\* whoever asks, and also where a run was not registered in time.
OneRunPerCell ==
  \A x \in Cell : /\ Cardinality(Unfinished(x)) <= 1
                  /\ Unfinished(x) # {} => x \in DOMAIN pending

\* Whatever way the answers of the two sockets mix, a run has no result after
\* its end, and none but its reply before its start.
ResultsInOrder ==
  \A i, j \in DOMAIN results :
    i < j /\ results[i].id = results[j].id =>
      /\ results[i].type # "cell_idle"
      /\ results[j].type = "execution_started" =>
           results[i].type = "execution_finished"

\* A run ends: its cell may be run again, whoever asks.  The code keeps this but
\* in two cases, after which the run stays pending for ever: an answer of the
\* kernel came before the run had its id, or who asked left before it had it.
RunsEnd ==
  \A x \in Cell :
    x \in DOMAIN pending ~> \/ x \notin DOMAIN pending
                            \/ \E id \in missed : id[1] = x
                            \/ \E c \in Client : task[c] = Gone(x)

===============================================================================

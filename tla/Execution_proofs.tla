---------------------------- MODULE Execution_proofs ----------------------------
(***************************************************************************)
(* Running cells, for every set of clients and cells and all bounds: that  *)
(* no two runs of a cell are under way (OneRunPerCell) and that the        *)
(* results of a run come in order (ResultsInOrder), for the queue alone    *)
(* and for the queue among its handlers; that the notebook has the outputs *)
(* of one run (OutputsOfOneRun); and that in the end the clients show what *)
(* the notebook has (ClientsShowOutputs), and nothing that has ended as    *)
(* running (NotShownRunning), those who joined meanwhile included once a   *)
(* run has been started for them (JoinersRecover).                         *)
(***************************************************************************)
EXTENDS ExecutionSync, SequenceFacts, FiniteSetTheorems

RunId == Cell \X Nat

Requests == kernel.requests

IopubMessage == [type : {"busy", "output", "idle"}, parent : RunId]

ResultMessage ==
  [type : {"execution_started", "cell_output", "execution_finished", "cell_idle"},
   cell : Cell, id : RunId]

\* The runs that the kernel has or of which an answer is under way on iopub.
InHand == Range(Requests) \cup {iopub[k].parent : k \in DOMAIN iopub}

\* The tasks between the registration of a run and its getting an id.
Preparing(c) == task[c].at \in {"submitting", "naming"}

----------------------------------------------------------------------------
(* The inductive invariant of the queue.  The tasks and the results may do *)
(* and become what the handlers make of them.                              *)

QueueTypeInv ==
  /\ DOMAIN pending \subseteq Cell
  /\ \A x \in DOMAIN pending :
       pending[x] \in [id : SUBSET RunId, status : {"pending", "executing"}]
  /\ DOMAIN task = Client
  /\ \A c \in Client : /\ Preparing(c) => task[c].cell \in Cell
                       /\ task[c].at = "naming" =>
                            task[c].id \in RunId /\ task[c].id[1] = task[c].cell
  /\ DOMAIN kernel = {"requests", "phase", "printed", "sent"}
  /\ Requests \in Seq(RunId) /\ kernel.sent \in Nat
  /\ kernel.phase \in {"idle", "busy", "replied"}
  /\ kernel.phase # "idle" => Requests # <<>>
  /\ iopub \in Seq(IopubMessage)
  /\ shell \in Seq(RunId)
  /\ results \in Seq(ResultMessage)

\* A run that is being prepared is registered and has no id yet; nobody else
\* prepares one of that cell, and the kernel has none but, perhaps, this one.
Prepared ==
  \A c \in Client : Preparing(c) =>
    LET x == task[c].cell
    IN  /\ x \in DOMAIN pending /\ pending[x].id = None
        /\ \A d \in Client : Preparing(d) /\ task[d].cell = x => d = c
        /\ \A id \in InHand : id[1] = x => task[c].at = "naming" /\ task[c].id = id

\* A run in hand is the one that is registered for its cell.
Registered ==
  /\ \A x \in DOMAIN pending : \A id \in pending[x].id : id[1] = x
  /\ \A id \in InHand :
       /\ id[1] \in DOMAIN pending /\ pending[id[1]].id \subseteq {id}
       /\ \A other \in InHand : other[1] = id[1] => other = id

\* No request is there twice, and nothing of a run follows its end on iopub.
EndIsLast ==
  /\ \A i, j \in DOMAIN Requests : Requests[i] = Requests[j] => i = j
  /\ \A k \in DOMAIN iopub : iopub[k].type = "idle" =>
       /\ iopub[k].parent \notin Range(Requests)
       /\ \A m \in DOMAIN iopub : iopub[m].parent = iopub[k].parent => m <= k

QueueInv ==
  /\ QueueTypeInv /\ Prepared /\ Registered /\ EndIsLast

\* An id that is sent next is nowhere.
Fresh ==
  /\ \A id \in InHand \cup Range(shell) : id[2] <= kernel.sent
  /\ \A i \in DOMAIN results : results[i].id[2] <= kernel.sent
  /\ \A c \in Client : task[c].at = "naming" => task[c].id[2] <= kernel.sent

\* What has ended gets no more results.
NoneAfterEnd ==
  \A i \in DOMAIN results : results[i].type = "cell_idle" =>
    /\ \A x \in DOMAIN pending : results[i].id \notin pending[x].id
    /\ \A c \in Client : task[c].at = "naming" => task[c].id # results[i].id
    /\ \A j \in DOMAIN results : results[j].id = results[i].id => j <= i

\* Of a request that the kernel has not begun there is nothing; of one whose
\* start is on iopub there is nothing on iopub before it, and only the reply may
\* have been taken.
StartIsFirst ==
  /\ \A k \in DOMAIN Requests : k > 1 \/ kernel.phase = "idle" =>
       /\ \A m \in DOMAIN iopub : iopub[m].parent # Requests[k]
       /\ Requests[k] \notin Range(shell)
       /\ \A i \in DOMAIN results : results[i].id # Requests[k]
  /\ \A k \in DOMAIN iopub : iopub[k].type = "busy" =>
       /\ \A m \in DOMAIN iopub : iopub[m].parent = iopub[k].parent => k <= m
       /\ \A i \in DOMAIN results :
            results[i].id = iopub[k].parent => results[i].type = "execution_finished"
  /\ \A i, j \in DOMAIN results :
       i < j /\ results[i].id = results[j].id /\ results[j].type = "execution_started"
         => results[i].type = "execution_finished"

ResultsInv == Fresh /\ NoneAfterEnd /\ StartIsFirst

----------------------------------------------------------------------------
(* Sequences and what is in them. *)

LEMMA AppendRange ==
  ASSUME NEW S, NEW s \in Seq(S), NEW e \in S
  PROVE  /\ Append(s, e) \in Seq(S)
         /\ DOMAIN s = 1..Len(s) /\ Len(s) \in Nat
         /\ DOMAIN Append(s, e) = 1..Len(s) + 1
         /\ \A i \in DOMAIN s : Append(s, e)[i] = s[i]
         /\ Append(s, e)[Len(s) + 1] = e
         /\ Range(Append(s, e)) = Range(s) \cup {e}
<1>1. /\ Append(s, e) \in Seq(S)
      /\ Len(Append(s, e)) = Len(s) + 1
      /\ \A i \in 1..Len(s) : Append(s, e)[i] = s[i]
      /\ Append(s, e)[Len(s) + 1] = e
  BY AppendProperties
<1>2. DOMAIN s = 1..Len(s) /\ Len(s) \in Nat /\ DOMAIN Append(s, e) = 1..Len(s) + 1
  BY <1>1, LenProperties
<1>3. Range(Append(s, e)) = Range(s) \cup {e}
  BY <1>1, <1>2 DEF Range
<1>4. QED
  BY <1>1, <1>2, <1>3

LEMMA TailRange ==
  ASSUME NEW S, NEW s \in Seq(S), s # <<>>
  PROVE  /\ Tail(s) \in Seq(S) /\ Head(s) \in S /\ Head(s) = s[1]
         /\ DOMAIN s = 1..Len(s) /\ Len(s) \in Nat /\ Len(s) > 0
         /\ DOMAIN Tail(s) = 1..Len(s) - 1
         /\ \A i \in DOMAIN Tail(s) : Tail(s)[i] = s[i + 1] /\ i + 1 \in DOMAIN s
         /\ Range(s) = Range(Tail(s)) \cup {Head(s)}
<1>1. /\ Tail(s) \in Seq(S) /\ Head(s) \in S /\ Head(s) = s[1]
      /\ Len(Tail(s)) = Len(s) - 1
      /\ \A i \in 1..Len(Tail(s)) : Tail(s)[i] = s[i + 1]
  BY HeadTailProperties
<1>2. /\ DOMAIN s = 1..Len(s) /\ Len(s) \in Nat /\ Len(s) > 0
      /\ DOMAIN Tail(s) = 1..Len(s) - 1
  BY <1>1, LenProperties, EmptySeq
<1>3. Range(s) = Range(Tail(s)) \cup {Head(s)}
  <2>1. \A i \in DOMAIN s : i = 1 \/ (i - 1 \in DOMAIN Tail(s) /\ s[i] = Tail(s)[i - 1])
    BY <1>1, <1>2
  <2>2. \A i \in DOMAIN Tail(s) : i + 1 \in DOMAIN s /\ s[i + 1] = Tail(s)[i]
    BY <1>1, <1>2
  <2>3. Range(s) \subseteq Range(Tail(s)) \cup {Head(s)}
    BY <1>1, <2>1 DEF Range
  <2>4. Range(Tail(s)) \subseteq Range(s)
    BY <2>2 DEF Range
  <2>5. Head(s) \in Range(s)
    BY <1>1, <1>2 DEF Range
  <2>6. QED
    BY <2>3, <2>4, <2>5
<1>4. QED
  BY <1>1, <1>2, <1>3

----------------------------------------------------------------------------
(* The invariant of the queue, step by step. *)

LEMMA QueueInitInv == QueueInit => QueueInv
BY DEF QueueInit, QueueInv, QueueTypeInv, Prepared, Registered, EndIsLast, InHand,
       Range, Requests, Preparing, Idle

\* What the handlers do besides: a task that prepares no run does something else
\* that is not to prepare one, and results are taken.
LEMMA HandlersInv ==
  ASSUME QueueInv, UNCHANGED <<pending, kernelVars>>,
         \A c \in Client : task'[c] = task[c] \/ (~Preparing(c) /\ ~Preparing(c)'),
         DOMAIN task' = Client,
         results' = results \/ (results # <<>> /\ results' = Tail(results))
  PROVE  QueueInv'
<1>1. QueueTypeInv'
  <2>1. results' \in Seq(ResultMessage)
    <3>1. results \in Seq(ResultMessage)
      BY DEF QueueInv, QueueTypeInv
    <3>2. results # <<>> => Tail(results) \in Seq(ResultMessage)
      BY <3>1, TailRange
    <3>3. QED
      BY <3>1, <3>2
  <2>2. QED
    BY <2>1 DEF QueueInv, QueueTypeInv, Preparing, kernelVars, Requests
<1>2. InHand' = InHand
  BY DEF InHand, Requests, kernelVars
<1>3. Prepared' /\ Registered' /\ EndIsLast'
  BY <1>2 DEF QueueInv, Prepared, Registered, EndIsLast, Preparing, Requests, kernelVars
<1>4. QED
  BY <1>1, <1>3 DEF QueueInv

LEMMA RegisterInv ==
  ASSUME QueueInv, NEW c \in Client, NEW x \in Cell, Register(c, x)
  PROVE  QueueInv'
<1> DEFINE new == [id |-> None, status |-> "pending"]
<1>1. /\ task[c] = Idle /\ x \notin DOMAIN pending
      /\ pending' = With(pending, x, new)
      /\ task' = [task EXCEPT ![c] = Submitting(x)]
      /\ UNCHANGED <<kernelVars, results>>
  BY DEF Register, MayQueue, SetTask
<1>2. /\ DOMAIN pending' = DOMAIN pending \cup {x}
      /\ pending'[x] = new
      /\ \A y \in DOMAIN pending : pending'[y] = pending[y]
  BY <1>1 DEF With
<1>3. /\ DOMAIN task' = Client
      /\ task'[c].at = "submitting" /\ task'[c].cell = x
      /\ ~Preparing(c)
      /\ \A d \in Client \ {c} : task'[d] = task[d]
  BY <1>1 DEF QueueInv, QueueTypeInv, Submitting, Idle, Preparing
<1>4. InHand' = InHand
  BY <1>1 DEF InHand, Requests, kernelVars
<1>5. \A id \in InHand : id[1] # x
  BY <1>1 DEF QueueInv, Registered
<1>6. QueueTypeInv'
  <2>1. new \in [id : SUBSET RunId, status : {"pending", "executing"}]
    BY DEF None
  <2>2. QED
    BY <1>1, <1>2, <1>3, <2>1 DEF QueueInv, QueueTypeInv, Preparing, kernelVars, Requests
<1>7. Prepared'
  BY <1>1, <1>2, <1>3, <1>4, <1>5 DEF QueueInv, Prepared, Preparing
<1>8. Registered'
  BY <1>1, <1>2, <1>4, <1>5 DEF QueueInv, Registered, None
<1>9. EndIsLast'
  BY <1>1 DEF QueueInv, EndIsLast, kernelVars, Requests
<1>10. QED
  BY <1>6, <1>7, <1>8, <1>9 DEF QueueInv

LEMMA SubmitInv ==
  ASSUME QueueInv, NEW c \in Client, Submit(c)
  PROVE  QueueInv'
<1> DEFINE x  == task[c].cell
           id == Id(x, kernel.sent + 1)
<1>1. /\ task[c].at = "submitting"
      /\ kernel' = [kernel EXCEPT !.requests = Append(@, id), !.sent = @ + 1]
      /\ task' = [task EXCEPT ![c] = Naming(x, id)]
      /\ UNCHANGED <<pending, iopub, shell, results>>
  BY DEF Submit, SetTask
<1>2. x \in Cell /\ id \in RunId /\ id[1] = x
  BY <1>1 DEF QueueInv, QueueTypeInv, Preparing, RunId, Id
<1>3. /\ DOMAIN task' = Client
      /\ task'[c].at = "naming" /\ task'[c].cell = x /\ task'[c].id = id
      /\ \A d \in Client \ {c} : task'[d] = task[d]
  BY <1>1 DEF QueueInv, QueueTypeInv, Naming
<1>4. /\ DOMAIN kernel' = DOMAIN kernel
      /\ kernel'.requests = Append(Requests, id)
      /\ kernel'.sent = kernel.sent + 1 /\ kernel'.phase = kernel.phase
  BY <1>1 DEF QueueInv, QueueTypeInv, Requests
<1>5. /\ x \in DOMAIN pending /\ pending[x].id = None
      /\ \A d \in Client : Preparing(d) /\ task[d].cell = x => d = c
      /\ \A other \in InHand : other[1] # x
  BY <1>1 DEF QueueInv, Prepared, Preparing
<1> HIDE DEF id, x
<1>6. /\ Requests' \in Seq(RunId)
      /\ DOMAIN Requests = 1..Len(Requests) /\ Len(Requests) \in Nat
      /\ DOMAIN Requests' = 1..Len(Requests) + 1
      /\ \A i \in DOMAIN Requests : Requests'[i] = Requests[i]
      /\ Requests'[Len(Requests) + 1] = id
      /\ Range(Requests') = Range(Requests) \cup {id}
      /\ Requests' # <<>>
  <2>1. Requests \in Seq(RunId) /\ Requests' = Append(Requests, id)
    BY <1>4 DEF QueueInv, QueueTypeInv, Requests
  <2>2. QED
    BY <1>2, <2>1, AppendRange
<1>7. InHand' = InHand \cup {id}
  BY <1>1, <1>6 DEF InHand
<1>8. QueueTypeInv'
  <2>1. \A d \in Client : /\ Preparing(d)' => task'[d].cell \in Cell
                          /\ task'[d].at = "naming" =>
                               task'[d].id \in RunId /\ task'[d].id[1] = task'[d].cell
    BY <1>2, <1>3 DEF QueueInv, QueueTypeInv, Preparing
  <2>2. QED
    BY <1>1, <1>3, <1>4, <1>6, <2>1 DEF QueueInv, QueueTypeInv
<1>9. Prepared'
  <2> SUFFICES ASSUME NEW d \in Client, Preparing(d)'
               PROVE  LET y == task'[d].cell
                      IN  /\ y \in DOMAIN pending /\ pending[y].id = None
                          /\ \A e \in Client : Preparing(e)' /\ task'[e].cell = y => e = d
                          /\ \A i \in InHand' : i[1] = y =>
                               task'[d].at = "naming" /\ task'[d].id = i
    BY <1>1 DEF Prepared
  <2>1. CASE d = c
    BY <1>2, <1>3, <1>5, <1>7, <2>1 DEF Preparing
  <2>2. CASE d # c
    <3>1. task'[d] = task[d] /\ Preparing(d) /\ task[d].cell # x
      BY <1>3, <1>5, <2>2 DEF Preparing
    <3>2. QED
      BY <1>2, <1>3, <1>7, <3>1 DEF QueueInv, Prepared, Preparing
  <2>3. QED
    BY <2>1, <2>2
<1>10. Registered'
  BY <1>1, <1>2, <1>5, <1>7 DEF QueueInv, Registered, None
<1>11. EndIsLast'
  <2>1. id \notin InHand
    BY <1>2, <1>5
  <2>2. \A k \in DOMAIN iopub : iopub[k].parent # id
    BY <2>1 DEF InHand
  <2>3. \A k \in DOMAIN Requests : Requests[k] # id
    BY <2>1 DEF InHand, Range
  <2>4. QED
    BY <1>1, <1>6, <2>2, <2>3 DEF QueueInv, EndIsLast
<1>12. QED
  BY <1>8, <1>9, <1>10, <1>11 DEF QueueInv

LEMMA SubmitFailsInv ==
  ASSUME QueueInv, NEW c \in Client, SubmitFails(c)
  PROVE  QueueInv'
<1> DEFINE x  == task[c].cell
<1>1. /\ task[c].at = "submitting"
      /\ pending' = Without(pending, x)
      /\ task' = [task EXCEPT ![c] = Idle]
      /\ UNCHANGED <<kernelVars, results>>
  BY DEF SubmitFails, SetTask
<1>2. /\ DOMAIN pending' = DOMAIN pending \ {x}
      /\ \A y \in DOMAIN pending' : pending'[y] = pending[y]
  BY <1>1 DEF Without
<1>3. /\ DOMAIN task' = Client
      /\ ~Preparing(c)'
      /\ \A d \in Client \ {c} : task'[d] = task[d]
  BY <1>1 DEF QueueInv, QueueTypeInv, Idle, Preparing
<1>4. InHand' = InHand
  BY <1>1 DEF InHand, Requests, kernelVars
<1>5. /\ \A d \in Client : Preparing(d) /\ task[d].cell = x => d = c
      /\ \A id \in InHand : id[1] # x
  BY <1>1 DEF QueueInv, Prepared, Preparing
<1> HIDE DEF x
<1>6. QueueTypeInv'
  BY <1>1, <1>2, <1>3 DEF QueueInv, QueueTypeInv, Preparing, kernelVars, Requests
<1>7. Prepared'
  BY <1>2, <1>3, <1>4, <1>5 DEF QueueInv, Prepared, Preparing
<1>8. Registered'
  BY <1>2, <1>4, <1>5 DEF QueueInv, Registered
<1>9. EndIsLast'
  BY <1>1 DEF QueueInv, EndIsLast, kernelVars, Requests
<1>10. QED
  BY <1>6, <1>7, <1>8, <1>9 DEF QueueInv

\* The task that prepared a run is gone, and the run stays without an id.
LEMMA AbortEffect ==
  ASSUME QueueInv, NEW c \in Client, Abort(c)
  PROVE  /\ Preparing(c) /\ DOMAIN task' = Client
         /\ task'[c] = Gone(task[c].cell) /\ ~Preparing(c)'
         /\ \A d \in Client \ {c} : task'[d] = task[d]
         /\ InHand' = InHand /\ Requests' = Requests
         /\ UNCHANGED <<pending, kernel, iopub, shell, results, missed>>
<1>1. /\ task[c].at \in {"submitting", "naming"}
      /\ task' = [task EXCEPT ![c] = Gone(task[c].cell)]
      /\ UNCHANGED <<pending, kernel, iopub, shell, results, missed>>
  BY DEF Abort, SetTask, kernelVars
<1>2. InHand' = InHand /\ Requests' = Requests
  BY <1>1 DEF InHand, Requests
<1>3. DOMAIN task = Client
  BY DEF QueueInv, QueueTypeInv
<1>4. task'[c] = Gone(task[c].cell) /\ DOMAIN task' = Client
  BY <1>1, <1>3
<1>5. task'[c].at = "gone"
  BY <1>4 DEF Gone
<1>6. QED
  BY <1>1, <1>2, <1>3, <1>4, <1>5 DEF Preparing

LEMMA AbortInv ==
  ASSUME QueueInv, NEW c \in Client, Abort(c)
  PROVE  QueueInv'
<1>1. /\ DOMAIN task' = Client /\ ~Preparing(c)'
      /\ \A d \in Client \ {c} : task'[d] = task[d]
      /\ InHand' = InHand /\ Requests' = Requests
      /\ UNCHANGED <<pending, kernel, iopub, shell, results>>
  BY AbortEffect
<1>2. QueueTypeInv'
  BY <1>1 DEF QueueInv, QueueTypeInv, Preparing
<1>3. Prepared'
  BY <1>1 DEF QueueInv, Prepared, Preparing
<1>4. Registered' /\ EndIsLast'
  BY <1>1 DEF QueueInv, Registered, EndIsLast
<1>5. QED
  BY <1>2, <1>3, <1>4 DEF QueueInv

LEMMA NameInv ==
  ASSUME QueueInv, NEW c \in Client, NEW next, NameThen(c, next),
         next.at \notin {"submitting", "naming"}
  PROVE  QueueInv'
<1> DEFINE x  == task[c].cell
           id == task[c].id
<1>1. /\ task[c].at = "naming"
      /\ task' = [task EXCEPT ![c] = next]
      /\ UNCHANGED <<kernelVars, results>>
  BY DEF NameThen, SetTask
<1>2. /\ x \in DOMAIN pending /\ x \in Cell /\ id \in RunId
      /\ \A d \in Client : Preparing(d) /\ task[d].cell = x => d = c
      /\ \A other \in InHand : other[1] = x => other = id
  BY <1>1 DEF QueueInv, Prepared, Preparing, QueueTypeInv
<1>3. pending' = [pending EXCEPT ![x].id = {id}]
  BY <1>2 DEF NameThen
<1>4. /\ DOMAIN task' = Client
      /\ ~Preparing(c)'
      /\ \A d \in Client \ {c} : task'[d] = task[d]
  BY <1>1 DEF QueueInv, QueueTypeInv, Preparing
<1>5. id[1] = x
  BY <1>1 DEF QueueInv, QueueTypeInv
<1> HIDE DEF x, id
<1>6. /\ DOMAIN pending' = DOMAIN pending
      /\ pending'[x] \in [id : SUBSET RunId, status : {"pending", "executing"}]
      /\ pending'[x].id = {id}
      /\ \A y \in DOMAIN pending \ {x} : pending'[y] = pending[y]
  BY <1>2, <1>3 DEF QueueInv, QueueTypeInv
<1>7. InHand' = InHand
  BY <1>1 DEF InHand, Requests, kernelVars
<1>8. QueueTypeInv'
  BY <1>1, <1>4, <1>6 DEF QueueInv, QueueTypeInv, Preparing, kernelVars, Requests
<1>9. Prepared'
  BY <1>2, <1>4, <1>6, <1>7 DEF QueueInv, Prepared, Preparing
<1>10. Registered'
  BY <1>2, <1>5, <1>6, <1>7 DEF QueueInv, Registered
<1>11. EndIsLast'
  BY <1>1 DEF QueueInv, EndIsLast, kernelVars, Requests
<1>12. QED
  BY <1>8, <1>9, <1>10, <1>11 DEF QueueInv

----------------------------------------------------------------------------
(* The kernel, and the answers that are taken. *)

\* What Publish does to iopub.
LEMMA PublishEffect ==
  ASSUME QueueInv, NEW type \in {"busy", "output", "idle"}, Publish(type),
         Requests # <<>>
  PROVE  /\ Head(Requests) \in RunId /\ Head(Requests) = Requests[1]
         /\ 1 \in DOMAIN Requests
         /\ iopub' \in Seq(IopubMessage)
         /\ DOMAIN iopub = 1..Len(iopub) /\ Len(iopub) \in Nat
         /\ DOMAIN iopub' = 1..Len(iopub) + 1
         /\ \A k \in DOMAIN iopub : iopub'[k] = iopub[k]
         /\ iopub'[Len(iopub) + 1].type = type
         /\ iopub'[Len(iopub) + 1].parent = Head(Requests)
<1> DEFINE m == [type |-> type, parent |-> Head(Requests)]
<1>1. /\ Head(Requests) \in RunId /\ Head(Requests) = Requests[1]
      /\ 1 \in DOMAIN Requests
  BY TailRange DEF QueueInv, QueueTypeInv
<1>2. m \in IopubMessage /\ iopub \in Seq(IopubMessage)
  BY <1>1 DEF IopubMessage, QueueInv, QueueTypeInv
<1>3. iopub' = Append(iopub, m) /\ m.type = type /\ m.parent = Head(Requests)
  BY DEF Publish, Requests
<1> HIDE DEF m
<1>4. QED
  BY <1>1, <1>2, <1>3, AppendRange

\* The kernel begins or goes on with its first request.
LEMMA KernelWorksInv ==
  ASSUME QueueInv, KernelBusy \/ KernelPrints
  PROVE  QueueInv'
<1>1. PICK type \in {"busy", "output"} : Publish(type)
  BY DEF KernelBusy, KernelPrints
<1>2. /\ Requests # <<>>
      /\ kernel' = [kernel EXCEPT !.phase = "busy", !.printed = kernel'.printed]
      /\ UNCHANGED <<pending, task, shell, results>>
  BY DEF KernelBusy, KernelPrints, QueueInv, QueueTypeInv, Requests
<1>3. /\ Requests' = Requests /\ DOMAIN kernel' = DOMAIN kernel
      /\ kernel'.phase = "busy" /\ kernel'.sent = kernel.sent
  BY <1>2 DEF Requests, QueueInv, QueueTypeInv
<1>4. /\ Head(Requests) = Requests[1] /\ 1 \in DOMAIN Requests
      /\ iopub' \in Seq(IopubMessage)
      /\ DOMAIN iopub = 1..Len(iopub) /\ Len(iopub) \in Nat
      /\ DOMAIN iopub' = 1..Len(iopub) + 1
      /\ \A k \in DOMAIN iopub : iopub'[k] = iopub[k]
      /\ iopub'[Len(iopub) + 1].type = type
      /\ iopub'[Len(iopub) + 1].parent = Head(Requests)
  BY <1>1, <1>2, PublishEffect
<1>5. InHand' = InHand
  BY <1>3, <1>4 DEF InHand, Range
<1>6. QueueTypeInv'
  BY <1>2, <1>3, <1>4 DEF QueueInv, QueueTypeInv, Preparing, IopubMessage
<1>7. Prepared' /\ Registered'
  BY <1>2, <1>5 DEF QueueInv, Prepared, Registered, Preparing
<1>8. EndIsLast'
  <2>1. \A k \in DOMAIN iopub : iopub[k].type = "idle" =>
          iopub[k].parent # Requests[1]
    BY <1>4 DEF QueueInv, EndIsLast, Range
  <2>2. QED
    BY <1>3, <1>4, <2>1 DEF QueueInv, EndIsLast
<1>9. QED
  BY <1>6, <1>7, <1>8 DEF QueueInv

LEMMA KernelRepliesInv ==
  ASSUME QueueInv, KernelReplies
  PROVE  QueueInv'
<1>1. /\ Requests # <<>>
      /\ kernel' = [kernel EXCEPT !.phase = "replied"]
      /\ shell' = Append(shell, Head(Requests))
      /\ UNCHANGED <<pending, task, iopub, results>>
  BY DEF KernelReplies, QueueInv, QueueTypeInv, Requests
<1>2. /\ Requests' = Requests /\ DOMAIN kernel' = DOMAIN kernel
      /\ kernel'.phase = "replied" /\ kernel'.sent = kernel.sent
  BY <1>1 DEF Requests, QueueInv, QueueTypeInv
<1>3. shell' \in Seq(RunId)
  BY <1>1, TailRange, AppendRange DEF QueueInv, QueueTypeInv
<1>4. InHand' = InHand
  BY <1>1, <1>2 DEF InHand
<1>5. QueueTypeInv'
  BY <1>1, <1>2, <1>3 DEF QueueInv, QueueTypeInv, Preparing
<1>6. Prepared' /\ Registered' /\ EndIsLast'
  BY <1>1, <1>2, <1>4 DEF QueueInv, Prepared, Registered, EndIsLast, Preparing
<1>7. QED
  BY <1>5, <1>6 DEF QueueInv

LEMMA KernelIdleInv ==
  ASSUME QueueInv, KernelIdle
  PROVE  QueueInv'
<1>1. /\ Requests # <<>> /\ Publish("idle")
      /\ kernel' = [kernel EXCEPT !.phase = "idle", !.printed = 0, !.requests = Tail(@)]
      /\ UNCHANGED <<pending, task, shell, results>>
  BY DEF KernelIdle, QueueInv, QueueTypeInv, Requests
<1>2. /\ Requests' = Tail(Requests) /\ DOMAIN kernel' = DOMAIN kernel
      /\ kernel'.phase = "idle" /\ kernel'.sent = kernel.sent
  BY <1>1 DEF Requests, QueueInv, QueueTypeInv
<1>3. /\ Head(Requests) = Requests[1] /\ 1 \in DOMAIN Requests
      /\ iopub' \in Seq(IopubMessage)
      /\ DOMAIN iopub = 1..Len(iopub) /\ Len(iopub) \in Nat
      /\ DOMAIN iopub' = 1..Len(iopub) + 1
      /\ \A k \in DOMAIN iopub : iopub'[k] = iopub[k]
      /\ iopub'[Len(iopub) + 1].type = "idle"
      /\ iopub'[Len(iopub) + 1].parent = Head(Requests)
  BY <1>1, PublishEffect
<1>4. /\ Requests' \in Seq(RunId)
      /\ \A i \in DOMAIN Requests' : /\ Requests'[i] = Requests[i + 1]
                                     /\ i + 1 \in DOMAIN Requests
      /\ DOMAIN Requests' \subseteq Nat \ {0}
      /\ Range(Requests) = Range(Requests') \cup {Head(Requests)}
  BY <1>1, <1>2, TailRange DEF QueueInv, QueueTypeInv
<1>5. InHand' = InHand
  <2>1. InHand \subseteq InHand'
    BY <1>3, <1>4 DEF InHand
  <2>2. InHand' \subseteq InHand
    BY <1>3, <1>4 DEF InHand
  <2>3. QED
    BY <2>1, <2>2
<1>6. QueueTypeInv'
  BY <1>1, <1>2, <1>3, <1>4 DEF QueueInv, QueueTypeInv, Preparing, IopubMessage
<1>7. Prepared' /\ Registered'
  BY <1>1, <1>5 DEF QueueInv, Prepared, Registered, Preparing
<1>8. EndIsLast'
  <2>1. \A i, j \in DOMAIN Requests' : Requests'[i] = Requests'[j] => i = j
    BY <1>4 DEF QueueInv, EndIsLast
  <2>2. Head(Requests) \notin Range(Requests')
    <3> SUFFICES ASSUME NEW i \in DOMAIN Requests', Requests'[i] = Requests[1]
                 PROVE  FALSE
      BY <1>3 DEF Range
    <3>1. i + 1 = 1
      BY <1>3, <1>4 DEF QueueInv, EndIsLast
    <3>2. QED
      BY <1>4, <3>1
  <2>3. \A k \in DOMAIN iopub : iopub[k].type = "idle" =>
          iopub[k].parent # Head(Requests) /\ iopub[k].parent \notin Range(Requests')
    BY <1>3, <1>4 DEF QueueInv, EndIsLast
  <2>4. ASSUME NEW k \in DOMAIN iopub', iopub'[k].type = "idle"
        PROVE  /\ iopub'[k].parent \notin Range(Requests')
               /\ \A m \in DOMAIN iopub' : iopub'[m].parent = iopub'[k].parent => m <= k
    <3>1. CASE k = Len(iopub) + 1
      BY <1>3, <2>2, <3>1
    <3>2. CASE k \in DOMAIN iopub
      BY <1>3, <2>3, <2>4, <3>2 DEF QueueInv, EndIsLast
    <3>3. QED
      BY <1>3, <3>1, <3>2
  <2>5. QED
    BY <2>1, <2>4 DEF EndIsLast
<1>9. QED
  BY <1>6, <1>7, <1>8 DEF QueueInv

\* What an answer does, if it is found and if not.
LEMMA AnswerEffect ==
  ASSUME QueueInv, NEW type \in {"busy", "output", "idle", "reply"},
         NEW parent \in RunId, TakeAnswer(type, parent)
  PROVE  /\ UNCHANGED <<runs, task, kernel>>
         /\ \/ UNCHANGED <<pending, results>> /\ missed' = missed \cup {parent}
            \/ /\ parent[1] \in DOMAIN pending /\ pending[parent[1]].id = {parent}
               /\ pending' = PendingAfter(type, parent[1])
               /\ LET r == Result(ResultType(type), parent[1], parent)
                  IN  results' = Append(results, r)
               /\ missed' = missed
<1>1. ASSUME NEW x \in Found(parent)
      PROVE  x \in DOMAIN pending /\ pending[x].id = {parent} /\ x = parent[1]
  BY DEF Found, QueueInv, Registered
<1>2. QED
  BY <1>1 DEF TakeAnswer

LEMMA ResultTyped ==
  ASSUME QueueInv, NEW type \in {"busy", "output", "idle", "reply"},
         NEW parent \in RunId,
         NEW r, r = Result(ResultType(type), parent[1], parent)
  PROVE  /\ r \in ResultMessage
         /\ r.id = parent /\ r.type = ResultType(type) /\ r.cell = parent[1]
BY DEF Result, ResultType, RunId, ResultMessage

\* What remains pending when an answer has been taken.
LEMMA PendingAfterEffect ==
  ASSUME QueueInv, NEW type \in {"busy", "output", "idle", "reply"},
         NEW x \in DOMAIN pending, pending' = PendingAfter(type, x)
  PROVE  /\ DOMAIN pending' = IF type = "idle" THEN DOMAIN pending \ {x}
                              ELSE DOMAIN pending
         /\ \A y \in DOMAIN pending' :
              /\ pending'[y].id = pending[y].id
              /\ pending'[y] \in [id : SUBSET RunId, status : {"pending", "executing"}]
              /\ pending'[y].status = IF y = x /\ type = "busy" THEN "executing"
                                      ELSE pending[y].status
<1>1. CASE type = "busy"
  BY <1>1 DEF PendingAfter, QueueInv, QueueTypeInv
<1>2. CASE type = "idle"
  BY <1>2 DEF PendingAfter, QueueInv, QueueTypeInv, Without
<1>3. CASE type \in {"output", "reply"}
  BY <1>3 DEF PendingAfter, QueueInv, QueueTypeInv
<1>4. QED
  BY <1>1, <1>2, <1>3

LEMMA ReceiveShellInv ==
  ASSUME QueueInv, ReceiveShell
  PROVE  QueueInv'
<1>1. /\ shell # <<>> /\ shell' = Tail(shell) /\ UNCHANGED iopub
      /\ TakeAnswer("reply", Head(shell))
  BY DEF ReceiveShell
<1>2. Head(shell) \in RunId /\ shell' \in Seq(RunId)
  BY <1>1, TailRange DEF QueueInv, QueueTypeInv
<1>3. PICK parent \in RunId : parent = Head(shell)
  BY <1>2
<1>4. /\ UNCHANGED <<runs, task, kernel>>
      /\ \/ UNCHANGED <<pending, results>>
         \/ /\ parent[1] \in DOMAIN pending
            /\ pending' = PendingAfter("reply", parent[1])
            /\ LET r == Result(ResultType("reply"), parent[1], parent)
               IN  results' = Append(results, r)
  BY <1>1, <1>3, AnswerEffect
<1>5. UNCHANGED pending
  BY <1>4 DEF PendingAfter
<1>6. results' \in Seq(ResultMessage)
  <2>1. results \in Seq(ResultMessage)
    BY DEF QueueInv, QueueTypeInv
  <2>2. \A r \in ResultMessage : Append(results, r) \in Seq(ResultMessage)
    BY <2>1, AppendRange
  <2>3. QED
    BY <1>4, <2>1, <2>2, ResultTyped
<1>7. InHand' = InHand
  BY <1>1, <1>4 DEF InHand, Requests
<1>8. QueueTypeInv'
  BY <1>1, <1>2, <1>4, <1>5, <1>6 DEF QueueInv, QueueTypeInv, Preparing, Requests
<1>9. Prepared' /\ Registered' /\ EndIsLast'
  BY <1>1, <1>4, <1>5, <1>7
     DEF QueueInv, Prepared, Registered, EndIsLast, Preparing, Requests
<1>10. QED
  BY <1>8, <1>9 DEF QueueInv

LEMMA ReceiveIopubInv ==
  ASSUME QueueInv, ReceiveIopub
  PROVE  QueueInv'
<1>1. /\ iopub # <<>> /\ iopub' = Tail(iopub) /\ UNCHANGED shell
      /\ TakeAnswer(Head(iopub).type, Head(iopub).parent)
  BY DEF ReceiveIopub
<1>2. /\ Head(iopub) \in IopubMessage /\ iopub' \in Seq(IopubMessage)
      /\ Head(iopub) = iopub[1] /\ 1 \in DOMAIN iopub
      /\ DOMAIN iopub' \subseteq Nat \ {0}
      /\ \A k \in DOMAIN iopub' : iopub'[k] = iopub[k + 1] /\ k + 1 \in DOMAIN iopub
  BY <1>1, TailRange DEF QueueInv, QueueTypeInv
<1>3. PICK type \in {"busy", "output", "idle"}, parent \in RunId :
        type = Head(iopub).type /\ parent = Head(iopub).parent
  BY <1>2 DEF IopubMessage
<1>4. /\ UNCHANGED <<runs, task, kernel>>
      /\ \/ UNCHANGED <<pending, results>>
         \/ /\ parent[1] \in DOMAIN pending /\ pending[parent[1]].id = {parent}
            /\ pending' = PendingAfter(type, parent[1])
            /\ LET r == Result(ResultType(type), parent[1], parent)
               IN  results' = Append(results, r)
  BY <1>1, <1>3, AnswerEffect
<1>5. /\ DOMAIN pending' \subseteq DOMAIN pending
      /\ \A y \in DOMAIN pending \ DOMAIN pending' :
           type = "idle" /\ y = parent[1] /\ pending[y].id = {parent}
      /\ \A y \in DOMAIN pending' :
           /\ pending'[y].id = pending[y].id
           /\ pending'[y] \in [id : SUBSET RunId, status : {"pending", "executing"}]
  <2>1. CASE UNCHANGED <<pending, results>>
    BY <2>1 DEF QueueInv, QueueTypeInv
  <2>2. CASE /\ parent[1] \in DOMAIN pending /\ pending[parent[1]].id = {parent}
             /\ pending' = PendingAfter(type, parent[1])
    <3>1. PICK x \in DOMAIN pending : x = parent[1]
      BY <2>2
    <3>2. /\ DOMAIN pending' = IF type = "idle" THEN DOMAIN pending \ {x}
                               ELSE DOMAIN pending
          /\ \A y \in DOMAIN pending' :
               /\ pending'[y].id = pending[y].id
               /\ pending'[y] \in [id : SUBSET RunId, status : {"pending", "executing"}]
      BY <2>2, <3>1, PendingAfterEffect
    <3>3. QED
      BY <2>2, <3>1, <3>2
  <2>3. QED
    BY <1>4, <2>1, <2>2
<1>6. results' \in Seq(ResultMessage)
  <2>1. results \in Seq(ResultMessage)
    BY DEF QueueInv, QueueTypeInv
  <2>2. \A r \in ResultMessage : Append(results, r) \in Seq(ResultMessage)
    BY <2>1, AppendRange
  <2>3. QED
    BY <1>4, <2>1, <2>2, ResultTyped
<1>7. InHand' \subseteq InHand
  BY <1>2, <1>4 DEF InHand, Requests
<1>8. QueueTypeInv'
  BY <1>1, <1>2, <1>4, <1>5, <1>6
     DEF QueueInv, QueueTypeInv, Preparing, Requests, IopubMessage
<1>9. Prepared'
  <2>1. \A c \in Client : Preparing(c) => task[c].cell \in DOMAIN pending'
    BY <1>5 DEF QueueInv, Prepared, None
  <2>2. QED
    BY <1>4, <1>5, <1>7, <2>1 DEF QueueInv, Prepared, Preparing
<1>10. Registered'
  <2>1. ASSUME NEW id \in InHand' PROVE id[1] \in DOMAIN pending'
    <3> SUFFICES ASSUME id[1] \notin DOMAIN pending' PROVE FALSE
      OBVIOUS
    <3>0. id \in InHand /\ id[1] \in DOMAIN pending /\ pending[id[1]].id \subseteq {id}
      BY <1>7 DEF QueueInv, Registered
    <3>1. type = "idle" /\ id[1] = parent[1] /\ pending[parent[1]].id = {parent}
      BY <1>5, <3>0
    <3>2. id = parent
      BY <3>0, <3>1
    <3>3. parent \notin Range(Requests)
      BY <1>2, <1>3, <3>1 DEF QueueInv, EndIsLast
    <3>4. ASSUME NEW k \in DOMAIN iopub', iopub'[k].parent = parent
          PROVE  FALSE
      <4>1. k + 1 <= 1
        BY <1>2, <1>3, <3>1, <3>4 DEF QueueInv, EndIsLast
      <4>2. QED
        BY <1>2, <4>1
    <3>5. QED
      BY <1>4, <3>2, <3>3, <3>4 DEF InHand, Requests
  <2>2. QED
    BY <1>5, <1>7, <2>1 DEF QueueInv, Registered
<1>11. EndIsLast'
  BY <1>2, <1>4 DEF QueueInv, EndIsLast, Requests
<1>12. QED
  BY <1>8, <1>9, <1>10, <1>11 DEF QueueInv

----------------------------------------------------------------------------
(* The invariant of the results, step by step. *)

LEMMA ResultsInitInv == QueueInit => ResultsInv
BY DEF QueueInit, ResultsInv, Fresh, NoneAfterEnd, StartIsFirst, InHand, Range,
       Requests, Idle

LEMMA ResultsHandlersInv ==
  ASSUME QueueInv, ResultsInv, UNCHANGED <<pending, kernelVars>>,
         \A c \in Client : task'[c] = task[c] \/ (~Preparing(c) /\ ~Preparing(c)'),
         results' = results \/ (results # <<>> /\ results' = Tail(results))
  PROVE  ResultsInv'
<1>1. PICK d \in {0, 1} :
        \A i \in DOMAIN results' : /\ i \in Nat /\ i + d \in DOMAIN results
                                   /\ results'[i] = results[i + d]
  <2>1. results \in Seq(ResultMessage)
    BY DEF QueueInv, QueueTypeInv
  <2>2. CASE results' = results
    <3>1. \A i \in DOMAIN results : i \in Nat /\ i + 0 = i
      BY <2>1, LenProperties
    <3>2. QED
      BY <2>2, <3>1
  <2>3. CASE results # <<>> /\ results' = Tail(results)
    BY <2>1, <2>3, TailRange
  <2>4. QED
    BY <2>2, <2>3
<1>2. /\ InHand' = InHand /\ Requests' = Requests
      /\ UNCHANGED <<iopub, shell, kernel, pending>>
  BY DEF InHand, Requests, kernelVars
<1>3. \A c \in Client : task'[c].at = "naming" => task'[c] = task[c]
  BY DEF Preparing
<1>4. Fresh'
  BY <1>1, <1>2, <1>3 DEF ResultsInv, Fresh
<1>5. NoneAfterEnd'
  BY <1>1, <1>2, <1>3 DEF ResultsInv, NoneAfterEnd
<1>6. StartIsFirst'
  BY <1>1, <1>2 DEF ResultsInv, StartIsFirst
<1>7. QED
  BY <1>4, <1>5, <1>6 DEF ResultsInv

LEMMA ResultsRegisterInv ==
  ASSUME QueueInv, ResultsInv, NEW c \in Client, NEW x \in Cell, Register(c, x)
  PROVE  ResultsInv'
<1>1. /\ pending' = With(pending, x, [id |-> None, status |-> "pending"])
      /\ task' = [task EXCEPT ![c] = Submitting(x)]
      /\ UNCHANGED <<kernelVars, results>>
  BY DEF Register, SetTask
<1>2. \A y \in DOMAIN pending' : \/ pending'[y].id = {}
                                 \/ y \in DOMAIN pending /\ pending'[y] = pending[y]
  BY <1>1 DEF With, None
<1>3. \A d \in Client : task'[d].at = "naming" => task'[d] = task[d]
  BY <1>1 DEF QueueInv, QueueTypeInv, Submitting
<1>4. InHand' = InHand /\ Requests' = Requests
  BY <1>1 DEF InHand, Requests, kernelVars
<1>5. Fresh'
  BY <1>1, <1>3, <1>4 DEF ResultsInv, Fresh, kernelVars
<1>6. NoneAfterEnd'
  BY <1>1, <1>2, <1>3 DEF ResultsInv, NoneAfterEnd
<1>7. StartIsFirst'
  BY <1>1, <1>4 DEF ResultsInv, StartIsFirst, kernelVars
<1>8. QED
  BY <1>5, <1>6, <1>7 DEF ResultsInv

LEMMA ResultsSubmitInv ==
  ASSUME QueueInv, ResultsInv, NEW c \in Client, Submit(c)
  PROVE  ResultsInv'
<1> DEFINE x  == task[c].cell
           id == Id(x, kernel.sent + 1)
<1>1. /\ task[c].at = "submitting"
      /\ kernel' = [kernel EXCEPT !.requests = Append(@, id), !.sent = @ + 1]
      /\ task' = [task EXCEPT ![c] = Naming(x, id)]
      /\ UNCHANGED <<pending, iopub, shell, results>>
  BY DEF Submit, SetTask
<1>2. id \in RunId /\ id[2] = kernel.sent + 1 /\ kernel.sent \in Nat
  BY <1>1 DEF QueueInv, QueueTypeInv, Preparing, RunId, Id
<1>3. /\ kernel'.requests = Append(Requests, id)
      /\ kernel'.sent = kernel.sent + 1 /\ kernel'.phase = kernel.phase
  BY <1>1 DEF QueueInv, QueueTypeInv, Requests
<1>4. \A d \in Client : task'[d].at = "naming" => task'[d] = task[d] \/ task'[d].id = id
  BY <1>1 DEF QueueInv, QueueTypeInv, Naming
<1> HIDE DEF id, x
<1>5. /\ DOMAIN Requests = 1..Len(Requests) /\ Len(Requests) \in Nat
      /\ DOMAIN Requests' = 1..Len(Requests) + 1
      /\ \A i \in DOMAIN Requests : Requests'[i] = Requests[i]
      /\ Requests'[Len(Requests) + 1] = id
      /\ Range(Requests') = Range(Requests) \cup {id}
  <2>1. Requests \in Seq(RunId) /\ Requests' = Append(Requests, id)
    BY <1>3 DEF QueueInv, QueueTypeInv, Requests
  <2>2. QED
    BY <1>2, <2>1, AppendRange
<1>6. InHand' = InHand \cup {id}
  BY <1>1, <1>5 DEF InHand
<1>7. /\ \A i \in InHand \cup Range(shell) : i \in RunId /\ i[2] <= kernel.sent
      /\ \A i \in DOMAIN results : results[i].id[2] \in Nat /\ results[i].id[2] <= kernel.sent
      /\ \A d \in Client : task[d].at = "naming" =>
           task[d].id[2] \in Nat /\ task[d].id[2] <= kernel.sent
  <2>1. \A i \in DOMAIN results : results[i] \in ResultMessage
    BY ElementOfSeq, LenProperties DEF QueueInv, QueueTypeInv
  <2>2. \A i \in Range(shell) : i \in RunId
    <3>1. shell \in Seq(RunId)
      BY DEF QueueInv, QueueTypeInv
    <3>2. QED
      BY <3>1, LenProperties, ElementOfSeq DEF Range
  <2>3. \A i \in Range(Requests) : i \in RunId
    <3>1. Requests \in Seq(RunId)
      BY DEF QueueInv, QueueTypeInv
    <3>2. QED
      BY <3>1, LenProperties, ElementOfSeq DEF Range
  <2>4. \A k \in DOMAIN iopub : iopub[k].parent \in RunId
    <3>1. iopub \in Seq(IopubMessage)
      BY DEF QueueInv, QueueTypeInv
    <3>2. \A k \in DOMAIN iopub : iopub[k] \in IopubMessage
      BY <3>1, LenProperties, ElementOfSeq
    <3>3. QED
      BY <3>2 DEF IopubMessage
  <2>5. QED
    BY <2>1, <2>2, <2>3, <2>4
       DEF ResultsInv, Fresh, QueueInv, QueueTypeInv, ResultMessage, RunId, InHand
<1>8. Fresh'
  <2>1. \A i \in InHand' \cup Range(shell') : i[2] <= kernel.sent + 1
    BY <1>1, <1>2, <1>6, <1>7 DEF RunId
  <2>2. \A i \in DOMAIN results' : results'[i].id[2] <= kernel.sent + 1
    BY <1>1, <1>2, <1>7
  <2>3. \A d \in Client : task'[d].at = "naming" => task'[d].id[2] <= kernel.sent + 1
    BY <1>2, <1>4, <1>7
  <2>4. QED
    BY <1>3, <2>1, <2>2, <2>3 DEF Fresh
<1>9. /\ \A i \in DOMAIN results : results[i].id # id
      /\ \A k \in DOMAIN iopub : iopub[k].parent # id
      /\ id \notin Range(shell)
  <2>1. id \notin InHand \cup Range(shell)
    BY <1>2, <1>7
  <2>2. QED
    BY <1>2, <1>7, <2>1 DEF InHand
<1>10. NoneAfterEnd'
  BY <1>1, <1>4, <1>9 DEF ResultsInv, NoneAfterEnd
<1>11. StartIsFirst'
  BY <1>1, <1>3, <1>5, <1>9 DEF ResultsInv, StartIsFirst
<1>12. QED
  BY <1>8, <1>10, <1>11 DEF ResultsInv

LEMMA ResultsSubmitFailsInv ==
  ASSUME QueueInv, ResultsInv, NEW c \in Client, SubmitFails(c)
  PROVE  ResultsInv'
<1>1. /\ pending' = Without(pending, task[c].cell)
      /\ task' = [task EXCEPT ![c] = Idle]
      /\ UNCHANGED <<kernelVars, results>>
  BY DEF SubmitFails, SetTask
<1>2. \A y \in DOMAIN pending' : y \in DOMAIN pending /\ pending'[y] = pending[y]
  BY <1>1 DEF Without
<1>3. \A d \in Client : task'[d].at = "naming" => task'[d] = task[d]
  BY <1>1 DEF QueueInv, QueueTypeInv, Idle
<1>4. InHand' = InHand /\ Requests' = Requests
  BY <1>1 DEF InHand, Requests, kernelVars
<1>5. Fresh'
  BY <1>1, <1>3, <1>4 DEF ResultsInv, Fresh, kernelVars
<1>6. NoneAfterEnd'
  BY <1>1, <1>2, <1>3 DEF ResultsInv, NoneAfterEnd
<1>7. StartIsFirst'
  BY <1>1, <1>4 DEF ResultsInv, StartIsFirst, kernelVars
<1>8. QED
  BY <1>5, <1>6, <1>7 DEF ResultsInv

LEMMA ResultsAbortInv ==
  ASSUME QueueInv, ResultsInv, NEW c \in Client, Abort(c)
  PROVE  ResultsInv'
<1>1. /\ ~Preparing(c)' /\ \A d \in Client \ {c} : task'[d] = task[d]
      /\ InHand' = InHand /\ Requests' = Requests
      /\ UNCHANGED <<pending, kernel, iopub, shell, results>>
  BY AbortEffect
<1>2. \A d \in Client : task'[d].at = "naming" => task'[d] = task[d]
  BY <1>1 DEF Preparing
<1>3. Fresh' /\ NoneAfterEnd' /\ StartIsFirst'
  BY <1>1, <1>2 DEF ResultsInv, Fresh, NoneAfterEnd, StartIsFirst
<1>4. QED
  BY <1>3 DEF ResultsInv

LEMMA ResultsNameInv ==
  ASSUME QueueInv, ResultsInv, NEW c \in Client, NEW next, NameThen(c, next),
         next.at \notin {"submitting", "naming"}
  PROVE  ResultsInv'
<1> DEFINE x  == task[c].cell
           id == task[c].id
<1>1. /\ task[c].at = "naming"
      /\ task' = [task EXCEPT ![c] = next]
      /\ pending' = IF x \in DOMAIN pending
                    THEN [pending EXCEPT ![x].id = {id}] ELSE pending
      /\ UNCHANGED <<kernelVars, results>>
  BY DEF NameThen, SetTask
<1>2. /\ DOMAIN pending' = DOMAIN pending
      /\ \A y \in DOMAIN pending' : pending'[y].id = pending[y].id \/ pending'[y].id = {id}
  BY <1>1 DEF QueueInv, QueueTypeInv
<1>3. \A d \in Client : task'[d].at = "naming" => task'[d] = task[d]
  BY <1>1 DEF QueueInv, QueueTypeInv
<1>4. InHand' = InHand /\ Requests' = Requests
  BY <1>1 DEF InHand, Requests, kernelVars
<1>5. Fresh'
  BY <1>1, <1>3, <1>4 DEF ResultsInv, Fresh, kernelVars
<1>6. NoneAfterEnd'
  BY <1>1, <1>2, <1>3 DEF ResultsInv, NoneAfterEnd
<1>7. StartIsFirst'
  BY <1>1, <1>4 DEF ResultsInv, StartIsFirst, kernelVars
<1>8. QED
  BY <1>5, <1>6, <1>7 DEF ResultsInv

\* The kernel publishes something of its first request.
LEMMA ResultsPublishInv ==
  ASSUME QueueInv, ResultsInv, NEW type \in {"busy", "output", "idle"}, Publish(type),
         Requests # <<>>, UNCHANGED <<pending, task, shell, results>>,
         kernel'.sent = kernel.sent,
         \/ Requests' = Requests /\ kernel'.phase # "idle"
         \/ Requests' = Tail(Requests),
         type = "busy" => kernel.phase = "idle"
  PROVE  ResultsInv'
<1>1. /\ Head(Requests) = Requests[1] /\ 1 \in DOMAIN Requests
      /\ DOMAIN iopub = 1..Len(iopub) /\ Len(iopub) \in Nat
      /\ DOMAIN iopub' = 1..Len(iopub) + 1
      /\ \A k \in DOMAIN iopub : iopub'[k] = iopub[k]
      /\ iopub'[Len(iopub) + 1].type = type
      /\ iopub'[Len(iopub) + 1].parent = Head(Requests)
  BY PublishEffect
<1>2. /\ Range(Requests') \subseteq Range(Requests)
      /\ \A k \in DOMAIN Requests' : k > 1 \/ kernel'.phase = "idle" =>
           \E i \in DOMAIN Requests : i > 1 /\ Requests'[k] = Requests[i]
  <2>1. Requests \in Seq(RunId)
    BY DEF QueueInv, QueueTypeInv
  <2>2. CASE Requests' = Requests /\ kernel'.phase # "idle"
    BY <2>2
  <2>3. CASE Requests' = Tail(Requests)
    <3>1. /\ DOMAIN Requests' \subseteq Nat \ {0}
          /\ Range(Requests') \subseteq Range(Requests)
          /\ \A k \in DOMAIN Requests' : /\ Requests'[k] = Requests[k + 1]
                                         /\ k + 1 \in DOMAIN Requests
      BY <2>1, <2>3, TailRange
    <3>2. \A k \in DOMAIN Requests' : k + 1 > 1
      BY <3>1
    <3>3. QED
      BY <3>1, <3>2
  <2>4. QED
    BY <2>2, <2>3
<1>3. InHand' \subseteq InHand
  <2>1. Head(Requests) \in Range(Requests)
    BY <1>1 DEF Range
  <2>2. QED
    BY <1>1, <1>2, <2>1 DEF InHand
<1>4. Fresh'
  BY <1>3 DEF ResultsInv, Fresh
<1>5. NoneAfterEnd'
  BY DEF ResultsInv, NoneAfterEnd
<1>6. \A k \in DOMAIN Requests' : k > 1 \/ kernel'.phase = "idle" =>
        /\ \A m \in DOMAIN iopub' : iopub'[m].parent # Requests'[k]
        /\ Requests'[k] \notin Range(shell')
        /\ \A i \in DOMAIN results' : results'[i].id # Requests'[k]
  <2> SUFFICES ASSUME NEW k \in DOMAIN Requests, k > 1
               PROVE  /\ \A m \in DOMAIN iopub' : iopub'[m].parent # Requests[k]
                      /\ Requests[k] \notin Range(shell)
                      /\ \A i \in DOMAIN results : results[i].id # Requests[k]
    BY <1>2
  <2>1. Requests[k] # Head(Requests)
    BY <1>1 DEF QueueInv, EndIsLast
  <2>2. QED
    BY <1>1, <2>1 DEF ResultsInv, StartIsFirst
<1>7. \A k \in DOMAIN iopub' : iopub'[k].type = "busy" =>
        /\ \A m \in DOMAIN iopub' : iopub'[m].parent = iopub'[k].parent => k <= m
        /\ \A i \in DOMAIN results' :
             results'[i].id = iopub'[k].parent => results'[i].type = "execution_finished"
  <2> SUFFICES ASSUME NEW k \in DOMAIN iopub', iopub'[k].type = "busy"
               PROVE  /\ \A m \in DOMAIN iopub' : iopub'[m].parent = iopub'[k].parent => k <= m
                      /\ \A i \in DOMAIN results : results[i].id = iopub'[k].parent =>
                           results[i].type = "execution_finished"
    OBVIOUS
  <2>1. CASE k \in DOMAIN iopub
    BY <1>1, <2>1 DEF ResultsInv, StartIsFirst
  <2>2. CASE k = Len(iopub) + 1
    <3>1. /\ \A m \in DOMAIN iopub : iopub[m].parent # Head(Requests)
          /\ \A i \in DOMAIN results : results[i].id # Head(Requests)
      BY <1>1, <2>2 DEF ResultsInv, StartIsFirst
    <3>2. QED
      BY <1>1, <2>2, <3>1
  <2>3. QED
    BY <1>1, <2>1, <2>2
<1>8. StartIsFirst'
  BY <1>6, <1>7 DEF ResultsInv, StartIsFirst
<1>9. QED
  BY <1>4, <1>5, <1>8 DEF ResultsInv

LEMMA ResultsKernelInv ==
  ASSUME QueueInv, ResultsInv, Kernel
  PROVE  ResultsInv'
<1>1. CASE KernelBusy
  BY <1>1, ResultsPublishInv DEF KernelBusy, Requests, QueueInv, QueueTypeInv
<1>2. CASE KernelPrints
  BY <1>2, ResultsPublishInv DEF KernelPrints, Requests, QueueInv, QueueTypeInv
<1>3. CASE KernelIdle
  BY <1>3, ResultsPublishInv DEF KernelIdle, Requests, QueueInv, QueueTypeInv
<1>4. CASE KernelReplies
  <2>1. /\ Requests # <<>> /\ kernel.phase = "busy"
        /\ kernel' = [kernel EXCEPT !.phase = "replied"]
        /\ shell' = Append(shell, Head(Requests))
        /\ UNCHANGED <<pending, task, iopub, results>>
    BY <1>4 DEF KernelReplies, QueueInv, QueueTypeInv, Requests
  <2>2. /\ Requests' = Requests /\ kernel'.sent = kernel.sent
        /\ kernel'.phase = "replied"
    BY <2>1 DEF Requests, QueueInv, QueueTypeInv
  <2>3. /\ Head(Requests) = Requests[1] /\ 1 \in DOMAIN Requests
        /\ Head(Requests) \in RunId /\ Head(Requests) \in Range(Requests)
    BY <2>1, TailRange DEF QueueInv, QueueTypeInv
  <2>4. Range(shell') = Range(shell) \cup {Head(Requests)}
    BY <2>1, <2>3, AppendRange DEF QueueInv, QueueTypeInv
  <2>5. InHand' = InHand /\ Head(Requests) \in InHand
    BY <2>1, <2>2, <2>3 DEF InHand
  <2>6. Fresh'
    BY <2>1, <2>2, <2>4, <2>5 DEF ResultsInv, Fresh
  <2>7. NoneAfterEnd'
    BY <2>1 DEF ResultsInv, NoneAfterEnd
  <2>8. \A k \in DOMAIN Requests : k > 1 => Requests[k] # Head(Requests)
    BY <2>3 DEF QueueInv, EndIsLast
  <2>9. StartIsFirst'
    BY <2>1, <2>2, <2>4, <2>8 DEF ResultsInv, StartIsFirst
  <2>10. QED
    BY <2>6, <2>7, <2>9 DEF ResultsInv
<1>5. QED
  BY <1>1, <1>2, <1>3, <1>4 DEF Kernel

\* An answer is taken, of whichever socket.
LEMMA ResultsAnswerInv ==
  ASSUME QueueInv, ResultsInv, QueueInv', NEW type \in {"busy", "output", "idle", "reply"},
         NEW parent \in RunId, TakeAnswer(type, parent),
         parent \in InHand \cup Range(shell),
         \A k \in DOMAIN Requests :
           k > 1 \/ kernel.phase = "idle" => Requests[k] # parent,
         NEW d \in {0, 1},
         \A k \in DOMAIN iopub' : /\ k \in Nat /\ k + d \in DOMAIN iopub
                                  /\ iopub'[k] = iopub[k + d],
         Range(shell') \subseteq Range(shell),
         type # "reply" =>
           \A k \in DOMAIN iopub' : iopub'[k].type = "busy" => iopub'[k].parent # parent,
         type = "busy" => \A i \in DOMAIN results :
           results[i].id = parent => results[i].type = "execution_finished"
  PROVE  ResultsInv'
<1>1. /\ UNCHANGED <<runs, task, kernel>>
      /\ \/ UNCHANGED <<pending, results>> /\ missed' = missed \cup {parent}
         \/ /\ parent[1] \in DOMAIN pending /\ pending[parent[1]].id = {parent}
            /\ pending' = PendingAfter(type, parent[1])
            /\ LET r == Result(ResultType(type), parent[1], parent)
               IN  results' = Append(results, r)
            /\ missed' = missed
  BY AnswerEffect
<1>2. Requests' = Requests /\ InHand' \subseteq InHand
  BY <1>1 DEF Requests, InHand
<1>3. CASE UNCHANGED <<pending, results>>
  <2>1. Fresh'
    BY <1>1, <1>2, <1>3 DEF ResultsInv, Fresh
  <2>2. NoneAfterEnd'
    BY <1>1, <1>3 DEF ResultsInv, NoneAfterEnd
  <2>3. StartIsFirst'
    BY <1>1, <1>2, <1>3 DEF ResultsInv, StartIsFirst
  <2>4. QED
    BY <2>1, <2>2, <2>3 DEF ResultsInv
<1>4. ASSUME NEW r, r = Result(ResultType(type), parent[1], parent),
             parent[1] \in DOMAIN pending, pending[parent[1]].id = {parent},
             pending' = PendingAfter(type, parent[1]),
             results' = Append(results, r)
      PROVE  ResultsInv'
  <2>1. PICK x \in DOMAIN pending : x = parent[1]
    BY <1>4
  <2>2. /\ r \in ResultMessage /\ r.id = parent /\ r.type = ResultType(type)
    BY <1>4, ResultTyped
  <2>3. /\ DOMAIN pending' = IF type = "idle" THEN DOMAIN pending \ {x}
                             ELSE DOMAIN pending
        /\ \A y \in DOMAIN pending' : pending'[y].id = pending[y].id
    <3>1. pending' = PendingAfter(type, x)
      BY <1>4, <2>1
    <3>2. QED
      BY <3>1, PendingAfterEffect
  <2>4. /\ DOMAIN results = 1..Len(results) /\ Len(results) \in Nat
        /\ DOMAIN results' = 1..Len(results) + 1
        /\ \A i \in DOMAIN results : results'[i] = results[i]
        /\ results'[Len(results) + 1] = r
    BY <1>4, <2>2, AppendRange DEF QueueInv, QueueTypeInv
  <2>5. /\ r.type = "cell_idle" <=> type = "idle"
        /\ r.type = "execution_started" <=> type = "busy"
        /\ r.type = "execution_finished" <=> type = "reply"
    BY <2>2 DEF ResultType
  <2> HIDE DEF PendingAfter
  <2>6. Fresh'
    BY <1>1, <1>2, <2>2, <2>4 DEF ResultsInv, Fresh
  <2>7. NoneAfterEnd'
    <3>1. \A i \in DOMAIN results : results[i].type = "cell_idle" => results[i].id # parent
      BY <1>4 DEF ResultsInv, NoneAfterEnd
    <3>2. type = "idle" => \A y \in DOMAIN pending' : parent \notin pending'[y].id
      BY <2>1, <2>3 DEF QueueInv, Registered
    <3>3. ASSUME NEW c \in Client, task[c].at = "naming"
          PROVE  task[c].id # parent
      <4>1. pending[task[c].cell].id = {} /\ task[c].id[1] = task[c].cell
        BY <3>3 DEF QueueInv, QueueTypeInv, Prepared, Preparing, None
      <4>2. QED
        BY <1>4, <4>1
    <3>4. ASSUME NEW i \in DOMAIN results', results'[i].type = "cell_idle"
          PROVE  /\ \A y \in DOMAIN pending' : results'[i].id \notin pending'[y].id
                 /\ \A c \in Client : task'[c].at = "naming" => task'[c].id # results'[i].id
                 /\ \A j \in DOMAIN results' : results'[j].id = results'[i].id => j <= i
      <4>1. CASE i \in DOMAIN results
        BY <1>1, <2>2, <2>3, <2>4, <3>1, <3>4, <4>1 DEF ResultsInv, NoneAfterEnd
      <4>2. CASE i = Len(results) + 1
        BY <1>1, <2>2, <2>4, <2>5, <3>2, <3>3, <3>4, <4>2
      <4>3. QED
        BY <2>4, <4>1, <4>2
    <3>5. QED
      BY <3>4 DEF NoneAfterEnd
  <2>8. StartIsFirst'
    <3>1. \A k \in DOMAIN Requests' : k > 1 \/ kernel'.phase = "idle" =>
            /\ \A m \in DOMAIN iopub' : iopub'[m].parent # Requests'[k]
            /\ Requests'[k] \notin Range(shell')
            /\ \A i \in DOMAIN results' : results'[i].id # Requests'[k]
      BY <1>1, <1>2, <2>2, <2>4 DEF ResultsInv, StartIsFirst
    <3>2. ASSUME NEW k \in DOMAIN iopub', iopub'[k].type = "busy"
          PROVE  /\ \A m \in DOMAIN iopub' : iopub'[m].parent = iopub'[k].parent => k <= m
                 /\ \A i \in DOMAIN results' : results'[i].id = iopub'[k].parent =>
                      results'[i].type = "execution_finished"
      <4>1. \A m \in DOMAIN iopub' : iopub'[m].parent = iopub'[k].parent => k <= m
        BY <3>2 DEF ResultsInv, StartIsFirst
      <4>2. \A i \in DOMAIN results : results[i].id = iopub'[k].parent =>
              results[i].type = "execution_finished"
        BY <3>2 DEF ResultsInv, StartIsFirst
      <4>3. r.id = iopub'[k].parent => r.type = "execution_finished"
        BY <2>2, <2>5, <3>2
      <4>4. QED
        BY <2>4, <4>1, <4>2, <4>3
    <3>3. \A i, j \in DOMAIN results' :
            i < j /\ results'[i].id = results'[j].id
              /\ results'[j].type = "execution_started"
              => results'[i].type = "execution_finished"
      BY <2>2, <2>4, <2>5 DEF ResultsInv, StartIsFirst
    <3>4. QED
      BY <3>1, <3>2, <3>3 DEF StartIsFirst
  <2>9. QED
    BY <2>6, <2>7, <2>8 DEF ResultsInv
<1>5. QED
  BY <1>1, <1>3, <1>4

LEMMA ResultsReceiveShellInv ==
  ASSUME QueueInv, ResultsInv, QueueInv', ReceiveShell
  PROVE  ResultsInv'
<1>1. /\ shell # <<>> /\ shell' = Tail(shell) /\ UNCHANGED iopub
      /\ TakeAnswer("reply", Head(shell))
  BY DEF ReceiveShell
<1>2. /\ Head(shell) \in RunId /\ Head(shell) \in Range(shell)
      /\ Range(shell') \subseteq Range(shell)
  BY <1>1, TailRange DEF QueueInv, QueueTypeInv
<1>3. \A k \in DOMAIN Requests :
        k > 1 \/ kernel.phase = "idle" => Requests[k] # Head(shell)
  BY <1>2 DEF ResultsInv, StartIsFirst
<1>4. \A k \in DOMAIN iopub : k \in Nat /\ k + 0 = k
  BY LenProperties DEF QueueInv, QueueTypeInv
<1>5. QED
  BY <1>1, <1>2, <1>3, <1>4, ResultsAnswerInv

LEMMA ResultsReceiveIopubInv ==
  ASSUME QueueInv, ResultsInv, QueueInv', ReceiveIopub
  PROVE  ResultsInv'
<1>1. /\ iopub # <<>> /\ iopub' = Tail(iopub) /\ UNCHANGED shell
      /\ TakeAnswer(Head(iopub).type, Head(iopub).parent)
  BY DEF ReceiveIopub
<1>2. /\ Head(iopub) \in IopubMessage
      /\ Head(iopub) = iopub[1] /\ 1 \in DOMAIN iopub
      /\ DOMAIN iopub' \subseteq Nat \ {0}
      /\ \A k \in DOMAIN iopub' : iopub'[k] = iopub[k + 1] /\ k + 1 \in DOMAIN iopub
  BY <1>1, TailRange DEF QueueInv, QueueTypeInv
<1>3. PICK type \in {"busy", "output", "idle"}, parent \in RunId :
        type = Head(iopub).type /\ parent = Head(iopub).parent
  BY <1>2 DEF IopubMessage
<1>4. parent \in InHand
  BY <1>2, <1>3 DEF InHand
<1>5. \A k \in DOMAIN Requests :
        k > 1 \/ kernel.phase = "idle" => Requests[k] # parent
  BY <1>2, <1>3 DEF ResultsInv, StartIsFirst
<1>6. \A k \in DOMAIN iopub' : iopub'[k].type = "busy" => iopub'[k].parent # parent
  <2> SUFFICES ASSUME NEW k \in DOMAIN iopub', iopub'[k].type = "busy",
                      iopub'[k].parent = parent
               PROVE  FALSE
    OBVIOUS
  <2>1. k + 1 <= 1
    BY <1>2, <1>3 DEF ResultsInv, StartIsFirst
  <2>2. QED
    BY <1>2, <2>1
<1>7. type = "busy" => \A i \in DOMAIN results :
        results[i].id = parent => results[i].type = "execution_finished"
  BY <1>2, <1>3 DEF ResultsInv, StartIsFirst
<1>8. TakeAnswer(type, parent)
  BY <1>1, <1>3
<1>9. QED
  BY <1>1, <1>2, <1>4, <1>5, <1>6, <1>7, <1>8, ResultsAnswerInv

----------------------------------------------------------------------------
(* The queue alone. *)

IInv == QueueInv /\ ResultsInv

LEMMA QueueStepInv ==
  ASSUME IInv,
         \/ \E c \in Client : \/ Submit(c) \/ SubmitFails(c) \/ Abort(c)
                              \/ \E x \in Cell : Register(c, x)
         \/ Kernel \/ ReceiveIopub \/ ReceiveShell
  PROVE  IInv'
<1> USE DEF IInv
<1>1. ASSUME NEW c \in Client, Submit(c)
      PROVE  IInv'
  BY <1>1, SubmitInv, ResultsSubmitInv
<1>2. ASSUME NEW c \in Client, SubmitFails(c)
      PROVE  IInv'
  BY <1>2, SubmitFailsInv, ResultsSubmitFailsInv
<1>3. ASSUME NEW c \in Client, NEW x \in Cell, Register(c, x)
      PROVE  IInv'
  BY <1>3, RegisterInv, ResultsRegisterInv
<1>4. CASE Kernel
  BY <1>4, KernelWorksInv, KernelRepliesInv, KernelIdleInv, ResultsKernelInv DEF Kernel
<1>5. CASE ReceiveIopub
  BY <1>5, ReceiveIopubInv, ResultsReceiveIopubInv
<1>6. CASE ReceiveShell
  BY <1>6, ReceiveShellInv, ResultsReceiveShellInv
<1>7. ASSUME NEW c \in Client, Abort(c)
      PROVE  IInv'
  BY <1>7, AbortInv, ResultsAbortInv
<1>8. QED
  BY <1>1, <1>2, <1>3, <1>4, <1>5, <1>6, <1>7

LEMMA IInvImpliesOneRun == IInv => OneRunPerCell
<1> SUFFICES ASSUME IInv, NEW x \in Cell
             PROVE  /\ Cardinality(Unfinished(x)) <= 1
                    /\ Unfinished(x) # {} => x \in DOMAIN pending
  BY DEF OneRunPerCell
<1>1. Unfinished(x) = {id \in InHand : id[1] = x}
  BY DEF Unfinished, InHand, Requests
<1>2. CASE Unfinished(x) = {}
  BY <1>2, FS_EmptySet
<1>3. CASE Unfinished(x) # {}
  <2>1. PICK id : id \in InHand /\ id[1] = x
    BY <1>1, <1>3
  <2>2. x \in DOMAIN pending /\ Unfinished(x) = {id}
    BY <1>1, <2>1 DEF IInv, QueueInv, Registered
  <2>3. QED
    BY <2>2, FS_Singleton
<1>4. QED
  BY <1>2, <1>3

LEMMA IInvImpliesOrder == IInv => ResultsInOrder
<1> SUFFICES ASSUME IInv, NEW i \in DOMAIN results, NEW j \in DOMAIN results,
                    i < j, results[i].id = results[j].id
             PROVE  /\ results[i].type # "cell_idle"
                    /\ results[j].type = "execution_started" =>
                         results[i].type = "execution_finished"
  BY DEF ResultsInOrder
<1>1. i \in Nat /\ j \in Nat
  BY LenProperties DEF IInv, QueueInv, QueueTypeInv
<1>2. QED
  BY <1>1 DEF IInv, ResultsInv, NoneAfterEnd, StartIsFirst

LEMMA QueueSpecInv == QueueSpec => []IInv
<1>1. QueueInit => IInv
  BY QueueInitInv, ResultsInitInv DEF IInv
<1>2. IInv /\ [QueueNext]_queueVars => IInv'
  <2> SUFFICES ASSUME IInv, [QueueNext]_queueVars PROVE IInv'
    OBVIOUS
  <2>1. ASSUME NEW c \in Client, Name(c)
        PROVE  IInv'
    <3>1. NameThen(c, Idle) /\ Idle.at \notin {"submitting", "naming"}
      BY <2>1 DEF Name, Idle
    <3>2. QED
      BY <3>1, NameInv, ResultsNameInv DEF IInv
  <2>2. CASE UNCHANGED queueVars
    <3>1. UNCHANGED <<pending, kernelVars, task, results>>
      BY <2>2 DEF queueVars
    <3>2. DOMAIN task' = Client
      BY <3>1 DEF IInv, QueueInv, QueueTypeInv
    <3>3. QED
      BY <3>1, <3>2, HandlersInv, ResultsHandlersInv DEF IInv
  <2>3. QED
    BY <2>1, <2>2, QueueStepInv DEF QueueNext, Execute
<1>3. QED
  BY <1>1, <1>2, PTL DEF QueueSpec

\* No two runs of a cell are under way, for every set of clients and cells,
\* however runs, requests and answers interleave (docs/conflict-resolution.md:62-63).
THEOREM OneRunPerCellAlways == QueueSpec => []OneRunPerCell
  BY QueueSpecInv, IInvImpliesOneRun, PTL

\* The results of a run come in order, whatever way the answers of the two
\* sockets mix (execution_queue.rs, output_receiver).
THEOREM ResultsInOrderAlways == QueueSpec => []ResultsInOrder
  BY QueueSpecInv, IInvImpliesOrder, PTL

----------------------------------------------------------------------------
(* The queue among its handlers: what the notebook shows of the runs.      *)

Shown(x) == Range(cell[x].outputs)

\* The start of run i has been taken off the socket, and found it.
Executing(i) ==
  /\ i[1] \in DOMAIN pending
  /\ pending[i[1]].id = {i} /\ pending[i[1]].status = "executing"

StartOnIopub(i) == \E m \in DOMAIN iopub : iopub[m].type = "busy" /\ iopub[m].parent = i

SyncTypeInv ==
  /\ \A c \in Client : "at" \in DOMAIN task[c]
  /\ \A x \in DOMAIN pending :
       pending[x].status = "executing" => \E i \in pending[x].id : pending[x].id = {i}
  /\ \A j \in DOMAIN results : results[j].cell = results[j].id[1]
  /\ DOMAIN cell \subseteq Cell
  /\ \A x \in DOMAIN cell :
       cell[x] \in [outputs : Seq(RunId), number : SUBSET RunId]

\* Of a run that has begun and of which no answer was missed, the start is still
\* on iopub, before everything else of it, or the run is executing.
StartIsSeen ==
  /\ \A k \in DOMAIN iopub :
       iopub[k].type # "busy" /\ iopub[k].parent \notin missed =>
         StartOnIopub(iopub[k].parent) \/ Executing(iopub[k].parent)
  /\ kernel.phase # "idle" /\ Requests[1] \notin missed =>
       StartOnIopub(Requests[1]) \/ Executing(Requests[1])

\* Up to result j, what is waiting to be handled of the cell of i and what the
\* notebook shows of it is of run i, from a start of i on if there is one.
OnlyOf(i, j) ==
  \/ \E k \in DOMAIN results :
       /\ k <= j /\ results[k].type = "execution_started" /\ results[k].id = i
       /\ \A m \in DOMAIN results :
            k <= m /\ m <= j /\ results[m].cell = i[1] => results[m].id = i
  \/ /\ Shown(i[1]) \subseteq {i}
     /\ \A m \in DOMAIN results : m <= j /\ results[m].cell = i[1] => results[m].id = i

OutputsInv ==
  /\ \A i \in UNION {pending[x].id : x \in DOMAIN pending} :
       Executing(i) /\ i[1] \in DOMAIN cell => OnlyOf(i, Len(results))
  /\ \A j \in DOMAIN results :
       /\ results[j].type = "cell_output" /\ results[j].id \notin missed
       /\ results[j].cell \in DOMAIN cell
       => OnlyOf(results[j].id, j)
  /\ \A x \in DOMAIN cell :
       Shown(x) \cap missed = {} => \A a, b \in Shown(x) : a = b

NotebookInv == SyncTypeInv /\ StartIsSeen /\ OutputsInv

SyncInv == IInv /\ NotebookInv

\* The steps that take no answer and change no output.
LEMMA CalmStep ==
  ASSUME NotebookInv, SyncTypeInv', UNCHANGED <<iopub, results, missed>>,
         kernel'.phase # "idle" => kernel.phase # "idle" /\ Requests'[1] = Requests[1],
         \A i : Executing(i)' <=> Executing(i),
         \A x \in DOMAIN cell' : x \in DOMAIN cell /\ cell'[x] = cell[x]
  PROVE  NotebookInv'
<1> USE DEF NotebookInv
<1>1. StartIsSeen'
  BY DEF StartIsSeen, StartOnIopub
<1>2. \A i : Executing(i) => i \in UNION {pending[x].id : x \in DOMAIN pending}
  BY DEF Executing
<1>3. \A x \in DOMAIN cell' : Shown(x)' = Shown(x)
  BY DEF Shown
<1>4. \A i, j : i[1] \in DOMAIN cell' /\ OnlyOf(i, j) => OnlyOf(i, j)'
  BY <1>3 DEF OnlyOf
<1>5. \A i \in UNION {pending'[x].id : x \in DOMAIN pending'} :
        Executing(i)' /\ i[1] \in DOMAIN cell' => OnlyOf(i, Len(results))'
  BY <1>2, <1>4 DEF OutputsInv
<1>6. \A j \in DOMAIN results' :
        /\ results'[j].type = "cell_output" /\ results'[j].id \notin missed'
        /\ results'[j].cell \in DOMAIN cell'
        => OnlyOf(results[j].id, j)'
  BY <1>4 DEF OutputsInv, SyncTypeInv
<1>7. QED
  BY <1>1, <1>3, <1>5, <1>6 DEF OutputsInv

LEMMA NotebookRegisterInv ==
  ASSUME SyncInv, NEW c \in Client, NEW x \in Cell, Register(c, x), UNCHANGED cell
  PROVE  NotebookInv'
<1>1. /\ x \notin DOMAIN pending
      /\ pending' = With(pending, x, [id |-> None, status |-> "pending"])
      /\ task' = [task EXCEPT ![c] = Submitting(x)]
      /\ UNCHANGED <<kernelVars, results, missed>>
  BY DEF Register, MayQueue, SetTask
<1>2. /\ DOMAIN pending' = DOMAIN pending \cup {x}
      /\ pending'[x].id = {} /\ pending'[x].status = "pending"
      /\ \A y \in DOMAIN pending : pending'[y] = pending[y]
  BY <1>1 DEF With, None
<1>3. SyncTypeInv'
  BY <1>1, <1>2 DEF SyncInv, NotebookInv, SyncTypeInv, Submitting
<1>4. \A i : Executing(i)' <=> Executing(i)
  BY <1>1, <1>2 DEF Executing
<1>5. QED
  BY <1>1, <1>3, <1>4, CalmStep DEF SyncInv, NotebookInv, kernelVars, Requests

LEMMA NotebookSubmitInv ==
  ASSUME SyncInv, NEW c \in Client, Submit(c), UNCHANGED cell
  PROVE  NotebookInv'
<1> DEFINE id == Id(task[c].cell, kernel.sent + 1)
<1>1. /\ task[c].at = "submitting"
      /\ kernel' = [kernel EXCEPT !.requests = Append(@, id), !.sent = @ + 1]
      /\ task' = [task EXCEPT ![c] = Naming(task[c].cell, id)]
      /\ UNCHANGED <<pending, iopub, shell, results, missed>>
  BY DEF Submit, SetTask
<1>2. SyncTypeInv'
  BY <1>1 DEF SyncInv, NotebookInv, SyncTypeInv, Naming
<1>3. \A i : Executing(i)' <=> Executing(i)
  BY <1>1 DEF Executing
<1>4. kernel'.phase = kernel.phase /\ Requests' = Append(Requests, id)
  BY <1>1 DEF SyncInv, IInv, QueueInv, QueueTypeInv, Requests
<1>5. id \in RunId /\ Requests \in Seq(RunId)
  BY <1>1 DEF SyncInv, IInv, QueueInv, QueueTypeInv, Preparing, RunId, Id
<1> HIDE DEF id
<1>6. kernel.phase # "idle" => Requests'[1] = Requests[1]
  <2>1. kernel.phase # "idle" => 1 \in DOMAIN Requests
    BY <1>5, TailRange DEF SyncInv, IInv, QueueInv, QueueTypeInv
  <2>2. QED
    BY <1>4, <1>5, <2>1, AppendRange
<1>7. QED
  BY <1>1, <1>2, <1>3, <1>4, <1>6, CalmStep DEF SyncInv

LEMMA NotebookSubmitFailsInv ==
  ASSUME SyncInv, NEW c \in Client, SubmitFails(c), UNCHANGED cell
  PROVE  NotebookInv'
<1> DEFINE x == task[c].cell
<1>1. /\ task[c].at = "submitting"
      /\ pending' = Without(pending, x)
      /\ task' = [task EXCEPT ![c] = Idle]
      /\ UNCHANGED <<kernelVars, results, missed>>
  BY DEF SubmitFails, SetTask
<1>2. /\ DOMAIN pending' = DOMAIN pending \ {x}
      /\ \A y \in DOMAIN pending' : pending'[y] = pending[y]
      /\ pending[x].id = None
  BY <1>1 DEF Without, SyncInv, IInv, QueueInv, Prepared, Preparing
<1>3. SyncTypeInv'
  <2>1. \A y \in DOMAIN pending' :
          pending'[y].status = "executing" => \E i \in pending'[y].id : pending'[y].id = {i}
    BY <1>2 DEF SyncInv, NotebookInv, SyncTypeInv
  <2>2. \A d \in Client : "at" \in DOMAIN task'[d]
    BY <1>1 DEF SyncInv, NotebookInv, SyncTypeInv, Idle
  <2>3. QED
    BY <1>1, <2>1, <2>2 DEF SyncInv, NotebookInv, SyncTypeInv
<1>4. \A i : Executing(i)' <=> Executing(i)
  BY <1>2 DEF Executing, None
<1>5. QED
  BY <1>1, <1>3, <1>4, CalmStep DEF SyncInv, NotebookInv, kernelVars, Requests

LEMMA NotebookAbortInv ==
  ASSUME SyncInv, NEW c \in Client, Abort(c), UNCHANGED cell
  PROVE  NotebookInv'
<1>1. /\ task'[c] = Gone(task[c].cell)
      /\ \A d \in Client \ {c} : task'[d] = task[d]
      /\ Requests' = Requests
      /\ UNCHANGED <<pending, kernel, iopub, results, missed>>
  BY AbortEffect DEF SyncInv, IInv
<1>2. SyncTypeInv'
  BY <1>1 DEF SyncInv, NotebookInv, SyncTypeInv, Gone
<1>3. \A i : Executing(i)' <=> Executing(i)
  BY <1>1 DEF Executing
<1>4. QED
  BY <1>1, <1>2, <1>3, CalmStep DEF SyncInv, NotebookInv

LEMMA NotebookNameInv ==
  ASSUME SyncInv, NEW c \in Client, NEW next, NameThen(c, next),
         "at" \in DOMAIN next, UNCHANGED cell
  PROVE  NotebookInv'
<1> DEFINE x == task[c].cell
           id == task[c].id
<1>1. /\ task[c].at = "naming"
      /\ task' = [task EXCEPT ![c] = next]
      /\ UNCHANGED <<kernelVars, results, missed>>
  BY DEF NameThen, SetTask
<1>2. x \in DOMAIN pending /\ pending[x].id = None
  BY <1>1 DEF SyncInv, IInv, QueueInv, Prepared, Preparing
<1>3. pending' = [pending EXCEPT ![x].id = {id}]
  BY <1>2 DEF NameThen
<1>4. pending[x].status # "executing"
  BY <1>2 DEF SyncInv, NotebookInv, SyncTypeInv, None
<1> HIDE DEF x, id
<1>5. /\ DOMAIN pending' = DOMAIN pending
      /\ pending'[x].status = pending[x].status
      /\ \A y \in DOMAIN pending \ {x} : pending'[y] = pending[y]
  BY <1>2, <1>3 DEF SyncInv, IInv, QueueInv, QueueTypeInv
<1>6. SyncTypeInv'
  BY <1>1, <1>4, <1>5 DEF SyncInv, NotebookInv, SyncTypeInv
<1>7. \A i : Executing(i)' <=> Executing(i)
  BY <1>4, <1>5 DEF Executing
<1>8. QED
  BY <1>1, <1>6, <1>7, CalmStep DEF SyncInv, NotebookInv, kernelVars, Requests

LEMMA NotebookKernelInv ==
  ASSUME SyncInv, Kernel, UNCHANGED cell
  PROVE  NotebookInv'
<1> USE DEF SyncInv, NotebookInv, IInv
<1>1. UNCHANGED <<pending, task, results, missed>>
  BY DEF Kernel, KernelBusy, KernelPrints, KernelReplies, KernelIdle
<1>2. SyncTypeInv'
  BY <1>1 DEF SyncTypeInv
<1>3. /\ \A i : Executing(i)' <=> Executing(i)
      /\ \A i, j : OnlyOf(i, j)' <=> OnlyOf(i, j)
      /\ \A x : Shown(x)' = Shown(x)
  BY <1>1 DEF Executing, OnlyOf, Shown
<1>4. OutputsInv'
  BY <1>1, <1>3 DEF OutputsInv
<1>5. StartIsSeen'
  <2>1. CASE KernelReplies
    <3>1. kernel.phase = "busy" /\ kernel' = [kernel EXCEPT !.phase = "replied"]
          /\ iopub' = iopub
      BY <2>1 DEF KernelReplies
    <3>2. Requests' = Requests
      BY <3>1 DEF Requests, QueueInv, QueueTypeInv
    <3>3. QED
      BY <1>1, <1>3, <3>1, <3>2 DEF StartIsSeen, StartOnIopub
  <2>2. ASSUME NEW type \in {"busy", "output", "idle"}, Publish(type),
               Requests # <<>>, type # "busy" => kernel.phase # "idle",
               kernel'.phase # "idle" => Requests'[1] = Requests[1]
        PROVE  StartIsSeen'
    <3>1. /\ Head(Requests) = Requests[1]
          /\ DOMAIN iopub = 1..Len(iopub) /\ Len(iopub) \in Nat
          /\ DOMAIN iopub' = 1..Len(iopub) + 1
          /\ \A k \in DOMAIN iopub : iopub'[k] = iopub[k]
          /\ iopub'[Len(iopub) + 1].type = type
          /\ iopub'[Len(iopub) + 1].parent = Requests[1]
      BY <2>2, PublishEffect
    <3>2. \A i : StartOnIopub(i) => StartOnIopub(i)'
      BY <3>1 DEF StartOnIopub
    <3>3. PICK first : first = Requests[1]
      OBVIOUS
    <3>4. first \in missed \/ StartOnIopub(first)' \/ Executing(first)
      <4>1. CASE type = "busy"
        BY <3>1, <3>3, <4>1 DEF StartOnIopub
      <4>2. CASE type # "busy"
        BY <2>2, <3>2, <3>3, <4>2 DEF StartIsSeen
      <4>3. QED
        BY <4>1, <4>2
    <3>5. ASSUME NEW k \in DOMAIN iopub', NEW i, iopub'[k].parent = i,
                 iopub'[k].type # "busy", i \notin missed
          PROVE  StartOnIopub(i)' \/ Executing(i)
      <4>1. CASE k \in DOMAIN iopub
        BY <3>1, <3>2, <3>5, <4>1 DEF StartIsSeen
      <4>2. CASE k = Len(iopub) + 1
        BY <3>1, <3>3, <3>4, <3>5, <4>2
      <4>3. QED
        BY <3>1, <4>1, <4>2
    <3>6. \A k \in DOMAIN iopub' :
            iopub'[k].type # "busy" /\ iopub'[k].parent \notin missed' =>
              \/ \E m \in DOMAIN iopub' : /\ iopub'[m].type = "busy"
                                          /\ iopub'[m].parent = iopub'[k].parent
              \/ Executing(iopub[k].parent)'
      BY <1>1, <1>3, <3>5 DEF StartOnIopub
    <3>7. kernel'.phase # "idle" /\ Requests'[1] \notin missed' =>
            StartOnIopub(Requests[1])' \/ Executing(Requests[1])'
      BY <1>1, <1>3, <2>2, <3>3, <3>4 DEF StartOnIopub, Executing
    <3>8. QED
      BY <3>6, <3>7 DEF StartIsSeen, StartOnIopub
  <2>3. CASE KernelBusy \/ KernelPrints
    <3>1. PICK type \in {"busy", "output"} :
            /\ Publish(type) /\ Requests # <<>>
            /\ type # "busy" => kernel.phase # "idle"
      BY <2>3 DEF KernelBusy, KernelPrints, QueueInv, QueueTypeInv, Requests
    <3>2. Requests' = Requests
      BY <2>3 DEF KernelBusy, KernelPrints, Requests, QueueInv, QueueTypeInv
    <3>3. QED
      BY <2>2, <3>1, <3>2
  <2>4. CASE KernelIdle
    <3>1. /\ Publish("idle") /\ kernel.phase = "replied"
          /\ kernel' = [kernel EXCEPT !.phase = "idle", !.printed = 0, !.requests = Tail(@)]
      BY <2>4 DEF KernelIdle
    <3>2. Requests # <<>> /\ kernel'.phase = "idle"
      BY <3>1 DEF QueueInv, QueueTypeInv, Requests
    <3>3. QED
      BY <2>2, <3>1, <3>2
  <2>5. QED
    BY <2>1, <2>3, <2>4 DEF Kernel
<1>6. QED
  BY <1>2, <1>4, <1>5

\* An answer is taken, of which iopub gives what the cases need.
LEMMA NotebookAnswerInv ==
  ASSUME SyncInv, NEW type \in {"busy", "output", "idle", "reply"},
         NEW parent \in RunId, TakeAnswer(type, parent), UNCHANGED cell,
         \A i : i # parent /\ StartOnIopub(i) => StartOnIopub(i)',
         type = "reply" => iopub' = iopub,
         type = "output" /\ parent \notin missed => Executing(parent),
         type = "idle" => /\ parent \notin Range(Requests)
                          /\ \A k \in DOMAIN iopub' : iopub'[k].parent # parent,
         type = "output" => ~StartOnIopub(parent),
         \A k \in DOMAIN iopub' : \E m \in DOMAIN iopub : iopub'[k] = iopub[m]
  PROVE  NotebookInv'
<1>0. QueueInv /\ SyncTypeInv /\ StartIsSeen /\ OutputsInv
  BY DEF SyncInv, NotebookInv, IInv
<1> USE <1>0 DEF NotebookInv
<1> DEFINE r == Result(ResultType(type), parent[1], parent)
<1>1. /\ UNCHANGED <<runs, task, kernel>>
      /\ \/ UNCHANGED <<pending, results>> /\ missed' = missed \cup {parent}
         \/ /\ parent[1] \in DOMAIN pending /\ pending[parent[1]].id = {parent}
            /\ pending' = PendingAfter(type, parent[1])
            /\ results' = Append(results, r)
            /\ missed' = missed
  BY AnswerEffect
<1>2. Requests' = Requests /\ (kernel.phase # "idle" => Requests[1] \in Range(Requests))
  <2>1. kernel.phase # "idle" => 1 \in DOMAIN Requests
    BY TailRange DEF QueueInv, QueueTypeInv
  <2>2. QED
    BY <1>1, <2>1 DEF Requests, Range
<1>3. ASSUME \A i : i \notin missed' /\ (type = "idle" => i # parent)
                      /\ (StartOnIopub(i) \/ Executing(i))
                      => StartOnIopub(i)' \/ Executing(i)',
             missed \subseteq missed'
      PROVE  StartIsSeen'
  <2>1. ASSUME NEW i, i \notin missed',
               \/ \E k \in DOMAIN iopub' : iopub'[k].type # "busy" /\ iopub'[k].parent = i
               \/ kernel.phase # "idle" /\ Requests[1] = i
        PROVE  StartOnIopub(i)' \/ Executing(i)'
    <3>1. StartOnIopub(i) \/ Executing(i)
      BY <1>3, <2>1 DEF StartIsSeen
    <3>2. type = "idle" => i # parent
      BY <1>2, <2>1
    <3>3. QED
      BY <1>3, <2>1, <3>1, <3>2
  <2>2. QED
    BY <1>1, <1>2, <2>1 DEF StartIsSeen, StartOnIopub, Executing
<1>4. CASE UNCHANGED <<pending, results>> /\ missed' = missed \cup {parent}
  <2>1. SyncTypeInv'
    BY <1>1, <1>4 DEF SyncTypeInv
  <2>2. /\ \A i : Executing(i)' <=> Executing(i)
        /\ \A i, j : OnlyOf(i, j)' <=> OnlyOf(i, j)
        /\ \A x : Shown(x)' = Shown(x)
    BY <1>4 DEF Executing, OnlyOf, Shown
  <2>3. StartIsSeen'
    BY <1>3, <1>4, <2>2
  <2>4. OutputsInv'
    BY <1>4, <2>2 DEF OutputsInv
  <2>5. QED
    BY <2>1, <2>3, <2>4
<1>5. CASE /\ parent[1] \in DOMAIN pending /\ pending[parent[1]].id = {parent}
           /\ pending' = PendingAfter(type, parent[1])
           /\ results' = Append(results, r)
           /\ missed' = missed
  <2>1. PICK x \in DOMAIN pending : x = parent[1]
    BY <1>5
  <2>2. /\ r \in ResultMessage
        /\ r.id = parent /\ r.type = ResultType(type) /\ r.cell = x
    BY <2>1, ResultTyped
  <2> HIDE DEF r
  <2>3. PICK n \in Nat :
          /\ n = Len(results) /\ Len(results') = n + 1
          /\ DOMAIN results = 1..n /\ DOMAIN results' = 1..n + 1
          /\ \A j \in DOMAIN results : results'[j] = results[j]
          /\ results'[n + 1] = r
    <3>1. results \in Seq(ResultMessage)
      BY DEF QueueInv, QueueTypeInv
    <3>2. QED
      BY <1>5, <2>2, <3>1, AppendRange, AppendProperties
  <2>4. pending' = PendingAfter(type, x)
    BY <1>5, <2>1
  <2>5. /\ DOMAIN pending' = IF type = "idle" THEN DOMAIN pending \ {x}
                             ELSE DOMAIN pending
        /\ \A y \in DOMAIN pending' :
             /\ pending'[y].id = pending[y].id
             /\ pending'[y].status = IF y = x /\ type = "busy" THEN "executing"
                                     ELSE pending[y].status
    BY <2>1, <2>4, PendingAfterEffect
  <2>6. SyncTypeInv'
    <3>1. \A y \in DOMAIN pending' :
            pending'[y].status = "executing" => \E i \in pending'[y].id : pending'[y].id = {i}
      <4>1. pending[x].id = {parent}
        BY <1>5, <2>1
      <4>2. \A y \in DOMAIN pending' : y = x => pending'[y].id = {parent}
        BY <2>5, <4>1
      <4>3. \A y \in DOMAIN pending' \ {x} :
              /\ pending'[y].id = pending[y].id /\ y \in DOMAIN pending
              /\ pending'[y].status = pending[y].status
        BY <2>5
      <4>4. \A y \in DOMAIN pending' \ {x} : pending'[y].status = "executing" =>
              \E i \in pending'[y].id : pending'[y].id = {i}
        BY <4>3 DEF SyncTypeInv
      <4>5. QED
        BY <4>2, <4>4
    <3>2. \A j \in DOMAIN results' : results'[j].cell = results'[j].id[1]
      BY <2>1, <2>2, <2>3 DEF SyncTypeInv
    <3>3. QED
      BY <1>1, <3>1, <3>2 DEF SyncTypeInv
  <2>7. /\ \A i : Executing(i) /\ (type = "idle" => i # parent) => Executing(i)'
        /\ \A i : Executing(i)' => Executing(i) \/ (type = "busy" /\ i = parent)
        /\ \A i : Executing(i)' /\ i[1] = x => i = parent
        /\ \A i : Executing(i) /\ i[1] = x => i = parent
        /\ type = "busy" => Executing(parent)'
    <3>1. /\ pending[x].id = {parent} /\ x = parent[1] /\ x \in DOMAIN pending
          /\ \A i : {parent} = {i} => i = parent
      BY <1>5, <2>1
    <3>2. \A i : Executing(i) /\ i[1] = x => i = parent
      BY <3>1 DEF Executing
    <3>3. \A i : Executing(i)' /\ i[1] = x => i = parent
      BY <2>5, <3>1 DEF Executing
    <3>4. \A i : Executing(i) /\ (type = "idle" => i # parent) => Executing(i)'
      BY <2>5, <3>2 DEF Executing
    <3>5. \A i : Executing(i)' => Executing(i) \/ (type = "busy" /\ i = parent)
      BY <2>5, <3>3 DEF Executing
    <3>6. type = "busy" => Executing(parent)'
      BY <2>5, <3>1 DEF Executing
    <3>7. QED
      BY <3>2, <3>3, <3>4, <3>5, <3>6
  <2>8. StartIsSeen'
    <3>1. ASSUME NEW i, i \notin missed, type = "idle" => i # parent,
                 StartOnIopub(i) \/ Executing(i)
          PROVE  StartOnIopub(i)' \/ Executing(i)'
      <4>1. CASE i # parent
        BY <2>7, <3>1, <4>1
      <4>2. CASE i = parent /\ type = "reply"
        BY <2>7, <3>1, <4>2 DEF StartOnIopub
      <4>3. CASE i = parent /\ type \in {"busy", "output"}
        BY <2>7, <3>1, <4>3
      <4>4. QED
        BY <3>1, <4>1, <4>2, <4>3
    <3>2. QED
      BY <1>3, <1>5, <3>1
  <2>9. ASSUME NEW i, i[1] # x \/ i = parent, OnlyOf(i, n)
        PROVE  OnlyOf(i, n + 1)'
    <3>1. \A m \in DOMAIN results' :
            m <= n + 1 /\ results'[m].cell = i[1] =>
              results'[m].id = i \/ m \in DOMAIN results
      BY <2>1, <2>2, <2>3, <2>9
    <3>2. \A m \in DOMAIN results : m <= n /\ m <= n + 1
      BY <2>3
    <3>3. QED
      BY <2>3, <2>9, <3>1, <3>2 DEF OnlyOf, Shown
  <2>10. ASSUME NEW i, NEW j \in DOMAIN results, OnlyOf(i, j)
         PROVE  OnlyOf(i, j)'
    BY <2>3, <2>10 DEF OnlyOf, Shown
  <2>11. OutputsInv'
    <3>1. ASSUME NEW i, Executing(i), i[1] \in DOMAIN cell
          PROVE  OnlyOf(i, n)
      BY <2>3, <3>1 DEF OutputsInv, Executing
    <3>2. ASSUME NEW i, Executing(i)', i[1] \in DOMAIN cell
          PROVE  OnlyOf(i, n + 1)'
      <4>1. CASE type = "busy" /\ i = parent
        <5>1. r.type = "execution_started"
          BY <2>2, <4>1 DEF ResultType
        <5>2. QED
          BY <2>2, <2>3, <4>1, <5>1 DEF OnlyOf
      <4>2. CASE Executing(i)
        BY <2>3, <2>7, <2>9, <3>1, <3>2, <4>2
      <4>3. QED
        BY <2>7, <3>2, <4>1, <4>2
    <3>3. ASSUME NEW j \in DOMAIN results, NEW i, i = results[j].id,
                 results[j].type = "cell_output", i \notin missed,
                 results[j].cell \in DOMAIN cell
          PROVE  OnlyOf(i, j)'
      BY <2>10, <3>3 DEF OutputsInv
    <3>4. ASSUME r.type = "cell_output", parent \notin missed, x \in DOMAIN cell
          PROVE  OnlyOf(parent, n + 1)'
      <4>1. type = "output"
        BY <2>2, <3>4 DEF ResultType
      <4>2. QED
        BY <2>1, <2>9, <3>1, <3>4, <4>1
    <3>5. ASSUME NEW j \in DOMAIN results', NEW i, i = results'[j].id,
                 results'[j].type = "cell_output", i \notin missed,
                 results'[j].cell \in DOMAIN cell
          PROVE  OnlyOf(i, j)'
      <4>1. CASE j \in DOMAIN results
        BY <2>3, <3>3, <3>5, <4>1
      <4>2. CASE j = n + 1
        BY <2>2, <2>3, <3>4, <3>5, <4>2
      <4>3. QED
        BY <2>3, <4>1, <4>2
    <3>6. \A y \in DOMAIN cell' :
            Shown(y)' \cap missed' = {} => \A a, b \in Shown(y)' : a = b
      BY <1>5 DEF OutputsInv, Shown
    <3>7. \A i, m : m = Len(results') /\ Executing(i)' /\ i[1] \in DOMAIN cell' =>
                    OnlyOf(i, m)'
      BY <2>3, <3>2
    <3>8. \A j, i : /\ j \in DOMAIN results' /\ i = results'[j].id
                    /\ results'[j].type = "cell_output" /\ i \notin missed'
                    /\ results'[j].cell \in DOMAIN cell'
                    => OnlyOf(i, j)'
      BY <1>5, <3>5
    <3>9. QED
      BY <3>6, <3>7, <3>8 DEF OutputsInv
  <2>12. QED
    BY <2>6, <2>8, <2>11
<1>6. QED
  BY <1>1, <1>4, <1>5

LEMMA NotebookReceiveShellInv ==
  ASSUME SyncInv, ReceiveShell, UNCHANGED cell
  PROVE  NotebookInv'
<1>1. /\ shell # <<>> /\ UNCHANGED iopub /\ TakeAnswer("reply", Head(shell))
  BY DEF ReceiveShell
<1>2. PICK parent \in RunId : parent = Head(shell)
  BY <1>1, TailRange DEF SyncInv, IInv, QueueInv, QueueTypeInv
<1>3. \A i : StartOnIopub(i) => StartOnIopub(i)'
  BY <1>1 DEF StartOnIopub
<1>4. QED
  BY <1>1, <1>2, <1>3, NotebookAnswerInv

LEMMA NotebookReceiveIopubInv ==
  ASSUME SyncInv, ReceiveIopub, UNCHANGED cell
  PROVE  NotebookInv'
<1> USE DEF SyncInv, NotebookInv, IInv
<1>1. /\ iopub # <<>> /\ iopub' = Tail(iopub)
      /\ TakeAnswer(Head(iopub).type, Head(iopub).parent)
  BY DEF ReceiveIopub
<1>2. /\ Head(iopub) \in IopubMessage
      /\ Head(iopub) = iopub[1] /\ 1 \in DOMAIN iopub
      /\ DOMAIN iopub = 1..Len(iopub) /\ DOMAIN iopub' = 1..Len(iopub) - 1
      /\ Len(iopub) \in Nat
      /\ \A k \in DOMAIN iopub' : iopub'[k] = iopub[k + 1] /\ k + 1 \in DOMAIN iopub
  BY <1>1, TailRange DEF QueueInv, QueueTypeInv
<1>3. PICK type \in {"busy", "output", "idle"}, parent \in RunId :
        type = iopub[1].type /\ parent = iopub[1].parent
  BY <1>2 DEF IopubMessage
<1>4. TakeAnswer(type, parent)
  BY <1>1, <1>2, <1>3
<1>5. ASSUME NEW i, i # parent, StartOnIopub(i)
      PROVE  StartOnIopub(i)'
  <2>1. PICK k \in DOMAIN iopub : iopub[k].type = "busy" /\ iopub[k].parent = i
    BY <1>5 DEF StartOnIopub
  <2>2. k # 1
    BY <1>3, <1>5, <2>1
  <2>3. k - 1 \in DOMAIN iopub' /\ iopub'[k - 1] = iopub[k]
    BY <1>2, <2>2
  <2>4. QED
    BY <2>1, <2>3 DEF StartOnIopub
<1>6. type = "output" => ~StartOnIopub(parent)
  <2> SUFFICES ASSUME type = "output", NEW k \in DOMAIN iopub,
                      iopub[k].type = "busy", iopub[k].parent = parent
               PROVE  FALSE
    BY DEF StartOnIopub
  <2>1. k <= 1
    BY <1>2, <1>3 DEF ResultsInv, StartIsFirst
  <2>2. QED
    BY <1>2, <1>3, <2>1
<1>7. type = "output" /\ parent \notin missed => Executing(parent)
  BY <1>2, <1>3, <1>6 DEF StartIsSeen
<1>8. type = "idle" => /\ parent \notin Range(Requests)
                       /\ \A k \in DOMAIN iopub' : iopub'[k].parent # parent
  <2> SUFFICES ASSUME type = "idle"
               PROVE  /\ parent \notin Range(Requests)
                      /\ \A k \in DOMAIN iopub' : iopub'[k].parent # parent
    OBVIOUS
  <2>1. /\ parent \notin Range(Requests)
        /\ \A m \in DOMAIN iopub : iopub[m].parent = parent => m <= 1
    BY <1>2, <1>3 DEF QueueInv, EndIsLast
  <2>2. QED
    BY <1>2, <2>1
<1>9. \A k \in DOMAIN iopub' : \E m \in DOMAIN iopub : iopub'[k] = iopub[m]
  BY <1>2
<1>10. QED
  BY <1>4, <1>5, <1>6, <1>7, <1>8, <1>9, NotebookAnswerInv

\* What the handlers do besides, but for the outputs.
LEMMA CalmHandlerStep ==
  ASSUME SyncInv, UNCHANGED <<pending, kernelVars, results, missed>>,
         DOMAIN task' = Client,
         \A c \in Client : \/ task'[c] = task[c]
                           \/ ~Preparing(c) /\ ~Preparing(c)' /\ "at" \in DOMAIN task'[c],
         \A x \in DOMAIN cell' : x \in DOMAIN cell /\ cell'[x] = cell[x]
  PROVE  SyncInv'
<1>1. IInv'
  BY HandlersInv, ResultsHandlersInv DEF SyncInv, IInv
<1>2. SyncTypeInv'
  BY DEF SyncInv, NotebookInv, SyncTypeInv
<1>3. \A i : Executing(i)' <=> Executing(i)
  BY DEF Executing
<1>4. NotebookInv'
  BY <1>2, <1>3, CalmStep DEF SyncInv, NotebookInv, kernelVars, Requests
<1>5. QED
  BY <1>1, <1>4 DEF SyncInv

\* The first result goes into the notebook.
LEMMA CellAfterEffect ==
  ASSUME NEW s \in [outputs : Seq(RunId), number : SUBSET RunId],
         NEW r \in ResultMessage
  PROVE  /\ CellAfter(s, r) \in [outputs : Seq(RunId), number : SUBSET RunId]
         /\ Range(CellAfter(s, r).outputs) =
              CASE r.type = "execution_started" -> {}
                [] r.type = "cell_output" -> Range(s.outputs) \cup {r.id}
                [] OTHER -> Range(s.outputs)
<1>1. s.outputs \in Seq(RunId) /\ r.id \in RunId
  BY DEF ResultMessage
<1>2. CASE r.type = "execution_started"
  <2>1. CellAfter(s, r) = [outputs |-> <<>>, number |-> {}]
    BY <1>2 DEF CellAfter, None
  <2>2. <<>> \in Seq(RunId) /\ Range(<<>>) = {}
    BY EmptySeq DEF Range
  <2>3. QED
    BY <1>2, <2>1, <2>2
<1>3. CASE r.type = "cell_output"
  <2>1. PICK o \in Seq(RunId) : o = Append(s.outputs, r.id)
    BY <1>1, AppendRange
  <2>2. CellAfter(s, r) = [s EXCEPT !.outputs = o]
    BY <1>3, <2>1 DEF CellAfter
  <2>3. Range(o) = Range(s.outputs) \cup {r.id}
    BY <1>1, <2>1, AppendRange
  <2>4. QED
    BY <1>3, <2>2, <2>3
<1>4. CASE r.type \notin {"execution_started", "cell_output"}
  <2>1. CellAfter(s, r) = s \/ CellAfter(s, r) = [s EXCEPT !.number = {r.id}]
    BY <1>4 DEF CellAfter
  <2>2. QED
    BY <1>1, <1>4, <2>1
<1>5. QED
  BY <1>2, <1>3, <1>4

LEMMA HandleOutputInv ==
  ASSUME SyncInv, HandleOutput
  PROVE  SyncInv'
<1> USE DEF SyncInv, NotebookInv
<1>1. /\ results # <<>> /\ results' = Tail(results)
      /\ UNCHANGED <<pending, task, kernelVars, missed>>
  BY DEF HandleOutput
<1>2. PICK n \in Nat :
        /\ n = Len(results) /\ n > 0 /\ Len(results') = n - 1
        /\ DOMAIN results = 1..n /\ DOMAIN results' = 1..n - 1
        /\ \A j \in DOMAIN results' : results'[j] = results[j + 1]
        /\ results[1] \in ResultMessage /\ Head(results) = results[1]
  <2>1. results \in Seq(ResultMessage)
    BY DEF IInv, QueueInv, QueueTypeInv
  <2>2. QED
    BY <1>1, <2>1, TailRange, HeadTailProperties
<1>3. PICK r \in ResultMessage : r = results[1]
  BY <1>2
<1>4. r.cell = r.id[1]
  BY <1>2, <1>3 DEF SyncTypeInv
<1>5. /\ r.cell \in DOMAIN cell => cell' = [cell EXCEPT ![r.cell] = CellAfter(@, r)]
      /\ r.cell \notin DOMAIN cell => cell' = cell
  BY <1>2, <1>3 DEF HandleOutput
<1>6. /\ DOMAIN cell' = DOMAIN cell
      /\ \A x \in DOMAIN cell \ {r.cell} : cell'[x] = cell[x]
      /\ r.cell \in DOMAIN cell => cell'[r.cell] = CellAfter(cell[r.cell], r)
  BY <1>5
<1>7. /\ \A x \in DOMAIN cell \ {r.cell} : Shown(x)' = Shown(x)
      /\ r.cell \in DOMAIN cell =>
           /\ cell'[r.cell] \in [outputs : Seq(RunId), number : SUBSET RunId]
           /\ Range(cell'[r.cell].outputs) =
                CASE r.type = "execution_started" -> {}
                  [] r.type = "cell_output" -> Range(cell[r.cell].outputs) \cup {r.id}
                  [] OTHER -> Range(cell[r.cell].outputs)
  <2>1. r.cell \in DOMAIN cell =>
          cell[r.cell] \in [outputs : Seq(RunId), number : SUBSET RunId]
    BY DEF SyncTypeInv
  <2>2. QED
    BY <1>6, <2>1, CellAfterEffect DEF Shown
<1>8. IInv'
  BY <1>1, HandlersInv, ResultsHandlersInv DEF IInv, QueueInv, QueueTypeInv
<1>9. SyncTypeInv'
  <2>1. \A x \in DOMAIN cell' : cell'[x] \in [outputs : Seq(RunId), number : SUBSET RunId]
    BY <1>6, <1>7 DEF SyncTypeInv
  <2>2. \A j \in DOMAIN results' : results'[j].cell = results'[j].id[1]
    BY <1>2 DEF SyncTypeInv
  <2>3. QED
    BY <1>1, <1>6, <2>1, <2>2 DEF SyncTypeInv
<1>10. StartIsSeen'
  BY <1>1 DEF StartIsSeen, StartOnIopub, Executing, kernelVars, Requests
<1>11. ASSUME NEW i, i[1] \in DOMAIN cell, NEW j \in 0..n - 1, OnlyOf(i, j + 1)
       PROVE  OnlyOf(i, j)'
  <2>1. ASSUME NEW k \in DOMAIN results, k <= j + 1,
               results[k].type = "execution_started", results[k].id = i,
               \A m \in DOMAIN results :
                 k <= m /\ m <= j + 1 /\ results[m].cell = i[1] => results[m].id = i
        PROVE  OnlyOf(i, j)'
    <3>1. \A m \in DOMAIN results' :
            k <= m + 1 /\ m <= j /\ results'[m].cell = i[1] => results'[m].id = i
      BY <1>2, <2>1
    <3>2. CASE k = 1
      <4>1. r.cell = i[1] /\ r.type = "execution_started"
        BY <1>3, <1>4, <2>1, <3>2
      <4>2. Shown(i[1])' = {}
        BY <1>7, <1>11, <4>1 DEF Shown
      <4>3. \A m \in DOMAIN results' :
              m <= j /\ results'[m].cell = i[1] => results'[m].id = i
        BY <1>2, <3>1, <3>2
      <4>4. QED
        BY <4>2, <4>3 DEF OnlyOf
    <3>3. CASE k # 1
      <4>1. k - 1 \in DOMAIN results' /\ results'[k - 1] = results[k] /\ k - 1 <= j
        BY <1>2, <2>1, <3>3
      <4>2. \A m \in DOMAIN results' :
              k - 1 <= m /\ m <= j /\ results'[m].cell = i[1] => results'[m].id = i
        BY <1>2, <3>1
      <4>3. QED
        BY <2>1, <4>1, <4>2 DEF OnlyOf
    <3>4. QED
      BY <3>2, <3>3
  <2>2. ASSUME Shown(i[1]) \subseteq {i},
               \A m \in DOMAIN results :
                 m <= j + 1 /\ results[m].cell = i[1] => results[m].id = i
        PROVE  OnlyOf(i, j)'
    <3>1. \A m \in DOMAIN results' :
            m <= j /\ results'[m].cell = i[1] => results'[m].id = i
      BY <1>2, <2>2
    <3>2. r.cell = i[1] => r.id = i
      BY <1>2, <1>3, <2>2
    <3>3. Shown(i[1])' \subseteq {i}
      BY <1>7, <1>11, <2>2, <3>2 DEF Shown
    <3>4. QED
      BY <3>1, <3>3 DEF OnlyOf
  <2>3. QED
    BY <1>11, <2>1, <2>2 DEF OnlyOf
<1>12. OutputsInv'
  <2>1. \A i : Executing(i)' <=> Executing(i)
    BY <1>1 DEF Executing
  <2>2. \A i : Executing(i) /\ i[1] \in DOMAIN cell => OnlyOf(i, n)
    BY <1>2 DEF OutputsInv, Executing
  <2>3. n - 1 \in 0..n - 1 /\ (n - 1) + 1 = n
    BY <1>2
  <2>4. \A i, m : m = Len(results') /\ Executing(i)' /\ i[1] \in DOMAIN cell' =>
                  OnlyOf(i, m)'
    BY <1>2, <1>6, <1>11, <2>1, <2>2, <2>3
  <2>5. ASSUME NEW j \in DOMAIN results', NEW i, i = results'[j].id,
               results'[j].type = "cell_output", i \notin missed,
               results'[j].cell \in DOMAIN cell
        PROVE  OnlyOf(i, j)'
    <3>1. j + 1 \in DOMAIN results /\ results'[j] = results[j + 1] /\ j \in 0..n - 1
      BY <1>2
    <3>2. i[1] \in DOMAIN cell
      BY <2>5, <3>1 DEF SyncTypeInv
    <3>3. OnlyOf(i, j + 1)
      BY <2>5, <3>1 DEF OutputsInv
    <3>4. QED
      BY <1>11, <3>1, <3>2, <3>3
  <2>6. ASSUME NEW x \in DOMAIN cell, Shown(x)' \cap missed = {}
        PROVE  \A a, b \in Shown(x)' : a = b
    <3>1. Shown(x) \cap missed = {} => \A a, b \in Shown(x) : a = b
      BY DEF OutputsInv
    <3>2. CASE x = r.cell /\ r.type = "cell_output"
      <4>1. Shown(x)' = Shown(x) \cup {r.id}
        BY <1>7, <3>2 DEF Shown
      <4>2. r.id \notin missed
        BY <2>6, <4>1
      <4>3. OnlyOf(r.id, 1)
        BY <1>2, <1>3, <3>2, <4>2 DEF OutputsInv
      <4>4. Shown(r.id[1]) \subseteq {r.id}
        BY <1>2, <1>3, <3>2, <4>3 DEF OnlyOf
      <4>5. QED
        BY <1>4, <3>2, <4>1, <4>4
    <3>3. CASE ~(x = r.cell /\ r.type = "cell_output")
      <4>1. Shown(x)' = Shown(x) \/ Shown(x)' = {}
        BY <1>7, <3>3 DEF Shown
      <4>2. QED
        BY <2>6, <3>1, <4>1
    <3>4. QED
      BY <3>2, <3>3
  <2>7. \A j, i : /\ j \in DOMAIN results' /\ i = results'[j].id
                  /\ results'[j].type = "cell_output" /\ i \notin missed'
                  /\ results'[j].cell \in DOMAIN cell'
                  => OnlyOf(i, j)'
    BY <1>1, <1>6, <2>5
  <2>8. \A x \in DOMAIN cell' :
          Shown(x)' \cap missed' = {} => \A a, b \in Shown(x)' : a = b
    BY <1>1, <1>6, <2>6
  <2>9. QED
    BY <2>4, <2>7, <2>8 DEF OutputsInv
<1>13. QED
  BY <1>8, <1>9, <1>10, <1>12

\* A task turns to something that is not to prepare a run.
LEMMA CalmTask ==
  ASSUME SyncInv, NEW c, NEW t, SetTask(c, t), "at" \in DOMAIN t,
         t.at \notin {"submitting", "naming"}, c \in Client => ~Preparing(c)
  PROVE  /\ DOMAIN task' = Client
         /\ \A d \in Client :
              \/ task'[d] = task[d]
              \/ ~Preparing(d) /\ ~Preparing(d)' /\ "at" \in DOMAIN task'[d]
<1>1. DOMAIN task = Client
  BY DEF SyncInv, IInv, QueueInv, QueueTypeInv
<1>2. task' = [task EXCEPT ![c] = t]
  BY DEF SetTask
<1>3. QED
  BY <1>1, <1>2 DEF Preparing

LEMMA BroadcastingIsCalm ==
  ASSUME NEW m
  PROVE  /\ "at" \in DOMAIN Broadcasting(m)
         /\ Broadcasting(m).at \notin {"submitting", "naming"}
BY DEF Broadcasting, Idle

LEMMA TellingIsCalm ==
  ASSUME NEW m
  PROVE  /\ "at" \in DOMAIN Telling(m)
         /\ Telling(m).at \notin {"submitting", "naming"}
BY DEF Telling

LEMMA DeleteCellInv ==
  ASSUME SyncInv, NEW c, NEW x, DeleteCell(c, x)
  PROVE  SyncInv'
<1>1. \E m : SetTask(c, Telling(m))
  BY DEF DeleteCell
<1>2. ~Preparing(c) /\ cell' = Without(cell, x)
      /\ UNCHANGED <<pending, kernelVars, results, missed>>
  BY DEF DeleteCell, Preparing, Idle
<1>3. /\ DOMAIN task' = Client
      /\ \A d \in Client :
           \/ task'[d] = task[d]
           \/ ~Preparing(d) /\ ~Preparing(d)' /\ "at" \in DOMAIN task'[d]
  BY <1>1, <1>2, CalmTask, TellingIsCalm
<1>4. \A y \in DOMAIN cell' : y \in DOMAIN cell /\ cell'[y] = cell[y]
  BY <1>2 DEF Without
<1>5. QED
  BY <1>2, <1>3, <1>4, CalmHandlerStep

\* A task that sends, or reads for a client that joins.
LEMMA TaskInv ==
  ASSUME SyncInv, NEW c \in Client,
         \/ BeginSending(c) \/ Send(c) \/ Connect(c) \/ ReadNotebook(c)
         \/ ReadVersion(c) \/ ReadExecutions(c) \/ SendState(c)
  PROVE  SyncInv'
<1>1. /\ ~Preparing(c)
      /\ UNCHANGED <<pending, kernelVars, results, missed, cell>>
  BY DEF BeginSending, Send, Connect, ReadNotebook, ReadVersion, ReadExecutions, SendState,
         viewVars, Preparing, Idle
<1>2. \E t : SetTask(c, t) /\ "at" \in DOMAIN t /\ t.at \notin {"submitting", "naming"}
  <2>1. CASE Send(c)
    <3>1. PICK d : SetTask(c, IF task[c].rest = {d} THEN Idle
                              ELSE [task[c] EXCEPT !.rest = @ \ {d}])
      BY <2>1 DEF Send
    <3>2. "at" \in DOMAIN task[c] /\ task[c].at = "broadcast"
      BY <2>1 DEF Send, SyncInv, NotebookInv, SyncTypeInv
    <3>3. PICK t : t = [task[c] EXCEPT !.rest = @ \ {d}]
      OBVIOUS
    <3>4. "at" \in DOMAIN t /\ t.at = "broadcast"
      BY <3>2, <3>3
    <3>5. "at" \in DOMAIN Idle /\ Idle.at = "idle"
      BY DEF Idle
    <3>6. QED
      BY <3>1, <3>3, <3>4, <3>5
  <2>2. CASE Connect(c) \/ ReadNotebook(c) \/ ReadVersion(c) \/ ReadExecutions(c)
    BY <2>2 DEF Connect, ReadNotebook, ReadVersion, ReadExecutions
  <2>3. CASE SendState(c)
    BY <2>3 DEF SendState, Idle
  <2>4. CASE BeginSending(c)
    BY <2>4, BroadcastingIsCalm DEF BeginSending
  <2>5. QED
    BY <2>1, <2>2, <2>3, <2>4
<1>3. /\ DOMAIN task' = Client
      /\ \A d \in Client :
           \/ task'[d] = task[d]
           \/ ~Preparing(d) /\ ~Preparing(d)' /\ "at" \in DOMAIN task'[d]
  BY <1>1, <1>2, CalmTask
<1>4. QED
  BY <1>1, <1>3, CalmHandlerStep

LEMMA OtherInv ==
  ASSUME SyncInv, \/ BeginOutput \/ SendOutput \/ UNCHANGED vars
                  \/ \E c \in Viewer : Receive(c)
  PROVE  SyncInv'
<1>1. UNCHANGED <<pending, task, kernelVars, results, missed, cell>>
  BY DEF BeginOutput, SendOutput, Receive, vars, queueVars, viewVars
<1>2. DOMAIN task' = Client
  BY <1>1 DEF SyncInv, IInv, QueueInv, QueueTypeInv
<1>3. QED
  BY <1>1, <1>2, CalmHandlerStep

LEMMA QueueStepSyncInv ==
  ASSUME SyncInv, QueueStep
  PROVE  SyncInv'
<1> UNCHANGED cell
  BY DEF QueueStep, viewVars
<1>1. ASSUME NEW c \in Client, Run(c)
      PROVE  SyncInv'
  <2>1. PICK x \in Cell : Register(c, x)
    BY <1>1 DEF Run, SyncInv, NotebookInv, SyncTypeInv
  <2>2. QED
    BY <2>1, QueueStepInv, NotebookRegisterInv DEF SyncInv
<1>2. ASSUME NEW c \in Client, Submit(c)
      PROVE  SyncInv'
  BY <1>2, QueueStepInv, NotebookSubmitInv DEF SyncInv
<1>3. ASSUME NEW c \in Client, SubmitFails(c)
      PROVE  SyncInv'
  BY <1>3, QueueStepInv, NotebookSubmitFailsInv DEF SyncInv
<1>4. ASSUME NEW c \in Client, Announce(c)
      PROVE  SyncInv'
  <2>1. PICK next : /\ NameThen(c, next) /\ "at" \in DOMAIN next
                    /\ next.at \notin {"submitting", "naming"}
    BY <1>4, TellingIsCalm DEF Announce
  <2>2. QED
    BY <2>1, NameInv, ResultsNameInv, NotebookNameInv DEF SyncInv, IInv
<1>5. CASE Kernel
  BY <1>5, QueueStepInv, NotebookKernelInv DEF SyncInv
<1>6. CASE ReceiveIopub
  BY <1>6, QueueStepInv, NotebookReceiveIopubInv DEF SyncInv
<1>7. CASE ReceiveShell
  BY <1>7, QueueStepInv, NotebookReceiveShellInv DEF SyncInv
<1>8. ASSUME NEW c \in Client, Abort(c)
      PROVE  SyncInv'
  BY <1>8, QueueStepInv, NotebookAbortInv DEF SyncInv
<1>9. QED
  BY <1>1, <1>2, <1>3, <1>4, <1>5, <1>6, <1>7, <1>8 DEF QueueStep

LEMMA SyncInitInv == Init => SyncInv
<1> SUFFICES ASSUME Init PROVE SyncInv
  OBVIOUS
<1>1. IInv
  BY QueueInitInv, ResultsInitInv DEF Init, IInv
<1>2. SyncTypeInv
  <2>1. [outputs |-> <<>>, number |-> None] \in [outputs : Seq(RunId), number : SUBSET RunId]
    BY EmptySeq DEF None
  <2>2. /\ \A c \in Client : "at" \in DOMAIN task[c]
        /\ DOMAIN pending = {} /\ DOMAIN results = {}
    BY DEF Init, QueueInit, Idle
  <2>3. QED
    BY <2>1, <2>2 DEF Init, SyncTypeInv
<1>3. StartIsSeen
  BY DEF Init, QueueInit, StartIsSeen
<1>4. OutputsInv
  <2>1. \A x \in DOMAIN cell : Shown(x) = {}
    BY DEF Init, Shown, Range
  <2>2. DOMAIN pending = {} /\ DOMAIN results = {}
    BY DEF Init, QueueInit
  <2>3. QED
    BY <2>1, <2>2 DEF OutputsInv
<1>5. QED
  BY <1>1, <1>2, <1>3, <1>4 DEF SyncInv, NotebookInv

LEMMA SpecInv == Spec => []SyncInv
<1>1. SyncInv /\ [Next]_vars => SyncInv'
  <2> SUFFICES ASSUME SyncInv, [Next]_vars PROVE SyncInv'
    OBVIOUS
  <2>1. \A c \in Viewer : c \in Client
    BY ViewAssumption
  <2>2. QED
    BY <2>1, QueueStepSyncInv, TaskInv, DeleteCellInv, HandleOutputInv, OtherInv DEF Next
<1>2. QED
  BY <1>1, SyncInitInv, PTL DEF Spec

LEMMA SyncInvImpliesOutputs == SyncInv => OutputsOfOneRun
<1> SUFFICES ASSUME SyncInv, NEW x \in DOMAIN cell, Shown(x) \cap missed = {}
             PROVE  /\ Cardinality(Shown(x)) <= 1
                    /\ x \in DOMAIN pending /\ pending[x].status = "executing"
                         /\ results = <<>>
                         => Shown(x) \subseteq pending[x].id
  BY DEF OutputsOfOneRun, Shown
<1> USE DEF SyncInv, NotebookInv
<1>1. Cardinality(Shown(x)) <= 1
  <2>1. \A a, b \in Shown(x) : a = b
    BY DEF OutputsInv
  <2>2. CASE Shown(x) = {}
    BY <2>2, FS_EmptySet
  <2>3. CASE Shown(x) # {}
    <3>1. PICK a : Shown(x) = {a}
      BY <2>1, <2>3
    <3>2. Cardinality({a}) = 1
      BY FS_Singleton
    <3>3. QED
      BY <3>1, <3>2
  <2>4. QED
    BY <2>2, <2>3
<1>2. ASSUME x \in DOMAIN pending, pending[x].status = "executing", results = <<>>
      PROVE  Shown(x) \subseteq pending[x].id
  <2>1. PICK i : i \in pending[x].id /\ pending[x].id = {i}
    BY <1>2 DEF SyncTypeInv
  <2>2. i[1] = x
    BY <1>2, <2>1 DEF IInv, QueueInv, Registered
  <2>3. OnlyOf(i, Len(results))
    BY <1>2, <2>1, <2>2 DEF OutputsInv, Executing
  <2>4. QED
    BY <1>2, <2>1, <2>2, <2>3 DEF OnlyOf
<1>3. QED
  BY <1>1, <1>2

\* The same two among the handlers, where cells are deleted while they run and
\* results wait until the notebook has taken those before them.
THEOREM QueueAmongHandlers == Spec => [](OneRunPerCell /\ ResultsInOrder)
<1>1. SyncInv => OneRunPerCell /\ ResultsInOrder
  BY IInvImpliesOneRun, IInvImpliesOrder DEF SyncInv
<1>2. QED
  BY <1>1, SpecInv, PTL

\* A cell shows the outputs of one run, the last that was started, unless the
\* start of a run was missed: whoever runs or deletes cells or joins meanwhile,
\* and however long results wait (handler/execution.rs, handle_output).
THEOREM OutputsOfOneRunAlways == Spec => []OutputsOfOneRun
  BY SpecInv, SyncInvImpliesOutputs, PTL

----------------------------------------------------------------------------
(* What the clients show.  The types of what is sent to them and kept by   *)
(* them.                                                                   *)

ResultTypes == {"execution_started", "cell_output", "execution_finished", "cell_idle"}

CellStates == {"idle", "pending", "running", "finishing"}

IsPending(m) == m.type = "execution_pending" /\ m.cell \in Cell

IsDelete(m) == m.type = "cell_delete" /\ m.cell \in Cell /\ m.version \in Nat

IsNotebook(n) ==
  /\ DOMAIN n \subseteq Cell
  /\ \A x \in DOMAIN n : n[x] \in [outputs : Seq(RunId), number : SUBSET RunId]

IsState(m) ==
  /\ m.type = "full_state" /\ IsNotebook(m.notebook) /\ m.version \in Nat
  /\ m.stale \subseteq Cell
  /\ \A x \in DOMAIN m.pending : m.pending[x] \in {"pending", "executing"}

IsMessage(m) == IsPending(m) \/ IsDelete(m) \/ IsState(m) \/ m \in ResultMessage

IsTask(t) ==
  /\ t.at \in {"telling", "broadcast"} =>
       /\ "message" \in DOMAIN t /\ (IsPending(t.message) \/ IsDelete(t.message))
       /\ t.at = "broadcast" => "rest" \in DOMAIN t /\ t.rest \subseteq Viewer
  /\ t.at \in {"notebook", "version"} => IsNotebook(t.cell)
  /\ t.at = "version" => t.version \in Nat /\ t.stale \subseteq Cell
  /\ t.at = "state" => IsState(t.message)

IsStore(s) ==
  /\ DOMAIN s = {"session", "since", "stale", "version", "deletions", "shown"}
  /\ s.session \in {"away", "joining", "joined"}
  /\ s.since \in Nat /\ s.version \in Nat /\ s.stale \subseteq Cell
  /\ \A m \in s.deletions : IsDelete(m)
  /\ DOMAIN s.shown \subseteq Cell
  /\ \A x \in DOMAIN s.shown :
       s.shown[x] \in [outputs : Seq(RunId), number : SUBSET RunId, state : CellStates]

IsOutputTask(t) ==
  \/ t = Idle
  \/ /\ t.at \in {"telling", "broadcast"} /\ {"at", "message"} \subseteq DOMAIN t
     /\ t.message \in ResultMessage
     /\ t.at = "broadcast" => "rest" \in DOMAIN t /\ t.rest \subseteq Viewer

ViewTypeInv ==
  /\ \A c \in Client : IsTask(task[c])
  /\ IsOutputTask(output)
  /\ DOMAIN toClient = Viewer /\ DOMAIN client = Viewer
  /\ \A c \in Viewer :
       /\ IsStore(client[c])
       /\ IsSequence(toClient[c])
       /\ \A k \in 1..Len(toClient[c]) : IsMessage(toClient[c][k])

----------------------------------------------------------------------------
(* Which cells they show.                                                  *)

Reading(c) == task[c].at \in {"connected", "notebook", "version", "state"}

StatesSent(c) == {k \in 1..Len(toClient[c]) : toClient[c][k].type = "full_state"}

\* A client is sent one state, while it is joining.
JoinInv(c) ==
  /\ Reading(c) \/ StatesSent(c) # {} => client[c].session = "joining"
  /\ Reading(c) => StatesSent(c) = {}
  /\ \A i, j \in StatesSent(c) : i = j
  /\ client[c].session = "joined" => client[c].deletions = {}

\* A task has yet to send its message to a client: to all, before it has seen which
\* there are.
Owes(t, c) == t.at = "telling" \/ (t.at = "broadcast" /\ c \in t.rest)

\* What the tasks have yet to send to a client.
Owed(c) == {task[k].message : k \in {d \in Client : Owes(task[d], c)}}

Sent(c) == {toClient[c][k] : k \in 1..Len(toClient[c])}

\* The deletions that a client has not handled.
Deletions(c) ==
  {m \in Owed(c) \cup Sent(c) : m.type = "cell_delete"} \cup client[c].deletions

\* Cells X, those of version v and some that are stale, become those of the
\* notebook and the stale ones by the deletions that come to c.
Covers(c, X, v, stale) ==
  /\ v <= Version
  /\ stale \cap DOMAIN cell = {}
  /\ DOMAIN cell \cup stale \subseteq X
  /\ \A x \in X : \/ x \in DOMAIN cell \cup stale
                  \/ \E m \in Deletions(c) : m.version > v /\ m.cell = x
  /\ \A m \in Deletions(c) : m.version > v => m.cell \notin stale

CoverInv(c) ==
  /\ \A m \in Deletions(c) : m.cell \notin DOMAIN cell /\ m.version <= Version
  /\ task[c].at = "notebook" => DOMAIN cell \subseteq DOMAIN task[c].cell
  /\ task[c].at = "version" =>
       Covers(c, DOMAIN task[c].cell, task[c].version, task[c].stale)
  /\ task[c].at = "state" =>
       Covers(c, DOMAIN task[c].message.notebook, task[c].message.version,
              task[c].message.stale)
  /\ \A k \in StatesSent(c) :
       Covers(c, DOMAIN toClient[c][k].notebook, toClient[c][k].version,
              toClient[c][k].stale)
  /\ client[c].session = "joined" =>
       Covers(c, DOMAIN client[c].shown, client[c].version, client[c].stale)

ShownCellsInv == ViewTypeInv /\ \A c \in Viewer : JoinInv(c) /\ CoverInv(c)

----------------------------------------------------------------------------
(* What they show of a cell.                                               *)

IsBlank(n) == \A x \in DOMAIN n : n[x].outputs = <<>> /\ n[x].number = None

IsBlankState(m) ==
  IsBlank(m.notebook) /\ \A x \in DOMAIN m.pending : m.pending[x] # "executing"

\* No result, and a state of before there were any.
IsCalm(m) == m.type \notin ResultTypes /\ (m.type = "full_state" => IsBlankState(m))

BlankServer ==
  /\ Requests = <<>> /\ kernel.phase = "idle" /\ iopub = <<>> /\ shell = <<>>
  /\ results = <<>> /\ output = Idle
  /\ IsBlank(cell)
  /\ \A x \in DOMAIN pending : pending[x].status # "executing"

BlankViewer(c) ==
  /\ task[c].at \in {"notebook", "version"} => IsBlank(task[c].cell)
  /\ task[c].at = "state" => IsBlankState(task[c].message)
  /\ \A k \in 1..Len(toClient[c]) : IsCalm(toClient[c][k])

\* Before anything is sent to the kernel there are no results.
BlankInv == kernel.sent = 0 => BlankServer /\ \A c \in Viewer : BlankViewer(c)

\* What a message makes of outputs and number of cell x.
OutputsAfter(o, m, x) ==
  IF m.type = "execution_started" /\ m.cell = x THEN <<>>
  ELSE IF m.type = "cell_output" /\ m.cell = x THEN Append(o, m.id)
  ELSE o

NumberAfter(n, m, x) ==
  IF m.type = "execution_finished" /\ m.cell = x THEN {m.id} ELSE n

ViewAfter(v, m, x) == <<OutputsAfter(v[1], m, x), NumberAfter(v[2], m, x)>>

\* From v the messages q lead to w.
Leads(v, q, x, w) ==
  \E f : /\ f[0] = v
         /\ \A k \in 1..Len(q) : f[k] = ViewAfter(f[k - 1], q[k], x)
         /\ f[Len(q)] = w

Agrees(v, s) == v[1] = s.outputs /\ (s.number # None => v[2] = s.number)

AfterOutput(w, c, x) ==
  IF Owes(output, c) THEN ViewAfter(w, output.message, x) ELSE w

\* The messages to c, and the result that is being sent, lead from what it shows
\* of x to what the notebook has.
Follows(c, x) ==
  \E w : /\ Leads(<<client[c].shown[x].outputs, client[c].shown[x].number>>,
                  toClient[c], x, w)
         /\ Agrees(AfterOutput(w, c, x), cell[x])

----------------------------------------------------------------------------
(* Whether they show it running.                                           *)

\* The results after which a cell is shown running or finishing.
Beginnings == {"execution_started", "execution_finished"}

IsEnd(m, x) == m.type = "cell_idle" /\ m.cell = x

IsBeginning(m, x) == m.type \in Beginnings /\ m.cell = x

\* Run i of x has its id, and its end has not been taken.
RunIs(x, i) == x \in DOMAIN pending /\ pending[x].id = {i}

\* The runs of which the notebook has something.
Held(x) == Range(cell[x].outputs) \cup cell[x].number

\* The run of x has begun, as far as the notebook can tell: it has nothing of other
\* runs, or something of this one.
Begun(x) == \E i : RunIs(x, i) /\ (Held(x) \subseteq {i} \/ i \in Held(x))

EndComes(x) == Begun(x) \/ \E j \in DOMAIN results : IsEnd(results[j], x)

\* A result is of the run of its cell, or the end of one is not before it.
WaitingEndInv ==
  \A j \in DOMAIN results :
    \/ RunIs(results[j].cell, results[j].id)
    \/ \E i \in DOMAIN results : i >= j /\ IsEnd(results[i], results[j].cell)

OutputTo(c) == Owes(output, c)

RunsAt(c, x, k) ==
  \/ k = 0 /\ client[c].shown[x].state \in {"running", "finishing"}
  \/ k > 0 /\ IsBeginning(toClient[c][k], x)

Ends(c, x) ==
  /\ OutputTo(c) /\ IsBeginning(output.message, x) => EndComes(x)
  /\ \A k \in 0..Len(toClient[c]) : RunsAt(c, x, k) =>
       \/ EndComes(x)
       \/ OutputTo(c) /\ IsEnd(output.message, x)
       \/ \E j \in 1..Len(toClient[c]) : j > k /\ IsEnd(toClient[c][j], x)

----------------------------------------------------------------------------
(* A client that has joined in the middle of a run.                        *)

NamedFor(c, x, i) == task[c].at = "naming" /\ task[c].cell = x /\ task[c].id = i

\* Run i of x is registered, or about to be.
Expected(x, i) ==
  (x \in DOMAIN pending /\ i \in pending[x].id) \/ \E c \in Client : NamedFor(c, x, i)

ResultWaits(x, i) == \E j \in DOMAIN results : results[j].cell = x /\ results[j].id = i

\* The runs of x that the notebook has something of, or will have.
Known(x, i) == i \in Held(x) \/ ResultWaits(x, i) \/ Expected(x, i)

KnownInv ==
  \A x \in DOMAIN cell : \A i : Known(x, i) => i[1] = x /\ i[2] \in 0..kernel.sent

\* The kernel has the run and has not begun it.
Waits(i) == \E k \in DOMAIN Requests : Requests[k] = i /\ (k > 1 \/ kernel.phase = "idle")

StartWaits(i) ==
  \E j \in DOMAIN results : results[j].type = "execution_started" /\ results[j].id = i

StartComes(i) == Waits(i) \/ StartOnIopub(i) \/ StartWaits(i)

EndOnIopub(i) == \E k \in DOMAIN iopub : iopub[k].type = "idle" /\ iopub[k].parent = i

\* The end of a run that is registered has still to come, or an answer was missed.
Underway(i) == i \in missed \/ i \in Range(Requests) \/ EndOnIopub(i)

UnderwayInv == \A x, i : Expected(x, i) => Underway(i)

\* No run of x that was sent after c had joined has started for it, but those of
\* which an answer was missed.
Behind(c, x) ==
  /\ client[c].since # 0
  /\ \A i : Known(x, i) => i[2] <= client[c].since \/ i \in missed \/ StartComes(i)

ServerInv == WaitingEndInv /\ KnownInv /\ UnderwayInv

\* A client that has joined has what the notebook has, and will see the end, unless it
\* is behind; it is not if it was there from the start.
Tracks(c, x) == Follows(c, x) /\ Ends(c, x)

Joiners == {c \in Viewer : client[c].session = "joined"}

ShowsInv == \A c \in Joiners, x \in DOMAIN cell : Tracks(c, x) \/ Behind(c, x)

ViewInv == ShownCellsInv /\ BlankInv /\ ServerInv /\ ShowsInv

----------------------------------------------------------------------------

LEMMA VersionIsNatural == Version \in Nat /\ IsFiniteSet(Cell \ DOMAIN cell)
BY CellAssumption, FS_Difference, FS_CardinalityType DEF Version

LEMMA VersionGrows ==
  ASSUME NEW x \in DOMAIN cell, DOMAIN cell \subseteq Cell,
         DOMAIN cell' = DOMAIN cell \ {x}
  PROVE  Version' = Version + 1
<1>1. Cell \ DOMAIN cell' = (Cell \ DOMAIN cell) \cup {x} /\ x \notin Cell \ DOMAIN cell
  OBVIOUS
<1>2. QED
  BY <1>1, VersionIsNatural, FS_AddElement DEF Version

\* A task that does nothing for a client that joins, and one that has come to tell
\* of a run.
IsAside(t) == t.at \in {"idle", "submitting", "naming", "gone"}

TellsRun(t) == t.at = "telling" /\ "message" \in DOMAIN t /\ IsPending(t.message)

LEMMA RunTold ==
  ASSUME NEW x \in Cell
  PROVE  TellsRun(Telling(Pending(x)))
<1>1. PICK m : m = Pending(x)
  OBVIOUS
<1>2. IsPending(m)
  BY <1>1 DEF Pending, IsPending
<1>3. TellsRun(Telling(m))
  BY <1>2 DEF Telling, TellsRun
<1>4. QED
  BY <1>1, <1>3

LEMMA QueueStepTasks ==
  ASSUME SyncInv, QueueStep, NEW k \in Client
  PROVE  \/ task'[k] = task[k]
         \/ IsAside(task[k]) /\ (IsAside(task'[k]) \/ TellsRun(task'[k]))
<1>1. /\ DOMAIN task = Client
      /\ \A c \in Client : Preparing(c) => task[c].cell \in Cell
  BY DEF SyncInv, IInv, QueueInv, QueueTypeInv
<1>2. ASSUME NEW c \in Client, NEW t, SetTask(c, t), IsAside(task[c]),
             IsAside(t) \/ TellsRun(t)
      PROVE  \/ task'[k] = task[k]
             \/ IsAside(task[k]) /\ (IsAside(task'[k]) \/ TellsRun(task'[k]))
  <2>1. task' = [task EXCEPT ![c] = t]
    BY <1>2 DEF SetTask
  <2>2. CASE k = c
    <3>1. task'[k] = t
      BY <1>1, <2>1, <2>2
    <3>2. QED
      BY <1>2, <2>2, <3>1
  <2>3. CASE k # c
    BY <1>1, <2>1, <2>3
  <2>4. QED
    BY <2>2, <2>3
<1>3. ASSUME NEW c \in Client, Run(c)
      PROVE  \E t : SetTask(c, t) /\ IsAside(task[c]) /\ IsAside(t)
  BY <1>3 DEF Run, Register, Submitting, Idle, IsAside
<1>4. ASSUME NEW c \in Client, Submit(c)
      PROVE  \E t : SetTask(c, t) /\ IsAside(task[c]) /\ IsAside(t)
  <2>1. /\ task[c].at = "submitting"
        /\ SetTask(c, Naming(task[c].cell, Id(task[c].cell, kernel.sent + 1)))
    BY <1>4 DEF Submit
  <2>2. \A x, id : Naming(x, id).at = "naming"
    BY DEF Naming
  <2>3. QED
    BY <2>1, <2>2 DEF IsAside
<1>5. ASSUME NEW c \in Client, SubmitFails(c)
      PROVE  \E t : SetTask(c, t) /\ IsAside(task[c]) /\ IsAside(t)
  BY <1>5 DEF SubmitFails, Idle, IsAside
<1>6. ASSUME NEW c \in Client, Announce(c)
      PROVE  \E t : SetTask(c, t) /\ IsAside(task[c]) /\ (IsAside(t) \/ TellsRun(t))
  <2>1. task[c].at = "naming" /\ SetTask(c, Telling(Pending(task[c].cell)))
    BY <1>6 DEF Announce, NameThen
  <2>2. task[c].cell \in Cell
    BY <1>1, <2>1 DEF Preparing
  <2>3. QED
    BY <2>1, <2>2, RunTold DEF IsAside
<1>7. CASE Kernel \/ ReceiveIopub \/ ReceiveShell
  <2>1. task' = task
    BY <1>7 DEF Kernel, KernelBusy, KernelPrints, KernelReplies, KernelIdle,
                ReceiveIopub, ReceiveShell, TakeAnswer
  <2>2. QED
    BY <2>1
<1>8. ASSUME NEW c \in Client, Abort(c)
      PROVE  \E t : SetTask(c, t) /\ IsAside(task[c]) /\ IsAside(t)
  BY <1>8 DEF Abort, Gone, IsAside
<1>9. QED
  BY <1>2, <1>3, <1>4, <1>5, <1>6, <1>7, <1>8 DEF QueueStep

----------------------------------------------------------------------------
(* The cells that are shown, step by step. *)

\* The steps that change nothing of what comes to client c but, perhaps, where it is.
LEMMA ViewerKept ==
  ASSUME NEW c, JoinInv(c), CoverInv(c),
         DOMAIN cell' = DOMAIN cell, client'[c] = client[c],
         \/ Deletions(c)' = Deletions(c)
         \/ client[c].session = "away" /\ Deletions(c)' \subseteq Deletions(c),
         task'[c] = task[c] \/ ~Reading(c)',
         StatesSent(c)' = StatesSent(c),
         \A k \in StatesSent(c) : toClient'[c][k] = toClient[c][k]
  PROVE  JoinInv(c)' /\ CoverInv(c)'
<1>1. Version' = Version
  BY DEF Version
<1>2. JoinInv(c)'
  BY DEF JoinInv, Reading
<1>3. CASE client[c].session = "away" /\ Deletions(c)' \subseteq Deletions(c)
  <2>1. /\ ~Reading(c)' /\ StatesSent(c)' = {}
        /\ client'[c].session # "joined"
    BY <1>2, <1>3 DEF JoinInv
  <2>2. CoverInv(c)'
    BY <1>1, <1>3, <2>1 DEF CoverInv, Reading
  <2>3. QED
    BY <1>2, <2>2
<1> SUFFICES ASSUME Deletions(c)' = Deletions(c) PROVE JoinInv(c)' /\ CoverInv(c)'
  BY <1>3
<1>4. (\A k \in StatesSent(c) :
         Covers(c, DOMAIN toClient[c][k].notebook, toClient[c][k].version,
                toClient[c][k].stale))'
  BY <1>1 DEF CoverInv, Covers
<1>5. (task[c].at = "state" =>
         Covers(c, DOMAIN task[c].message.notebook, task[c].message.version,
                task[c].message.stale))'
  BY <1>1 DEF CoverInv, Covers, Reading
<1>6. (client[c].session = "joined" =>
         Covers(c, DOMAIN client[c].shown, client[c].version, client[c].stale))'
  BY <1>1 DEF CoverInv, Covers
<1>7. (task[c].at = "version" =>
         Covers(c, DOMAIN task[c].cell, task[c].version, task[c].stale))'
  BY <1>1 DEF CoverInv, Covers, Reading
<1>8. QED
  BY <1>1, <1>2, <1>4, <1>5, <1>6, <1>7 DEF CoverInv, Reading

\* The steps of the queue, and of the task that handles its results.
LEMMA ServerStepShown ==
  ASSUME ShownCellsInv, UNCHANGED <<toClient, client>>,
         DOMAIN cell' = DOMAIN cell, IsOutputTask(output'),
         \A k \in Client : \/ task'[k] = task[k]
                           \/ IsAside(task[k]) /\ (IsAside(task'[k]) \/ TellsRun(task'[k]))
  PROVE  ShownCellsInv'
<1>1. ViewTypeInv'
  <2>1. \A k \in Client : IsTask(task[k])'
    <3>1. \A t : IsAside(t) \/ TellsRun(t) => IsTask(t)
      BY DEF IsAside, TellsRun, IsTask
    <3>2. QED
      BY <3>1 DEF ShownCellsInv, ViewTypeInv
  <2>2. QED
    BY <2>1 DEF ShownCellsInv, ViewTypeInv
<1>2. ASSUME NEW c \in Viewer
      PROVE  JoinInv(c)' /\ CoverInv(c)'
  <2>1. Sent(c)' = Sent(c) /\ StatesSent(c)' = StatesSent(c)
    BY DEF Sent, StatesSent
  <2>2. \A m : m.type = "cell_delete" => (m \in Owed(c)' <=> m \in Owed(c))
    <3>1. ASSUME NEW m, m.type = "cell_delete", NEW k \in Client
          PROVE  /\ Owes(task'[k], c) /\ m = task'[k].message
                 <=> Owes(task[k], c) /\ m = task[k].message
      <4>1. CASE task'[k] = task[k]
        BY <4>1
      <4>2. CASE IsAside(task[k]) /\ (IsAside(task'[k]) \/ TellsRun(task'[k]))
        BY <3>1, <4>2 DEF IsAside, TellsRun, IsPending, Owes
      <4>3. QED
        BY <4>1, <4>2
    <3>2. QED
      BY <3>1 DEF Owed
  <2>3. Deletions(c)' = Deletions(c)
    BY <2>1, <2>2 DEF Deletions
  <2>4. task'[c] = task[c] \/ ~Reading(c)'
    <3>1. c \in Client
      BY ViewAssumption
    <3>2. QED
      BY <3>1 DEF Reading, IsAside, TellsRun
  <2>5. JoinInv(c) /\ CoverInv(c)
    BY DEF ShownCellsInv
  <2>6. QED
    BY <2>1, <2>3, <2>4, <2>5, ViewerKept
<1>3. QED
  BY <1>1, <1>2 DEF ShownCellsInv

\* A message to client d.
LEMMA DeliverEffect ==
  ASSUME ViewTypeInv, NEW d \in Viewer, NEW m, Deliver(d, m)
  PROVE  /\ DOMAIN toClient' = Viewer
         /\ \A c \in Viewer \ {d} : toClient'[c] = toClient[c]
         /\ Len(toClient[d]) \in Nat
         /\ IsSequence(toClient'[d]) /\ Len(toClient'[d]) = Len(toClient[d]) + 1
         /\ toClient'[d] = Append(toClient[d], m)
         /\ \A k \in 1..Len(toClient[d]) : toClient'[d][k] = toClient[d][k]
         /\ toClient'[d][Len(toClient[d]) + 1] = m
<1>1. PICK q : q = toClient[d] /\ IsSequence(q)
  BY DEF ViewTypeInv
<1>2. toClient' = [toClient EXCEPT ![d] = Append(q, m)] /\ DOMAIN toClient = Viewer
  BY <1>1 DEF Deliver, ViewTypeInv
<1>3. /\ IsSequence(Append(q, m)) /\ Len(Append(q, m)) = Len(q) + 1
      /\ \A i \in 1..Len(q) : Append(q, m)[i] = q[i]
      /\ Append(q, m)[Len(q) + 1] = m
  BY <1>1, AppendIsSequence
<1>4. Len(q) \in Nat
  BY <1>1 DEF IsSequence
<1>5. QED
  BY <1>1, <1>2, <1>3, <1>4

LEMMA DeliverSent ==
  ASSUME ViewTypeInv, NEW d \in Viewer, NEW m, Deliver(d, m), IsMessage(m), NEW c \in Viewer
  PROVE  /\ IsSequence(toClient'[c])
         /\ \A k \in 1..Len(toClient'[c]) : IsMessage(toClient'[c][k])
         /\ Sent(c)' = Sent(c) \cup (IF c = d THEN {m} ELSE {})
         /\ StatesSent(c)' = StatesSent(c) \cup
              (IF c = d /\ m.type = "full_state" THEN {Len(toClient[c]) + 1} ELSE {})
         /\ \A k \in StatesSent(c) : toClient'[c][k] = toClient[c][k]
<1>1. CASE c # d
  <2>1. toClient'[c] = toClient[c]
    BY <1>1, DeliverEffect
  <2>2. QED
    BY <1>1, <2>1 DEF ViewTypeInv, Sent, StatesSent
<1>2. CASE c = d
  <2>0. PICK q, r, n : q = toClient[c] /\ r = toClient'[c] /\ n = Len(q)
    OBVIOUS
  <2>1. /\ q = toClient[c] /\ r = toClient'[c] /\ n = Len(q) /\ Len(r) = n + 1
        /\ n \in Nat /\ IsSequence(r) /\ \A k \in 1..n : r[k] = q[k]
        /\ r[n + 1] = m
        /\ \A k \in 1..n : IsMessage(q[k])
    BY <1>2, <2>0, DeliverEffect DEF ViewTypeInv
  <2>2. 1..n + 1 = 1..n \cup {n + 1}
    BY <2>1
  <2>3. \A k \in 1..n + 1 : IsMessage(r[k])
    BY <2>1, <2>2
  <2>4. {r[k] : k \in 1..n + 1} = {q[k] : k \in 1..n} \cup {m}
    <3>1. {r[k] : k \in 1..n + 1} = {r[k] : k \in 1..n} \cup {r[n + 1]}
      BY <2>2
    <3>2. {r[k] : k \in 1..n} = {q[k] : k \in 1..n}
      BY <2>1
    <3>3. QED
      BY <2>1, <3>1, <3>2
  <2>5. {k \in 1..n + 1 : r[k].type = "full_state"} =
          {k \in 1..n : q[k].type = "full_state"} \cup
            (IF m.type = "full_state" THEN {n + 1} ELSE {})
    BY <2>1, <2>2
  <2>6. Sent(c) = {q[k] : k \in 1..n} /\ Sent(c)' = {r[k] : k \in 1..n + 1}
    BY <2>1 DEF Sent
  <2>7. /\ StatesSent(c) = {k \in 1..n : q[k].type = "full_state"}
        /\ StatesSent(c)' = {k \in 1..n + 1 : r[k].type = "full_state"}
    BY <2>1 DEF StatesSent
  <2>8. QED
    BY <1>2, <2>1, <2>3, <2>4, <2>5, <2>6, <2>7
<1>3. QED
  BY <1>1, <1>2

LEMMA SendShown ==
  ASSUME SyncInv, ShownCellsInv, NEW k \in Client, Send(k)
  PROVE  ShownCellsInv'
<1>1. PICK d, m, t :
        /\ task[k].at = "broadcast" /\ m = task[k].message
        /\ d \in task[k].rest /\ Deliver(d, m)
        /\ t = (IF task[k].rest = {d} THEN Idle ELSE [task[k] EXCEPT !.rest = @ \ {d}])
        /\ SetTask(k, t)
  BY DEF Send
<1>2. /\ UNCHANGED <<cell, output, client>>
      /\ task' = [task EXCEPT ![k] = t] /\ DOMAIN task = Client
      /\ ViewTypeInv
  BY <1>1 DEF Send, SetTask, SyncInv, IInv, QueueInv, QueueTypeInv, ShownCellsInv
<1>3. IsPending(m) \/ IsDelete(m)
  BY <1>1, <1>2 DEF ViewTypeInv, IsTask
<1>4. IsMessage(m) /\ m.type # "full_state"
  BY <1>3 DEF IsMessage, IsPending, IsDelete
<1>5. /\ IsTask(t) /\ t.at \in {"idle", "broadcast"}
      /\ \A c : Owes(t, c) <=> (c \in task[k].rest /\ c # d)
      /\ t.at = "broadcast" => t.message = m
  <2>1. CASE task[k].rest = {d}
    <3>1. t = Idle
      BY <1>1, <2>1
    <3>2. t.at = "idle"
      BY <3>1 DEF Idle
    <3>3. QED
      BY <2>1, <3>2 DEF IsTask, Owes
  <2>2. CASE task[k].rest # {d}
    <3>1. t = [task[k] EXCEPT !.rest = @ \ {d}]
      BY <1>1, <2>2
    <3>2. {"at", "rest", "message"} \subseteq DOMAIN task[k] /\ task[k].rest \subseteq Viewer
      BY <1>1, <1>2 DEF ViewTypeInv, IsTask, SyncInv, NotebookInv, SyncTypeInv
    <3>3. /\ t.at = "broadcast" /\ t.rest = task[k].rest \ {d} /\ t.message = m
          /\ {"rest", "message"} \subseteq DOMAIN t
      BY <1>1, <3>1, <3>2
    <3>4. IsTask(t)
      BY <1>3, <3>2, <3>3 DEF IsTask
    <3>5. QED
      BY <3>3, <3>4 DEF Owes
  <2>3. QED
    BY <2>1, <2>2
<1>6. task'[k] = t /\ \A j \in Client \ {k} : task'[j] = task[j]
  BY <1>2
<1>7. d \in Viewer
  BY <1>1, <1>2 DEF ViewTypeInv, IsTask
<1>8. ViewTypeInv'
  <2>1. \A j \in Client : IsTask(task'[j])
    BY <1>2, <1>5, <1>6 DEF ViewTypeInv
  <2>2. DOMAIN toClient' = Viewer
    BY <1>1, <1>2, <1>7, DeliverEffect
  <2>3. \A c \in Viewer : /\ IsSequence(toClient'[c])
                          /\ \A j \in 1..Len(toClient'[c]) : IsMessage(toClient'[c][j])
    BY <1>1, <1>2, <1>4, <1>7, DeliverSent
  <2>4. QED
    BY <1>2, <2>1, <2>2, <2>3 DEF ViewTypeInv
<1>9. ASSUME NEW c \in Viewer
      PROVE  JoinInv(c)' /\ CoverInv(c)'
  <2>1. /\ Sent(c)' = Sent(c) \cup (IF c = d THEN {m} ELSE {})
        /\ StatesSent(c)' = StatesSent(c)
        /\ \A j \in StatesSent(c) : toClient'[c][j] = toClient[c][j]
    <3>1. /\ Sent(c)' = Sent(c) \cup (IF c = d THEN {m} ELSE {})
          /\ StatesSent(c)' = StatesSent(c) \cup
               (IF c = d /\ m.type = "full_state" THEN {Len(toClient[c]) + 1} ELSE {})
          /\ \A j \in StatesSent(c) : toClient'[c][j] = toClient[c][j]
      BY <1>1, <1>2, <1>4, <1>7, DeliverSent
    <3>2. QED
      BY <1>4, <3>1
  <2>2. Owed(c) \cup Sent(c) = Owed(c)' \cup Sent(c)'
    <3>1. Owed(c)' \subseteq Owed(c)
      <4>1. ASSUME NEW j \in Client, Owes(task'[j], c)
            PROVE  Owes(task[j], c) /\ task[j].message = task'[j].message
        BY <1>1, <1>5, <1>6, <4>1 DEF Owes
      <4>2. QED
        BY <4>1 DEF Owed
    <3>2. ASSUME NEW j \in Client, Owes(task[j], c)
          PROVE  \/ c = d /\ task[j].message = m
                 \/ Owes(task'[j], c) /\ task[j].message = task'[j].message
      <4>1. CASE j = k /\ c = d
        BY <1>1, <4>1
      <4>2. CASE j = k /\ c # d
        <5>1. Owes(t, c)
          BY <1>1, <1>5, <3>2, <4>2 DEF Owes
        <5>2. QED
          BY <1>1, <1>5, <1>6, <4>2, <5>1 DEF Owes
      <4>3. CASE j # k
        BY <1>6, <3>2, <4>3
      <4>4. QED
        BY <4>1, <4>2, <4>3
    <3>3. Owed(c) \subseteq Owed(c)' \cup (IF c = d THEN {m} ELSE {})
      BY <3>2 DEF Owed
    <3>4. c = d => m \in Owed(c)
      BY <1>1 DEF Owed, Owes
    <3>5. QED
      BY <2>1, <3>1, <3>3, <3>4
  <2>3. Deletions(c)' = Deletions(c)
    BY <1>2, <2>2 DEF Deletions
  <2>4. task'[c] = task[c] \/ ~Reading(c)'
    <3>1. c \in Client
      BY ViewAssumption
    <3>2. QED
      BY <1>5, <1>6, <3>1 DEF Reading
  <2>5. JoinInv(c) /\ CoverInv(c)
    BY DEF ShownCellsInv
  <2>6. QED
    BY <1>2, <2>1, <2>3, <2>4, <2>5, ViewerKept
<1>10. QED
  BY <1>8, <1>9 DEF ShownCellsInv

\* A task sees who is connected, and sends to them.
LEMMA BroadcastingEffect ==
  ASSUME NEW m, NEW c
  PROVE  /\ Owes(Broadcasting(m), c) <=> c \in Connected
         /\ Broadcasting(m).at \in {"idle", "broadcast"}
         /\ Broadcasting(m) = Idle
              \/ /\ Broadcasting(m).at = "broadcast" /\ Broadcasting(m).message = m
                 /\ Broadcasting(m).rest = Connected
                 /\ {"at", "rest", "message"} \subseteq DOMAIN Broadcasting(m)
         /\ Idle.at = "idle"
<1>1. CASE Connected = {}
  BY <1>1 DEF Broadcasting, Idle, Owes
<1>2. CASE Connected # {}
  <2>1. PICK t : t = [at |-> "broadcast", message |-> m, rest |-> Connected]
    OBVIOUS
  <2>2. /\ t.at = "broadcast" /\ t.message = m /\ t.rest = Connected
        /\ DOMAIN t = {"at", "rest", "message"}
    BY <2>1
  <2>3. Broadcasting(m) = t
    BY <1>2, <2>1 DEF Broadcasting
  <2>4. QED
    BY <2>2, <2>3 DEF Owes, Idle
<1>3. QED
  BY <1>1, <1>2

LEMMA BeginSendingEffect ==
  ASSUME SyncInv, ShownCellsInv, NEW k \in Client, BeginSending(k)
  PROVE  /\ UNCHANGED <<pending, kernelVars, results, missed, output, cell, toClient, client>>
         /\ task[k].at = "telling" /\ task'[k].at \in {"idle", "broadcast"}
         /\ IsTask(task'[k])
         /\ \A c \in Viewer : /\ Owes(task'[k], c) <=> client[c].session # "away"
                              /\ Owes(task'[k], c) => task'[k].message = task[k].message
         /\ \A j \in Client \ {k} : task'[j] = task[j]
<1>1. PICK m : m = task[k].message
  OBVIOUS
<1>2. /\ task[k].at = "telling" /\ task' = [task EXCEPT ![k] = Broadcasting(m)]
      /\ UNCHANGED <<pending, kernelVars, results, missed, output, cell, toClient, client>>
      /\ DOMAIN task = Client
  BY <1>1 DEF BeginSending, SetTask, viewVars, SyncInv, IInv, QueueInv, QueueTypeInv
<1>3. /\ task'[k] = Broadcasting(m) /\ \A j \in Client \ {k} : task'[j] = task[j]
  BY <1>2
<1>4. IsPending(m) \/ IsDelete(m)
  BY <1>1, <1>2 DEF ShownCellsInv, ViewTypeInv, IsTask
<1>5. PICK t : t = Broadcasting(m)
  OBVIOUS
<1>6. /\ \A c : Owes(t, c) <=> c \in Connected
      /\ t.at \in {"idle", "broadcast"}
      /\ \/ t = Idle
         \/ /\ t.at = "broadcast" /\ t.message = m /\ t.rest = Connected
            /\ {"at", "rest", "message"} \subseteq DOMAIN t
      /\ Idle.at = "idle"
  BY <1>5, BroadcastingEffect
<1>7. Connected \subseteq Viewer
  BY DEF Connected
<1>8. IsTask(t) /\ \A c : Owes(t, c) => t.message = m
  BY <1>4, <1>6, <1>7 DEF IsTask, Owes
<1>9. \A c \in Viewer : c \in Connected <=> client[c].session # "away"
  BY DEF Connected
<1>10. QED
  BY <1>1, <1>2, <1>3, <1>5, <1>6, <1>8, <1>9

LEMMA BeginSendingShown ==
  ASSUME SyncInv, ShownCellsInv, NEW k \in Client, BeginSending(k)
  PROVE  ShownCellsInv'
<1>1. /\ UNCHANGED <<output, cell, toClient, client>>
      /\ task[k].at = "telling" /\ task'[k].at \in {"idle", "broadcast"}
      /\ IsTask(task'[k])
      /\ \A c \in Viewer : /\ Owes(task'[k], c) <=> client[c].session # "away"
                           /\ Owes(task'[k], c) => task'[k].message = task[k].message
      /\ \A j \in Client \ {k} : task'[j] = task[j]
  BY BeginSendingEffect
<1>2. ViewTypeInv'
  BY <1>1 DEF ShownCellsInv, ViewTypeInv
<1>3. ASSUME NEW c \in Viewer
      PROVE  JoinInv(c)' /\ CoverInv(c)'
  <2>1. Sent(c)' = Sent(c) /\ StatesSent(c)' = StatesSent(c)
    BY <1>1 DEF Sent, StatesSent
  <2>2. \A j \in Client : Owes(task'[j], c) =>
          Owes(task[j], c) /\ task'[j].message = task[j].message
    BY <1>1 DEF Owes
  <2>3. client[c].session # "away" => \A j \in Client : Owes(task[j], c) =>
          Owes(task'[j], c) /\ task'[j].message = task[j].message
    BY <1>1
  <2>4. /\ Owed(c)' \subseteq Owed(c)
        /\ client[c].session # "away" => Owed(c)' = Owed(c)
    BY <2>2, <2>3 DEF Owed
  <2>5. \/ Deletions(c)' = Deletions(c)
        \/ client[c].session = "away" /\ Deletions(c)' \subseteq Deletions(c)
    BY <1>1, <2>1, <2>4 DEF Deletions
  <2>6. task'[c] = task[c] \/ ~Reading(c)'
    <3>1. c \in Client
      BY ViewAssumption
    <3>2. QED
      BY <1>1, <3>1 DEF Reading
  <2>7. JoinInv(c) /\ CoverInv(c)
    BY DEF ShownCellsInv
  <2>8. QED
    BY <1>1, <2>1, <2>5, <2>6, <2>7, ViewerKept
<1>4. QED
  BY <1>2, <1>3 DEF ShownCellsInv

LEMMA SendOutputShown ==
  ASSUME ShownCellsInv, SendOutput
  PROVE  ShownCellsInv'
<1>1. PICK d, m :
        /\ output.at = "broadcast" /\ m = output.message
        /\ d \in output.rest /\ Deliver(d, m)
        /\ output' = IF output.rest = {d} THEN Idle
                     ELSE [output EXCEPT !.rest = @ \ {d}]
  BY DEF SendOutput
<1>2. /\ UNCHANGED <<task, cell, client>> /\ ViewTypeInv
  BY DEF SendOutput, ShownCellsInv, queueVars
<1>3. m \in ResultMessage
  <2>1. output # Idle
    BY <1>1 DEF Idle
  <2>2. QED
    BY <1>1, <1>2, <2>1 DEF ViewTypeInv, IsOutputTask
<1>4. IsMessage(m) /\ m.type \in ResultTypes
  BY <1>3 DEF IsMessage, ResultMessage, ResultTypes
<1>5. IsOutputTask(output')
  <2>1. CASE output.rest = {d}
    BY <1>1, <2>1 DEF IsOutputTask
  <2>2. CASE output.rest # {d}
    <3>1. {"at", "rest", "message"} \subseteq DOMAIN output /\ output.rest \subseteq Viewer
      BY <1>1, <1>2 DEF ViewTypeInv, IsOutputTask, Idle
    <3>2. output' = [output EXCEPT !.rest = @ \ {d}]
      BY <1>1, <2>2
    <3>3. PICK t : t = [output EXCEPT !.rest = @ \ {d}]
      OBVIOUS
    <3>4. /\ t.at = "broadcast" /\ {"at", "rest", "message"} \subseteq DOMAIN t
          /\ t.rest \subseteq Viewer /\ t.message = m
      BY <1>1, <3>1, <3>3
    <3>5. QED
      BY <1>3, <3>2, <3>3, <3>4 DEF IsOutputTask
  <2>3. QED
    BY <2>1, <2>2
<1>6. d \in Viewer
  <2>1. output # Idle
    BY <1>1 DEF Idle
  <2>2. QED
    BY <1>1, <1>2, <2>1 DEF ViewTypeInv, IsOutputTask
<1>7. ViewTypeInv'
  <2>1. DOMAIN toClient' = Viewer
    BY <1>1, <1>2, <1>6, DeliverEffect
  <2>2. \A c \in Viewer : /\ IsSequence(toClient'[c])
                          /\ \A j \in 1..Len(toClient'[c]) : IsMessage(toClient'[c][j])
    BY <1>1, <1>2, <1>4, <1>6, DeliverSent
  <2>3. QED
    BY <1>2, <1>5, <2>1, <2>2 DEF ViewTypeInv
<1>8. ASSUME NEW c \in Viewer
      PROVE  JoinInv(c)' /\ CoverInv(c)'
  <2>1. /\ Sent(c)' = Sent(c) \cup (IF c = d THEN {m} ELSE {})
        /\ StatesSent(c)' = StatesSent(c)
        /\ \A j \in StatesSent(c) : toClient'[c][j] = toClient[c][j]
    <3>1. /\ Sent(c)' = Sent(c) \cup (IF c = d THEN {m} ELSE {})
          /\ StatesSent(c)' = StatesSent(c) \cup
               (IF c = d /\ m.type = "full_state" THEN {Len(toClient[c]) + 1} ELSE {})
          /\ \A j \in StatesSent(c) : toClient'[c][j] = toClient[c][j]
      BY <1>1, <1>2, <1>4, <1>6, DeliverSent
    <3>2. QED
      BY <1>4, <3>1 DEF ResultTypes
  <2>2. Owed(c)' = Owed(c)
    BY <1>2 DEF Owed
  <2>3. Deletions(c)' = Deletions(c)
    BY <1>2, <1>4, <2>1, <2>2 DEF Deletions, ResultTypes
  <2>4. JoinInv(c) /\ CoverInv(c)
    BY DEF ShownCellsInv
  <2>5. QED
    BY <1>2, <2>1, <2>3, <2>4, ViewerKept
<1>9. QED
  BY <1>7, <1>8 DEF ShownCellsInv

LEMMA DeletionsTyped ==
  ASSUME ViewTypeInv, NEW c \in Viewer, NEW m \in Deletions(c)
  PROVE  IsDelete(m)
<1>1. \A e \in Owed(c) : IsPending(e) \/ IsDelete(e)
  BY DEF ViewTypeInv, IsTask, Owed, Owes
<1>2. \A e \in Sent(c) : IsMessage(e)
  BY DEF ViewTypeInv, Sent
<1>3. \A e \in client[c].deletions : IsDelete(e)
  BY DEF ViewTypeInv, IsStore
<1>4. \A e : e.type = "cell_delete" /\ IsMessage(e) => IsDelete(e)
  BY DEF IsMessage, IsPending, IsState, ResultMessage
<1>5. \A e : IsPending(e) => IsMessage(e)
  BY DEF IsMessage
<1>6. QED
  BY <1>1, <1>2, <1>3, <1>4, <1>5 DEF Deletions

\* A task that turns from and to something other than to send.
LEMMA OwedKept ==
  ASSUME DOMAIN task = Client, NEW u \in Client, NEW t, task' = [task EXCEPT ![u] = t],
         task[u].at \notin {"telling", "broadcast"}, t.at \notin {"telling", "broadcast"},
         NEW c
  PROVE  Owed(c)' = Owed(c)
<1>1. task'[u] = t /\ \A j \in Client \ {u} : task'[j] = task[j]
  OBVIOUS
<1>2. \A j \in Client : /\ Owes(task'[j], c) <=> Owes(task[j], c)
                        /\ Owes(task[j], c) => task'[j] = task[j]
  BY <1>1 DEF Owes
<1>3. QED
  BY <1>2 DEF Owed

LEMMA ConnectShown ==
  ASSUME SyncInv, ShownCellsInv, NEW u \in Viewer, Connect(u)
  PROVE  ShownCellsInv'
<1>1. /\ ViewTypeInv /\ DOMAIN task = Client /\ u \in Client /\ DOMAIN client = Viewer
  BY ViewAssumption DEF ShownCellsInv, ViewTypeInv, SyncInv, IInv, QueueInv, QueueTypeInv
<1>2. /\ task[u] = Idle /\ client[u].session = "away"
      /\ client' = [client EXCEPT ![u].session = "joining"]
      /\ UNCHANGED <<output, cell, toClient>>
  BY DEF Connect
<1>3. PICK t : t = [at |-> "connected"] /\ task' = [task EXCEPT ![u] = t]
  BY DEF Connect, SetTask
<1>4. t.at = "connected" /\ task[u].at = "idle"
  BY <1>2, <1>3 DEF Idle
<1>5. /\ task'[u] = t /\ \A c \in Client \ {u} : task'[c] = task[c]
      /\ \A c \in Viewer \ {u} : client'[c] = client[c]
      /\ client'[u] = [client[u] EXCEPT !.session = "joining"]
  BY <1>1, <1>2, <1>3
<1>6. IsStore(client'[u]) /\ client'[u].session = "joining"
      /\ client'[u].deletions = client[u].deletions
  <2>1. IsStore(client[u])
    BY <1>1 DEF ViewTypeInv
  <2>2. QED
    BY <1>5, <2>1 DEF IsStore
<1>7. ViewTypeInv'
  <2>1. IsTask(t)
    BY <1>4 DEF IsTask
  <2>2. QED
    BY <1>1, <1>2, <1>5, <1>6, <2>1 DEF ViewTypeInv
<1>8. \A c : Owed(c)' = Owed(c) /\ Sent(c)' = Sent(c) /\ StatesSent(c)' = StatesSent(c)
  <2>1. \A c : Owed(c)' = Owed(c)
    BY <1>1, <1>3, <1>4, OwedKept
  <2>2. QED
    BY <1>2, <2>1 DEF Sent, StatesSent
<1>9. ASSUME NEW c \in Viewer, c # u
      PROVE  JoinInv(c)' /\ CoverInv(c)'
  <2>1. client'[c] = client[c] /\ task'[c] = task[c] /\ Deletions(c)' = Deletions(c)
    BY <1>5, <1>8, <1>9, ViewAssumption DEF Deletions
  <2>2. JoinInv(c) /\ CoverInv(c)
    BY DEF ShownCellsInv
  <2>3. QED
    BY <1>2, <1>8, <2>1, <2>2, ViewerKept
<1>10. JoinInv(u)' /\ CoverInv(u)'
  <2>1. StatesSent(u)' = {}
    BY <1>2, <1>8 DEF ShownCellsInv, JoinInv
  <2>2. JoinInv(u)'
    BY <1>6, <2>1 DEF JoinInv
  <2>3. Deletions(u)' = Deletions(u) /\ Version' = Version
    BY <1>2, <1>6, <1>8 DEF Deletions, Version
  <2>4. CoverInv(u)'
    BY <1>2, <1>4, <1>5, <1>6, <2>1, <2>3 DEF CoverInv, ShownCellsInv
  <2>5. QED
    BY <2>2, <2>4
<1>11. QED
  BY <1>7, <1>9, <1>10 DEF ShownCellsInv

\* The task of a client that joins goes on to read.
LEMMA ReadingOn ==
  ASSUME SyncInv, ShownCellsInv, NEW u \in Viewer, NEW t, Reading(u),
         task' = [task EXCEPT ![u] = t], UNCHANGED <<output, cell, toClient, client>>,
         IsTask(t), t.at \in {"notebook", "version", "state"},
         t.at = "notebook" => DOMAIN cell \subseteq DOMAIN t.cell,
         t.at = "version" => Covers(u, DOMAIN t.cell, t.version, t.stale),
         t.at = "state" => Covers(u, DOMAIN t.message.notebook, t.message.version,
                                  t.message.stale)
  PROVE  ShownCellsInv'
<1>1. /\ ViewTypeInv /\ DOMAIN task = Client /\ u \in Client
  BY ViewAssumption DEF ShownCellsInv, SyncInv, IInv, QueueInv, QueueTypeInv
<1>2. task'[u] = t /\ \A c \in Client \ {u} : task'[c] = task[c]
  BY <1>1
<1>3. ViewTypeInv'
  BY <1>1, <1>2 DEF ViewTypeInv
<1>4. \A c : /\ Owed(c)' = Owed(c) /\ Sent(c)' = Sent(c) /\ StatesSent(c)' = StatesSent(c)
             /\ Deletions(c)' = Deletions(c)
  <2>1. \A c : Owed(c)' = Owed(c)
    BY <1>1, OwedKept DEF Reading
  <2>2. QED
    BY <2>1 DEF Sent, StatesSent, Deletions
<1>5. ASSUME NEW c \in Viewer, c # u
      PROVE  JoinInv(c)' /\ CoverInv(c)'
  <2>1. client'[c] = client[c] /\ task'[c] = task[c]
    BY <1>2, <1>5, ViewAssumption
  <2>2. JoinInv(c) /\ CoverInv(c)
    BY DEF ShownCellsInv
  <2>3. QED
    BY <1>4, <2>1, <2>2, ViewerKept
<1>6. JoinInv(u)' /\ CoverInv(u)'
  <2>1. /\ client[u].session = "joining" /\ StatesSent(u) = {} /\ JoinInv(u) /\ CoverInv(u)
    BY DEF ShownCellsInv, JoinInv
  <2>2. JoinInv(u)'
    BY <1>4, <2>1 DEF JoinInv
  <2>3. Version' = Version
    BY DEF Version
  <2>4. (task[u].at = "notebook" => DOMAIN cell \subseteq DOMAIN task[u].cell)'
    BY <1>2
  <2>5. (task[u].at = "version" => Covers(u, DOMAIN task[u].cell, task[u].version,
                                          task[u].stale))'
    BY <1>2, <1>4, <2>3 DEF Covers
  <2>6. (task[u].at = "state" =>
           Covers(u, DOMAIN task[u].message.notebook, task[u].message.version,
                  task[u].message.stale))'
    BY <1>2, <1>4, <2>3 DEF Covers
  <2>7. CoverInv(u)'
    BY <1>4, <2>1, <2>3, <2>4, <2>5, <2>6 DEF CoverInv
  <2>8. QED
    BY <2>2, <2>7
<1>7. QED
  BY <1>3, <1>5, <1>6 DEF ShownCellsInv

LEMMA ReadNotebookShown ==
  ASSUME SyncInv, ShownCellsInv, NEW u \in Viewer, ReadNotebook(u)
  PROVE  ShownCellsInv'
<1>1. /\ DOMAIN cell \subseteq Cell
      /\ \A x \in DOMAIN cell : cell[x] \in [outputs : Seq(RunId), number : SUBSET RunId]
  BY DEF SyncInv, NotebookInv, SyncTypeInv
<1>2. Reading(u) /\ UNCHANGED <<output, cell, toClient, client>>
  BY DEF ReadNotebook, viewVars, Reading
<1>3. PICK t : t = [at |-> "notebook", cell |-> cell] /\ task' = [task EXCEPT ![u] = t]
  BY DEF ReadNotebook, SetTask
<1>4. t.at = "notebook" /\ t.cell = cell /\ IsTask(t)
  BY <1>1, <1>3 DEF IsTask, IsNotebook
<1>5. QED
  BY <1>2, <1>3, <1>4, ReadingOn

LEMMA ReadVersionShown ==
  ASSUME SyncInv, ShownCellsInv, NEW u \in Viewer, ReadVersion(u)
  PROVE  ShownCellsInv'
<1>1. task[u].at = "notebook" /\ UNCHANGED <<output, cell, toClient, client>>
  BY DEF ReadVersion, viewVars
<1>2. /\ ViewTypeInv /\ u \in Client /\ IsTask(task[u]) /\ Reading(u) /\ CoverInv(u)
  BY <1>1, ViewAssumption DEF ShownCellsInv, ViewTypeInv, Reading
<1>3. PICK t :
        /\ t = [at |-> "version", cell |-> task[u].cell, version |-> Version,
                stale |-> DOMAIN task[u].cell \ DOMAIN cell]
        /\ task' = [task EXCEPT ![u] = t]
  BY DEF ReadVersion, SetTask
<1>4. /\ t.at = "version" /\ t.cell = task[u].cell /\ t.version = Version
      /\ t.stale = DOMAIN task[u].cell \ DOMAIN cell
  BY <1>3
<1>5. IsTask(t)
  BY <1>1, <1>2, <1>4, VersionIsNatural DEF IsTask, IsNotebook
<1>6. DOMAIN cell \subseteq DOMAIN task[u].cell
  BY <1>1, <1>2 DEF CoverInv
<1>7. PICK X, stale, v : X = DOMAIN task[u].cell /\ stale = t.stale /\ v = Version
  OBVIOUS
<1>8. \A e \in Deletions(u) : e.version \in Nat /\ e.version <= v
  BY <1>2, <1>7, DeletionsTyped DEF CoverInv, IsDelete
<1>9. \A e \in Deletions(u) : ~(e.version > v)
  BY <1>7, <1>8, VersionIsNatural
<1>10. Covers(u, X, v, stale)
  BY <1>4, <1>6, <1>7, <1>9, VersionIsNatural DEF Covers
<1>11. Covers(u, DOMAIN t.cell, t.version, t.stale)
  BY <1>4, <1>7, <1>10
<1>12. QED
  BY <1>1, <1>2, <1>3, <1>4, <1>5, <1>11, ReadingOn

LEMMA ReadExecutionsShown ==
  ASSUME SyncInv, ShownCellsInv, NEW u \in Viewer, ReadExecutions(u)
  PROVE  ShownCellsInv'
<1>1. task[u].at = "version" /\ UNCHANGED <<output, cell, toClient, client>>
  BY DEF ReadExecutions, viewVars
<1>2. /\ u \in Client /\ IsTask(task[u]) /\ Reading(u) /\ CoverInv(u)
      /\ \A x \in DOMAIN pending : pending[x].status \in {"pending", "executing"}
  BY <1>1, ViewAssumption DEF ShownCellsInv, ViewTypeInv, Reading, SyncInv, IInv, QueueInv,
                              QueueTypeInv
<1>3. PICK m, t :
        /\ m = [type |-> "full_state", notebook |-> task[u].cell,
                version |-> task[u].version, stale |-> task[u].stale,
                pending |-> [x \in DOMAIN pending |-> pending[x].status]]
        /\ t = [at |-> "state", message |-> m]
        /\ task' = [task EXCEPT ![u] = t]
  BY DEF ReadExecutions, SetTask
<1>4. /\ m.type = "full_state" /\ m.notebook = task[u].cell
      /\ m.version = task[u].version /\ m.stale = task[u].stale
      /\ \A x \in DOMAIN m.pending : m.pending[x] \in {"pending", "executing"}
  BY <1>2, <1>3
<1>5. IsState(m)
  BY <1>1, <1>2, <1>4 DEF IsTask, IsState
<1>6. t.at = "state" /\ t.message = m /\ IsTask(t)
  BY <1>3, <1>5 DEF IsTask
<1>7. Covers(u, DOMAIN t.message.notebook, t.message.version, t.message.stale)
  BY <1>1, <1>2, <1>4, <1>6 DEF CoverInv
<1>8. QED
  BY <1>1, <1>2, <1>3, <1>6, <1>7, ReadingOn

LEMMA SendStateShown ==
  ASSUME SyncInv, ShownCellsInv, NEW u \in Viewer, SendState(u)
  PROVE  ShownCellsInv'
<1>1. /\ ViewTypeInv /\ DOMAIN task = Client /\ u \in Client /\ IsTask(task[u])
  BY ViewAssumption DEF ShownCellsInv, ViewTypeInv, SyncInv, IInv, QueueInv, QueueTypeInv
<1>2. PICK m : /\ task[u].at = "state" /\ m = task[u].message /\ Deliver(u, m)
               /\ task' = [task EXCEPT ![u] = Idle]
               /\ UNCHANGED <<output, cell, client>>
  BY DEF SendState, SetTask
<1>3. IsState(m) /\ IsMessage(m) /\ m.type = "full_state"
      /\ task[u].at \notin {"telling", "broadcast"}
  BY <1>1, <1>2 DEF IsTask, IsState, IsMessage
<1>4. /\ task'[u] = Idle /\ \A c \in Client \ {u} : task'[c] = task[c]
      /\ Idle.at = "idle" /\ Idle.at \notin {"telling", "broadcast"} /\ IsTask(Idle)
  BY <1>1, <1>2 DEF Idle, IsTask
<1>5. ViewTypeInv'
  <2>1. DOMAIN toClient' = Viewer
    BY <1>1, <1>2, DeliverEffect
  <2>2. \A c \in Viewer : /\ IsSequence(toClient'[c])
                          /\ \A j \in 1..Len(toClient'[c]) : IsMessage(toClient'[c][j])
    BY <1>1, <1>2, <1>3, DeliverSent
  <2>3. QED
    BY <1>1, <1>2, <1>4, <2>1, <2>2 DEF ViewTypeInv
<1>6. ASSUME NEW c \in Viewer
      PROVE  Deletions(c)' = Deletions(c) /\ JoinInv(c) /\ CoverInv(c)
  <2>1. Owed(c)' = Owed(c)
    BY <1>1, <1>2, <1>3, <1>4, OwedKept
  <2>2. Sent(c)' = Sent(c) \cup (IF c = u THEN {m} ELSE {})
    BY <1>1, <1>2, <1>3, DeliverSent
  <2>3. QED
    BY <1>2, <1>3, <2>1, <2>2 DEF Deletions, ShownCellsInv
<1>7. ASSUME NEW c \in Viewer, c # u
      PROVE  JoinInv(c)' /\ CoverInv(c)'
  <2>1. client'[c] = client[c] /\ task'[c] = task[c] /\ toClient'[c] = toClient[c]
    BY <1>1, <1>2, <1>4, <1>7, ViewAssumption, DeliverEffect
  <2>2. StatesSent(c)' = StatesSent(c)
    BY <2>1 DEF StatesSent
  <2>3. QED
    BY <1>2, <1>6, <2>1, <2>2, ViewerKept
<1>8. JoinInv(u)' /\ CoverInv(u)'
  <2>1. /\ client[u].session = "joining" /\ StatesSent(u) = {}
        /\ Covers(u, DOMAIN m.notebook, m.version, m.stale)
    BY <1>2, <1>6 DEF JoinInv, Reading, CoverInv
  <2>2. PICK n : n = Len(toClient[u]) + 1 /\ n > 0
    BY <1>1, <1>2, DeliverEffect
  <2>3. StatesSent(u)' = {n} /\ toClient'[u][n] = m
    <3>1. StatesSent(u)' = StatesSent(u) \cup
            (IF u = u /\ m.type = "full_state" THEN {Len(toClient[u]) + 1} ELSE {})
      BY <1>1, <1>2, <1>3, DeliverSent
    <3>2. toClient'[u][Len(toClient[u]) + 1] = m
      BY <1>1, <1>2, DeliverEffect
    <3>3. QED
      BY <1>3, <2>1, <2>2, <3>1, <3>2
  <2>4. JoinInv(u)'
    BY <1>2, <1>4, <2>1, <2>3 DEF JoinInv, Reading
  <2>5. Version' = Version
    BY <1>2 DEF Version
  <2>6. (\A k \in StatesSent(u) :
           Covers(u, DOMAIN toClient[u][k].notebook, toClient[u][k].version,
                  toClient[u][k].stale))'
    BY <1>2, <1>6, <2>1, <2>3, <2>5 DEF Covers
  <2>7. CoverInv(u)'
    BY <1>2, <1>4, <1>6, <2>1, <2>5, <2>6 DEF CoverInv
  <2>8. QED
    BY <2>4, <2>7
<1>9. QED
  BY <1>5, <1>7, <1>8 DEF ShownCellsInv

LEMMA DeleteCellShown ==
  ASSUME SyncInv, ShownCellsInv, NEW u \in Client, NEW x \in DOMAIN cell, DeleteCell(u, x)
  PROVE  ShownCellsInv'
<1>1. /\ ViewTypeInv /\ DOMAIN task = Client /\ DOMAIN cell \subseteq Cell
  BY DEF ShownCellsInv, ViewTypeInv, SyncInv, IInv, QueueInv, QueueTypeInv, NotebookInv,
         SyncTypeInv
<1>2. PICK m, t :
        /\ m = [type |-> "cell_delete", cell |-> x, version |-> Version + 1]
        /\ t = Telling(m)
        /\ task' = [task EXCEPT ![u] = t]
  BY DEF DeleteCell, SetTask
<1>3. /\ task[u] = Idle /\ cell' = Without(cell, x)
      /\ UNCHANGED <<output, toClient, client>>
  BY DEF DeleteCell
<1>4. /\ m.type = "cell_delete" /\ m.cell = x /\ m.version = Version + 1 /\ IsDelete(m)
  BY <1>1, <1>2, VersionIsNatural DEF IsDelete
<1>5. /\ t.at = "telling" /\ t.message = m /\ IsTask(t)
      /\ \A c : Owes(t, c)
  <2>1. t.at = "telling" /\ t.message = m /\ "message" \in DOMAIN t
    BY <1>2 DEF Telling
  <2>2. QED
    BY <1>4, <2>1 DEF IsTask, Owes
<1>6. /\ task'[u] = t /\ \A c \in Client \ {u} : task'[c] = task[c]
      /\ task[u].at = "idle"
  BY <1>1, <1>2, <1>3 DEF Idle
<1>7. /\ DOMAIN cell' = DOMAIN cell \ {x}
  BY <1>3 DEF Without
<1>8. Version' = Version + 1 /\ Version \in Nat
  BY <1>1, <1>7, VersionGrows, VersionIsNatural
<1>9. ViewTypeInv'
  BY <1>1, <1>3, <1>5, <1>6 DEF ViewTypeInv
<1>10. ASSUME NEW c \in Viewer
       PROVE  JoinInv(c)' /\ CoverInv(c)'
  <2>1. JoinInv(c) /\ CoverInv(c) /\ c \in Client
    BY ViewAssumption DEF ShownCellsInv
  <2>2. /\ Sent(c)' = Sent(c) /\ StatesSent(c)' = StatesSent(c)
        /\ client'[c] = client[c] /\ toClient'[c] = toClient[c]
        /\ task'[c] = task[c] \/ (~Reading(c)' /\ ~Reading(c))
    BY <1>3, <1>5, <1>6, <2>1 DEF Sent, StatesSent, Reading
  <2>3. Owed(c)' = Owed(c) \cup {m}
    <3>1. \A j \in Client \ {u} : task'[j] = task[j]
      BY <1>6
    <3>2. ~Owes(task[u], c) /\ Owes(task'[u], c) /\ task'[u].message = m
      BY <1>5, <1>6 DEF Owes
    <3>3. QED
      BY <3>1, <3>2 DEF Owed
  <2>4. Deletions(c)' = Deletions(c) \cup {m}
    BY <1>4, <2>2, <2>3 DEF Deletions
  <2>5. JoinInv(c)'
    BY <2>1, <2>2 DEF JoinInv, Reading
  <2>6. \A e \in Deletions(c) : e.version \in Nat /\ e.version <= Version
                                /\ e.cell \notin DOMAIN cell
    BY <1>1, <2>1, DeletionsTyped DEF CoverInv, IsDelete
  <2>7. \A e \in Deletions(c)' : e.cell \notin DOMAIN cell' /\ e.version <= Version'
    BY <1>4, <1>7, <1>8, <2>4, <2>6
  <2>8. ASSUME NEW X, NEW v \in Nat, NEW stale, Covers(c, X, v, stale)
        PROVE  Covers(c, X, v, stale)'
    <3>1. m.version > v /\ v <= Version'
      BY <1>4, <1>8, <2>8 DEF Covers
    <3>2. x \notin stale
      BY <2>8 DEF Covers
    <3>3. Deletions(c)' = Deletions(c) \cup {m}
      BY <2>4, <2>8
    <3>4. \A y \in X : \/ y \in DOMAIN cell' \cup stale
                       \/ \E e \in Deletions(c)' : e.version > v /\ e.cell = y
      BY <1>4, <1>7, <2>8, <3>1, <3>3 DEF Covers
    <3>5. \A e \in Deletions(c)' : e.version > v => e.cell \notin stale
      BY <1>4, <2>8, <3>2, <3>3 DEF Covers
    <3>6. stale \cap DOMAIN cell' = {} /\ DOMAIN cell' \cup stale \subseteq X
      BY <1>7, <2>8 DEF Covers
    <3>7. QED
      BY <3>1, <3>4, <3>5, <3>6 DEF Covers
  <2>9. task'[c].at = "notebook" => DOMAIN cell' \subseteq DOMAIN task'[c].cell
    BY <1>7, <2>1, <2>2 DEF CoverInv, Reading
  <2>10. (task[c].at = "version" =>
            Covers(c, DOMAIN task[c].cell, task[c].version, task[c].stale))'
    <3>1. PICK X, v, stale : /\ X = DOMAIN task[c].cell /\ v = task[c].version
                             /\ stale = task[c].stale
      OBVIOUS
    <3>2. task[c].at = "version" => v \in Nat
      BY <1>1, <2>1, <3>1 DEF ViewTypeInv, IsTask
    <3>3. task[c].at = "version" => Covers(c, X, v, stale)'
      BY <2>1, <2>8, <3>1, <3>2 DEF CoverInv
    <3>4. QED
      BY <2>2, <3>1, <3>3 DEF Covers, Reading
  <2>11. (task[c].at = "state" =>
            Covers(c, DOMAIN task[c].message.notebook, task[c].message.version,
                   task[c].message.stale))'
    <3>1. PICK X, v, stale : /\ X = DOMAIN task[c].message.notebook
                             /\ v = task[c].message.version
                             /\ stale = task[c].message.stale
      OBVIOUS
    <3>2. task[c].at = "state" => v \in Nat
      BY <1>1, <2>1, <3>1 DEF ViewTypeInv, IsTask, IsState
    <3>3. task[c].at = "state" => Covers(c, X, v, stale)'
      BY <2>1, <2>8, <3>1, <3>2 DEF CoverInv, JoinInv, Reading
    <3>4. QED
      BY <2>2, <3>1, <3>3 DEF Covers, Reading
  <2>12. (\A k \in StatesSent(c) :
            Covers(c, DOMAIN toClient[c][k].notebook, toClient[c][k].version,
                   toClient[c][k].stale))'
    <3>1. ASSUME NEW k \in StatesSent(c)
          PROVE  (Covers(c, DOMAIN toClient[c][k].notebook, toClient[c][k].version,
                         toClient[c][k].stale))'
      <4>1. PICK X, v, stale : /\ X = DOMAIN toClient[c][k].notebook
                               /\ v = toClient[c][k].version
                               /\ stale = toClient[c][k].stale
        OBVIOUS
      <4>2. v \in Nat
        BY <1>1, <3>1, <4>1 DEF ViewTypeInv, IsMessage, IsPending, IsDelete, IsState,
                                ResultMessage, StatesSent
      <4>3. Covers(c, X, v, stale)'
        BY <2>1, <2>8, <3>1, <4>1, <4>2 DEF CoverInv, JoinInv
      <4>4. QED
        BY <2>2, <4>1, <4>3 DEF Covers
    <3>2. QED
      BY <2>2, <3>1
  <2>13. (client[c].session = "joined" =>
            Covers(c, DOMAIN client[c].shown, client[c].version, client[c].stale))'
    <3>1. PICK X, v, stale : /\ X = DOMAIN client[c].shown
                             /\ v = client[c].version
                             /\ stale = client[c].stale
      OBVIOUS
    <3>2. v \in Nat
      BY <1>1, <3>1 DEF ViewTypeInv, IsStore
    <3>3. client[c].session = "joined" => Covers(c, X, v, stale)'
      BY <2>1, <2>8, <3>1, <3>2 DEF CoverInv
    <3>4. QED
      BY <2>2, <3>1, <3>3 DEF Covers
  <2>14. CoverInv(c)'
    BY <2>7, <2>9, <2>10, <2>11, <2>12, <2>13 DEF CoverInv
  <2>15. QED
    BY <2>5, <2>14
<1>11. QED
  BY <1>9, <1>10 DEF ShownCellsInv

\* What client u receives is the first message to it.
LEMMA ReceiveEffect ==
  ASSUME ViewTypeInv, NEW u \in Viewer, Receive(u)
  PROVE  /\ Len(toClient[u]) \in Nat /\ Len(toClient[u]) > 0
         /\ Head(toClient[u]) = toClient[u][1] /\ IsMessage(toClient[u][1])
         /\ IsSequence(toClient'[u]) /\ Len(toClient'[u]) = Len(toClient[u]) - 1
         /\ toClient'[u] = Tail(toClient[u])
         /\ \A k \in 1..Len(toClient[u]) - 1 : toClient'[u][k] = toClient[u][k + 1]
         /\ DOMAIN toClient' = Viewer /\ DOMAIN client' = Viewer
         /\ \A c \in Viewer \ {u} : toClient'[c] = toClient[c] /\ client'[c] = client[c]
<1>1. PICK q : q = toClient[u] /\ IsSequence(q) /\ q # <<>>
  BY DEF ViewTypeInv, Receive
<1>2. /\ DOMAIN toClient = Viewer /\ DOMAIN client = Viewer
      /\ toClient' = [toClient EXCEPT ![u] = Tail(q)]
  BY <1>1 DEF ViewTypeInv, Receive
<1>3. Len(q) \in Nat /\ Len(q) > 0 /\ Head(q) = q[1]
  BY <1>1, HeadOfSequence
<1>4. /\ IsSequence(Tail(q)) /\ Len(Tail(q)) = Len(q) - 1
      /\ \A i \in 1..Len(q) - 1 : Tail(q)[i] = q[i + 1]
  BY <1>1, <1>3, TailIsSequence
<1>5. \A c \in Viewer \ {u} : client'[c] = client[c]
  <2>1. PICK s : client' = [client EXCEPT ![u] = s]
    BY DEF Receive
  <2>2. QED
    BY <1>2, <2>1
<1>6. DOMAIN client' = Viewer
  <2>1. PICK s : client' = [client EXCEPT ![u] = s]
    BY DEF Receive
  <2>2. QED
    BY <1>2, <2>1
<1>7. /\ toClient'[u] = Tail(q) /\ DOMAIN toClient' = Viewer
      /\ \A c \in Viewer \ {u} : toClient'[c] = toClient[c]
  BY <1>2
<1>8. IsMessage(q[1])
  BY <1>1, <1>3 DEF ViewTypeInv
<1>9. PICK r : r = Tail(q)
  OBVIOUS
<1>10. /\ IsSequence(r) /\ Len(r) = Len(q) - 1 /\ toClient'[u] = r
       /\ \A k \in 1..Len(q) - 1 : r[k] = q[k + 1]
  BY <1>4, <1>7, <1>9
<1>11. /\ IsSequence(toClient'[u]) /\ Len(toClient'[u]) = Len(toClient[u]) - 1
       /\ \A k \in 1..Len(toClient[u]) - 1 : toClient'[u][k] = toClient[u][k + 1]
  BY <1>1, <1>10
<1>12. toClient'[u] = Tail(toClient[u])
  BY <1>1, <1>9, <1>10
<1>13. /\ Len(toClient[u]) \in Nat /\ Len(toClient[u]) > 0
       /\ Head(toClient[u]) = toClient[u][1] /\ IsMessage(toClient[u][1])
  BY <1>1, <1>3, <1>8
<1>14. QED
  BY <1>5, <1>6, <1>7, <1>11, <1>12, <1>13

StoreCell == [outputs : Seq(RunId), number : SUBSET RunId, state : CellStates]

LEMMA ShownAfterEffect ==
  ASSUME NEW s \in StoreCell, NEW m, IsPending(m) \/ m \in ResultMessage
  PROVE  /\ ShownAfter(s, m) \in StoreCell
         /\ ShownAfter(s, m).outputs = OutputsAfter(s.outputs, m, m.cell)
         /\ ShownAfter(s, m).number = NumberAfter(s.number, m, m.cell)
         /\ ShownAfter(s, m).state \in {"running", "finishing"} =>
              \/ m.type \in Beginnings
              \/ m.type = "cell_output" /\ s.state \in {"running", "finishing"}
<1>1. /\ DOMAIN s = {"outputs", "number", "state"}
      /\ s.outputs \in Seq(RunId) /\ s.number \subseteq RunId /\ s.state \in CellStates
  BY DEF StoreCell
<1>2. CASE m.type = "execution_started"
  <2>1. ShownAfter(s, m) = [s EXCEPT !.state = "running", !.outputs = <<>>]
    BY <1>2 DEF ShownAfter
  <2>2. <<>> \in Seq(RunId)
    BY EmptySeq
  <2>3. QED
    BY <1>1, <1>2, <2>1, <2>2 DEF StoreCell, CellStates, OutputsAfter, NumberAfter, Beginnings
<1>3. CASE m.type = "cell_output"
  <2>1. m.id \in RunId
    BY <1>3 DEF IsPending, ResultMessage
  <2>2. PICK o \in Seq(RunId) : o = Append(s.outputs, m.id)
    BY <1>1, <2>1, AppendRange
  <2>3. ShownAfter(s, m) = [s EXCEPT !.outputs = o]
    BY <1>3, <2>2 DEF ShownAfter
  <2>4. OutputsAfter(s.outputs, m, m.cell) = o
    BY <1>3, <2>2 DEF OutputsAfter
  <2>5. NumberAfter(s.number, m, m.cell) = s.number
    BY <1>3 DEF NumberAfter
  <2>6. QED
    BY <1>1, <1>3, <2>2, <2>3, <2>4, <2>5 DEF StoreCell
<1>4. CASE m.type = "execution_finished"
  <2>1. m.id \in RunId
    BY <1>4 DEF IsPending, ResultMessage
  <2>2. ShownAfter(s, m) = [s EXCEPT !.state = "finishing", !.number = {m.id}]
    BY <1>4 DEF ShownAfter
  <2>3. OutputsAfter(s.outputs, m, m.cell) = s.outputs
    BY <1>4 DEF OutputsAfter
  <2>4. NumberAfter(s.number, m, m.cell) = {m.id}
    BY <1>4 DEF NumberAfter
  <2>5. ShownAfter(s, m) \in StoreCell
    BY <1>1, <2>1, <2>2 DEF StoreCell, CellStates
  <2>6. QED
    BY <1>1, <1>4, <2>2, <2>3, <2>4, <2>5 DEF Beginnings
<1>5. CASE m.type \in {"execution_pending", "cell_idle"}
  <2>1. PICK st : st \in {"pending", "idle"} /\ ShownAfter(s, m) = [s EXCEPT !.state = st]
    BY <1>5 DEF ShownAfter
  <2>2. QED
    BY <1>1, <1>5, <2>1 DEF StoreCell, CellStates, OutputsAfter, NumberAfter
<1>6. QED
  BY <1>2, <1>3, <1>4, <1>5 DEF IsPending, ResultMessage

LEMMA ShowingEffect ==
  ASSUME NEW s, IsStore(s), NEW m, IsPending(m) \/ m \in ResultMessage,
         NEW t, t = Showing(s, m)
  PROVE  /\ IsStore(t)
         /\ t.session = s.session
         /\ t.since = s.since
         /\ t.stale = s.stale
         /\ t.version = s.version
         /\ t.deletions = s.deletions
         /\ DOMAIN t.shown = DOMAIN s.shown
         /\ \A x \in DOMAIN s.shown :
              t.shown[x] = IF s.session = "joined" /\ x = m.cell
                           THEN ShownAfter(s.shown[x], m) ELSE s.shown[x]
<1>1. CASE s.session # "joined" \/ m.cell \notin DOMAIN s.shown
  <2>1. t = s
    BY <1>1 DEF Showing
  <2>2. QED
    BY <1>1, <2>1
<1>2. CASE ~(s.session # "joined" \/ m.cell \notin DOMAIN s.shown)
  <2>1. PICK e : e = ShownAfter(s.shown[m.cell], m)
    OBVIOUS
  <2>2. t = [s EXCEPT !.shown[m.cell] = e]
    BY <1>2, <2>1 DEF Showing
  <2>3. e \in StoreCell
    BY <1>2, <2>1, ShownAfterEffect DEF IsStore, StoreCell
  <2>4. /\ DOMAIN t = DOMAIN s
        /\ t.session = s.session /\ t.since = s.since /\ t.stale = s.stale
        /\ t.version = s.version /\ t.deletions = s.deletions
        /\ t.shown = [s.shown EXCEPT ![m.cell] = e]
    BY <2>2 DEF IsStore
  <2>5. /\ DOMAIN t.shown = DOMAIN s.shown
        /\ \A x \in DOMAIN s.shown : t.shown[x] = IF x = m.cell THEN e ELSE s.shown[x]
    BY <2>4
  <2>6. IsStore(t)
    BY <2>3, <2>4, <2>5 DEF IsStore, StoreCell
  <2>7. QED
    BY <1>2, <2>1, <2>4, <2>5, <2>6
<1>3. QED
  BY <1>1, <1>2

Removes(s, m) == s.session = "joined" /\ ~(m.version <= s.version)

\* s becomes t by deletion m.
DeletesTo(s, m, t) ==
  /\ IsStore(t)
  /\ t.session = s.session /\ t.since = s.since /\ t.stale = s.stale
  /\ t.version = s.version
  /\ t.deletions = IF s.session = "joined" THEN s.deletions ELSE s.deletions \cup {m}
  /\ DOMAIN t.shown = IF Removes(s, m) THEN DOMAIN s.shown \ {m.cell} ELSE DOMAIN s.shown
  /\ \A x \in DOMAIN t.shown : t.shown[x] = s.shown[x]

LEMMA DeletedEffect ==
  ASSUME NEW s, IsStore(s), NEW m, IsDelete(m)
  PROVE  DeletesTo(s, m, Deleted(s, m))
<1> SUFFICES ASSUME NEW t, t = Deleted(s, m) PROVE DeletesTo(s, m, t)
  OBVIOUS
<1> USE DEF DeletesTo
<1>1. CASE s.session # "joined"
  <2>1. t = [s EXCEPT !.deletions = @ \cup {m}]
    BY <1>1 DEF Deleted
  <2>2. QED
    BY <1>1, <2>1 DEF IsStore, Removes
<1>2. CASE s.session = "joined" /\ m.version <= s.version
  BY <1>2 DEF Deleted, Removes
<1>3. CASE s.session = "joined" /\ ~(m.version <= s.version)
  <2>1. PICK n : n = Without(s.shown, m.cell)
    OBVIOUS
  <2>2. t = [s EXCEPT !.shown = n]
    BY <1>3, <2>1 DEF Deleted
  <2>3. /\ DOMAIN n = DOMAIN s.shown \ {m.cell}
        /\ \A x \in DOMAIN n : n[x] = s.shown[x]
    BY <2>1 DEF Without
  <2>4. QED
    BY <1>3, <2>2, <2>3 DEF IsStore, Removes
<1>4. QED
  BY <1>1, <1>2, <1>3

LEMMA JoinedEffect ==
  ASSUME NEW u, NEW m, IsState(m), kernel.sent \in Nat, NEW t, t = Joined(u, m)
  PROVE  /\ IsStore(t)
         /\ t.session = "joined" /\ t.since = kernel.sent /\ t.stale = m.stale
         /\ t.version = m.version /\ t.deletions = {}
         /\ DOMAIN t.shown = DOMAIN m.notebook \
              {d.cell : d \in {e \in client[u].deletions : e.version > m.version}}
         /\ \A x \in DOMAIN t.shown :
              /\ t.shown[x].outputs = m.notebook[x].outputs
              /\ t.shown[x].number = m.notebook[x].number
              /\ t.shown[x].state = StateOf(m, x)
<1>1. PICK X : X = DOMAIN m.notebook \
                     {d.cell : d \in {e \in client[u].deletions : e.version > m.version}}
  OBVIOUS
<1>2. PICK n : n = [x \in X |->
                 [outputs |-> m.notebook[x].outputs, number |-> m.notebook[x].number,
                  state |-> StateOf(m, x)]]
  OBVIOUS
<1>3. t = [session |-> "joined", since |-> kernel.sent, stale |-> m.stale,
           version |-> m.version, deletions |-> {}, shown |-> n]
  BY <1>1, <1>2 DEF Joined
<1>4. \A x \in X : StateOf(m, x) \in CellStates
  BY DEF StateOf, CellStates
<1>5. \A x \in X : n[x] \in [outputs : Seq(RunId), number : SUBSET RunId, state : CellStates]
  BY <1>1, <1>2, <1>4 DEF IsState, IsNotebook
<1>6. X \subseteq Cell /\ DOMAIN n = X /\ m.version \in Nat /\ m.stale \subseteq Cell
  BY <1>1, <1>2 DEF IsState, IsNotebook
<1>7. /\ DOMAIN t = {"session", "since", "stale", "version", "deletions", "shown"}
      /\ t.session = "joined" /\ t.since = kernel.sent /\ t.stale = m.stale
      /\ t.version = m.version /\ t.deletions = {} /\ t.shown = n
  BY <1>3
<1>8. IsStore(t)
  BY <1>5, <1>6, <1>7 DEF IsStore
<1>9. QED
  BY <1>1, <1>2, <1>6, <1>7, <1>8

\* Deletions are handled, or fall away, and with them their cells.
LEMMA CoversAfter ==
  ASSUME NEW c, NEW X, NEW Y, NEW v, NEW stale, Covers(c, X, v, stale),
         DOMAIN cell' = DOMAIN cell, Deletions(c)' \subseteq Deletions(c),
         Y \subseteq X, DOMAIN cell \cup stale \subseteq Y,
         \A e \in Deletions(c) : e.version > v /\ e.cell \in Y => e \in Deletions(c)'
  PROVE  Covers(c, Y, v, stale)'
<1>1. Version' = Version
  BY DEF Version
<1>2. \A x \in Y : \/ x \in DOMAIN cell' \cup stale
                   \/ \E e \in Deletions(c)' : e.version > v /\ e.cell = x
  BY DEF Covers
<1>3. QED
  BY <1>1, <1>2 DEF Covers

LEMMA ReceiveSent ==
  ASSUME ViewTypeInv, NEW u \in Viewer, Receive(u), NEW m, m = toClient[u][1]
  PROVE  /\ Sent(u) = Sent(u)' \cup {m}
         /\ \A k \in StatesSent(u)' :
              k + 1 \in StatesSent(u) /\ toClient'[u][k] = toClient[u][k + 1]
         /\ m.type = "full_state" => 1 \in StatesSent(u)
<1>1. PICK q, r, n : q = toClient[u] /\ r = toClient'[u] /\ n = Len(q)
  OBVIOUS
<1>2. /\ n \in Nat /\ n > 0 /\ Len(r) = n - 1 /\ m = q[1]
      /\ \A k \in 1..n - 1 : r[k] = q[k + 1]
  BY <1>1, ReceiveEffect
<1>3. {q[k] : k \in 1..n} = {r[k] : k \in 1..n - 1} \cup {m}
  <2>1. \A k \in 1..n : k = 1 \/ (k - 1 \in 1..n - 1 /\ q[k] = r[k - 1])
    BY <1>2
  <2>2. \A k \in 1..n - 1 : k + 1 \in 1..n /\ r[k] = q[k + 1]
    BY <1>2
  <2>3. 1 \in 1..n
    BY <1>2
  <2>4. {q[k] : k \in 1..n} \subseteq {r[k] : k \in 1..n - 1} \cup {m}
    BY <1>2, <2>1
  <2>5. {r[k] : k \in 1..n - 1} \cup {m} \subseteq {q[k] : k \in 1..n}
    BY <1>2, <2>2, <2>3
  <2>6. QED
    BY <2>4, <2>5
<1>4. Sent(u) = {q[k] : k \in 1..n} /\ Sent(u)' = {r[k] : k \in 1..n - 1}
  BY <1>1, <1>2 DEF Sent
<1>5. /\ StatesSent(u) = {k \in 1..n : q[k].type = "full_state"}
      /\ StatesSent(u)' = {k \in 1..n - 1 : r[k].type = "full_state"}
  BY <1>1, <1>2 DEF StatesSent
<1>6. \A k \in StatesSent(u)' : k + 1 \in StatesSent(u) /\ r[k] = q[k + 1]
  BY <1>2, <1>5
<1>7. m.type = "full_state" => 1 \in StatesSent(u)
  BY <1>2, <1>5
<1>8. QED
  BY <1>1, <1>3, <1>4, <1>6, <1>7

\* What a client makes of each kind of message.
LEMMA ReceiveCases ==
  ASSUME SyncInv, ViewTypeInv, NEW u \in Viewer, Receive(u), NEW m, m = toClient[u][1]
  PROVE  \/ IsState(m) /\ client'[u] = Joined(u, m)
         \/ IsDelete(m) /\ client'[u] = Deleted(client[u], m)
         \/ (IsPending(m) \/ m \in ResultMessage) /\ client'[u] = Showing(client[u], m)
<1>1. Head(toClient[u]) = m /\ IsMessage(m)
  BY ReceiveEffect
<1>2. client' = [client EXCEPT ![u] =
         CASE m.type = "full_state"  -> Joined(u, m)
           [] m.type = "cell_delete" -> Deleted(client[u], m)
           [] OTHER                  -> Showing(client[u], m)]
  BY <1>1 DEF Receive
<1>3. client'[u] = CASE m.type = "full_state"  -> Joined(u, m)
                     [] m.type = "cell_delete" -> Deleted(client[u], m)
                     [] OTHER                  -> Showing(client[u], m)
  BY <1>2 DEF ViewTypeInv
<1>4. CASE IsState(m)
  BY <1>3, <1>4 DEF IsState
<1>5. CASE IsDelete(m)
  BY <1>3, <1>5 DEF IsDelete
<1>6. CASE IsPending(m) \/ m \in ResultMessage
  BY <1>3, <1>6 DEF IsPending, ResultMessage
<1>7. QED
  BY <1>1, <1>4, <1>5, <1>6 DEF IsMessage

LEMMA ReceiveShown ==
  ASSUME SyncInv, ShownCellsInv, NEW u \in Viewer, Receive(u)
  PROVE  ShownCellsInv'
<1>1. /\ ViewTypeInv /\ JoinInv(u) /\ CoverInv(u) /\ IsStore(client[u])
      /\ UNCHANGED <<task, output, cell>> /\ kernel.sent \in Nat
  BY DEF ShownCellsInv, ViewTypeInv, Receive, queueVars, SyncInv, IInv, QueueInv,
         QueueTypeInv
<1>2. PICK m : m = toClient[u][1]
  OBVIOUS
<1>3. /\ Sent(u) = Sent(u)' \cup {m}
      /\ \A k \in StatesSent(u)' :
           k + 1 \in StatesSent(u) /\ toClient'[u][k] = toClient[u][k + 1]
      /\ m.type = "full_state" => 1 \in StatesSent(u)
  BY <1>1, <1>2, ReceiveSent
<1>4. \/ IsState(m) /\ client'[u] = Joined(u, m)
      \/ IsDelete(m) /\ client'[u] = Deleted(client[u], m)
      \/ (IsPending(m) \/ m \in ResultMessage) /\ client'[u] = Showing(client[u], m)
  BY <1>1, <1>2, ReceiveCases
<1>4a. IsDelete(m) /\ client'[u] = Deleted(client[u], m) =>
         DeletesTo(client[u], m, client'[u])
  BY <1>1, DeletedEffect
<1>5. IsStore(client'[u])
  <2>1. CASE IsState(m) /\ client'[u] = Joined(u, m)
    BY <1>1, <2>1, JoinedEffect
  <2>2. CASE IsDelete(m) /\ client'[u] = Deleted(client[u], m)
    BY <1>4a, <2>2 DEF DeletesTo
  <2>3. CASE /\ IsPending(m) \/ m \in ResultMessage
             /\ client'[u] = Showing(client[u], m)
    BY <1>1, <2>3, ShowingEffect
  <2>4. QED
    BY <1>4, <2>1, <2>2, <2>3
<1>6. ViewTypeInv'
  <2>1. \A c \in Viewer : IsStore(client'[c])
    BY <1>1, <1>5, ReceiveEffect DEF ViewTypeInv
  <2>2. ASSUME NEW c \in Viewer
        PROVE  /\ IsSequence(toClient'[c])
               /\ \A k \in 1..Len(toClient'[c]) : IsMessage(toClient'[c][k])
    <3>1. CASE c # u
      <4>1. toClient'[c] = toClient[c]
        BY <1>1, <3>1, ReceiveEffect
      <4>2. QED
        BY <1>1, <4>1 DEF ViewTypeInv
    <3>2. CASE c = u
      <4>1. PICK q, r, n : q = toClient[u] /\ r = toClient'[u] /\ n = Len(q)
        OBVIOUS
      <4>2. /\ n \in Nat /\ Len(r) = n - 1 /\ IsSequence(r)
            /\ \A k \in 1..n - 1 : r[k] = q[k + 1]
        BY <1>1, <4>1, ReceiveEffect
      <4>3. \A k \in 1..n : IsMessage(q[k])
        BY <1>1, <4>1 DEF ViewTypeInv
      <4>4. \A k \in 1..n - 1 : IsMessage(r[k])
        BY <4>2, <4>3
      <4>5. QED
        BY <3>2, <4>1, <4>2, <4>4
    <3>3. QED
      BY <3>1, <3>2
  <2>3. DOMAIN toClient' = Viewer /\ DOMAIN client' = Viewer
    BY <1>1, ReceiveEffect
  <2>4. QED
    BY <1>1, <2>1, <2>2, <2>3 DEF ViewTypeInv
<1>7. \A c : Owed(c)' = Owed(c)
  BY <1>1 DEF Owed
<1>8. ASSUME NEW c \in Viewer, c # u
      PROVE  JoinInv(c)' /\ CoverInv(c)'
  <2>1. toClient'[c] = toClient[c] /\ client'[c] = client[c]
    BY <1>1, <1>8, ReceiveEffect
  <2>2. StatesSent(c)' = StatesSent(c) /\ Sent(c)' = Sent(c)
    BY <2>1 DEF StatesSent, Sent
  <2>3. Deletions(c)' = Deletions(c)
    BY <1>7, <2>1, <2>2 DEF Deletions
  <2>4. JoinInv(c) /\ CoverInv(c)
    BY DEF ShownCellsInv
  <2>5. QED
    BY <1>1, <2>1, <2>2, <2>3, <2>4, ViewerKept
<1>9. /\ Deletions(u)' \subseteq Deletions(u)
      /\ \A e \in Deletions(u) :
           \/ e \in Deletions(u)'
           \/ e = m /\ IsDelete(m) /\ client[u].session = "joined"
           \/ e \in client[u].deletions /\ IsState(m)
  <2>1. CASE IsState(m) /\ client'[u] = Joined(u, m)
    <3>1. client'[u].deletions = {} /\ m.type = "full_state"
      BY <1>1, <2>1, JoinedEffect DEF IsState
    <3>2. QED
      BY <1>3, <1>7, <2>1, <3>1 DEF Deletions
  <2>2. CASE IsDelete(m) /\ client'[u] = Deleted(client[u], m)
    <3>1. /\ m.type = "cell_delete"
          /\ client'[u].deletions = IF client[u].session = "joined"
                                    THEN client[u].deletions
                                    ELSE client[u].deletions \cup {m}
      BY <1>4a, <2>2 DEF IsDelete, DeletesTo
    <3>2. QED
      BY <1>3, <1>7, <2>2, <3>1 DEF Deletions
  <2>3. CASE /\ IsPending(m) \/ m \in ResultMessage
             /\ client'[u] = Showing(client[u], m)
    <3>1. client'[u].deletions = client[u].deletions /\ m.type # "cell_delete"
      BY <1>1, <2>3, ShowingEffect DEF IsPending, ResultMessage
    <3>2. QED
      BY <1>3, <1>7, <3>1 DEF Deletions
  <2>4. QED
    BY <1>4, <2>1, <2>2, <2>3
<1>10. JoinInv(u)' /\ CoverInv(u)'
  <2>1. \A e \in Deletions(u)' : e.cell \notin DOMAIN cell' /\ e.version <= Version'
    BY <1>1, <1>9 DEF CoverInv, Version
  <2>2. task'[u].at = "notebook" => DOMAIN cell' \subseteq DOMAIN task'[u].cell
    BY <1>1 DEF CoverInv
  <2>3. CASE IsState(m) /\ client'[u] = Joined(u, m)
    <3>1. /\ 1 \in StatesSent(u) /\ client[u].session = "joining" /\ ~Reading(u)
      BY <1>1, <1>3, <2>3 DEF IsState, JoinInv
    <3>2. StatesSent(u)' = {}
      <4>1. ASSUME NEW k \in StatesSent(u)'
            PROVE  FALSE
        <5>1. k + 1 = 1 /\ k \in Nat /\ k > 0
          BY <1>1, <1>3, <3>1, <4>1 DEF JoinInv, StatesSent
        <5>2. QED
          BY <5>1
      <4>2. QED
        BY <4>1
    <3>3. PICK t : t = client'[u]
      OBVIOUS
    <3>4. /\ t.session = "joined" /\ t.stale = m.stale /\ t.version = m.version
          /\ t.deletions = {}
          /\ DOMAIN t.shown = DOMAIN m.notebook \
               {d.cell : d \in {e \in client[u].deletions : e.version > m.version}}
      BY <1>1, <2>3, <3>3, JoinedEffect
    <3>5. JoinInv(u)'
      BY <1>1, <3>1, <3>2, <3>3, <3>4 DEF JoinInv, Reading
    <3>6. Covers(u, DOMAIN m.notebook, m.version, m.stale)
      BY <1>1, <1>2, <3>1 DEF CoverInv
    <3>7. client[u].deletions \subseteq Deletions(u)
      BY DEF Deletions
    <3>8. DOMAIN cell \cup m.stale \subseteq DOMAIN t.shown
      BY <1>1, <3>4, <3>6, <3>7 DEF Covers, CoverInv
    <3>9. \A e \in Deletions(u) :
            e.version > m.version /\ e.cell \in DOMAIN t.shown => e \in Deletions(u)'
      BY <1>9, <2>3, <3>1, <3>4
    <3>10. PICK X, Y, v, stale : /\ X = DOMAIN m.notebook /\ Y = DOMAIN t.shown
                                 /\ v = m.version /\ stale = m.stale
      OBVIOUS
    <3>11. Y \subseteq X
      BY <3>4, <3>10
    <3>12. Covers(u, Y, v, stale)'
      BY <1>1, <1>9, <3>6, <3>8, <3>9, <3>10, <3>11, CoversAfter
    <3>13. (Covers(u, DOMAIN client[u].shown, client[u].version, client[u].stale))'
      BY <3>3, <3>4, <3>10, <3>12 DEF Covers
    <3>14. CoverInv(u)'
      BY <1>1, <2>1, <2>2, <3>1, <3>2, <3>13 DEF CoverInv, Reading
    <3>15. QED
      BY <3>5, <3>14
  <2>4. CASE ~IsState(m)
    <3>1. PICK t : t = client'[u]
      OBVIOUS
    <3>2. /\ t.session = client[u].session /\ t.stale = client[u].stale
          /\ t.version = client[u].version
          /\ client[u].session = "joined" => t.deletions = client[u].deletions
          /\ DOMAIN t.shown = IF IsDelete(m) /\ Removes(client[u], m)
                              THEN DOMAIN client[u].shown \ {m.cell}
                              ELSE DOMAIN client[u].shown
      <4>1. CASE IsDelete(m) /\ client'[u] = Deleted(client[u], m)
        BY <1>4a, <3>1, <4>1 DEF DeletesTo
      <4>2. CASE /\ IsPending(m) \/ m \in ResultMessage
                 /\ client'[u] = Showing(client[u], m)
        <5>1. ~IsDelete(m)
          BY <4>2 DEF IsDelete, IsPending, ResultMessage
        <5>2. QED
          BY <1>1, <3>1, <4>2, <5>1, ShowingEffect
      <4>3. QED
        BY <1>4, <2>4, <4>1, <4>2
    <3>3. \A i, j \in StatesSent(u)' : i = j
      <4>1. \A i \in StatesSent(u)' : i + 1 \in StatesSent(u)
        BY <1>3
      <4>2. \A i, j \in StatesSent(u) : i = j
        BY <1>1 DEF JoinInv
      <4>3. \A i \in StatesSent(u)' : i \in Int
        BY DEF StatesSent
      <4>4. QED
        BY <4>1, <4>2, <4>3
    <3>4. StatesSent(u)' # {} => StatesSent(u) # {}
      BY <1>3
    <3>5. JoinInv(u)'
      BY <1>1, <3>1, <3>2, <3>3, <3>4 DEF JoinInv, Reading
    <3>6. \A e \in Deletions(u) :
            \/ e \in Deletions(u)'
            \/ e = m /\ IsDelete(m) /\ client[u].session = "joined"
      BY <1>9, <2>4
    <3>7. ASSUME NEW X, NEW v, NEW stale, Covers(u, X, v, stale),
                 client[u].session # "joined"
          PROVE  Covers(u, X, v, stale)'
      <4>1. DOMAIN cell \cup stale \subseteq X
        BY <3>7 DEF Covers
      <4>2. \A e \in Deletions(u) : e \in Deletions(u)'
        BY <3>6, <3>7
      <4>3. DOMAIN cell' = DOMAIN cell
        BY <1>1
      <4>4. QED
        BY <1>9, <3>7, <4>1, <4>2, <4>3, CoversAfter
    <3>8. (task[u].at = "state" =>
             Covers(u, DOMAIN task[u].message.notebook, task[u].message.version,
                    task[u].message.stale))'
      <4>1. PICK X, v, stale : /\ X = DOMAIN task[u].message.notebook
                               /\ v = task[u].message.version
                               /\ stale = task[u].message.stale
        OBVIOUS
      <4>2. task[u].at = "state" => Covers(u, X, v, stale)'
        BY <1>1, <3>7, <4>1 DEF CoverInv, JoinInv, Reading
      <4>3. QED
        BY <1>1, <4>1, <4>2 DEF Covers
    <3>9. (\A k \in StatesSent(u) :
             Covers(u, DOMAIN toClient[u][k].notebook, toClient[u][k].version,
                    toClient[u][k].stale))'
      <4>1. ASSUME NEW k \in StatesSent(u)'
            PROVE  (Covers(u, DOMAIN toClient[u][k].notebook, toClient[u][k].version,
                           toClient[u][k].stale))'
        <5>1. PICK s : s = toClient[u][k + 1]
          OBVIOUS
        <5>2. k + 1 \in StatesSent(u) /\ toClient'[u][k] = s
          BY <1>3, <4>1, <5>1
        <5>3. PICK X, v, stale : X = DOMAIN s.notebook /\ v = s.version /\ stale = s.stale
          OBVIOUS
        <5>4. Covers(u, X, v, stale) /\ client[u].session # "joined"
          BY <1>1, <5>1, <5>2, <5>3 DEF CoverInv, JoinInv
        <5>5. Covers(u, X, v, stale)'
          BY <3>7, <5>4
        <5>6. QED
          BY <5>2, <5>3, <5>5 DEF Covers
      <4>2. QED
        BY <4>1
    <3>10. (client[u].session = "joined" =>
              Covers(u, DOMAIN client[u].shown, client[u].version, client[u].stale))'
      <4>1. SUFFICES ASSUME client[u].session = "joined"
            PROVE (Covers(u, DOMAIN client[u].shown, client[u].version, client[u].stale))'
        BY <3>1, <3>2
      <4>2. PICK X, Y, v, stale : /\ X = DOMAIN client[u].shown /\ Y = DOMAIN t.shown
                                  /\ v = client[u].version /\ stale = client[u].stale
        OBVIOUS
      <4>3. Covers(u, X, v, stale)
        BY <1>1, <4>1, <4>2 DEF CoverInv
      <4>4. IsDelete(m) => m \in Deletions(u) /\ m.version \in Nat /\ v \in Nat
        BY <1>1, <1>3, <4>2 DEF Deletions, IsDelete, IsStore
      <4>4a. IsDelete(m) => (Removes(client[u], m) <=> m.version > v)
        BY <4>1, <4>2, <4>4 DEF Removes
      <4>5. Y \subseteq X /\ DOMAIN cell \cup stale \subseteq Y
        BY <1>1, <3>2, <4>2, <4>3, <4>4, <4>4a DEF Covers, CoverInv
      <4>6. \A e \in Deletions(u) : e.version > v /\ e.cell \in Y => e \in Deletions(u)'
        BY <3>2, <3>6, <4>2, <4>4a
      <4>7. DOMAIN cell' = DOMAIN cell
        BY <1>1
      <4>8. Covers(u, Y, v, stale)'
        BY <1>9, <4>3, <4>5, <4>6, <4>7, CoversAfter
      <4>9. QED
        BY <3>1, <3>2, <4>2, <4>8 DEF Covers
    <3>11. (task[u].at = "version" =>
              Covers(u, DOMAIN task[u].cell, task[u].version, task[u].stale))'
      <4>1. PICK X, v, stale : /\ X = DOMAIN task[u].cell /\ v = task[u].version
                               /\ stale = task[u].stale
        OBVIOUS
      <4>2. task[u].at = "version" => Covers(u, X, v, stale)'
        BY <1>1, <3>7, <4>1 DEF CoverInv, JoinInv, Reading
      <4>3. QED
        BY <1>1, <4>1, <4>2 DEF Covers
    <3>12. CoverInv(u)'
      BY <2>1, <2>2, <3>8, <3>9, <3>10, <3>11 DEF CoverInv
    <3>13. QED
      BY <3>5, <3>12
  <2>5. QED
    BY <1>4, <2>3, <2>4 DEF IsState, IsDelete, IsPending, ResultMessage
<1>11. QED
  BY <1>6, <1>8, <1>10 DEF ShownCellsInv

LEMMA HandleOutputEffect ==
  ASSUME SyncInv, HandleOutput, NEW r, r = Head(results)
  PROVE  /\ r \in ResultMessage /\ r = results[1]
         /\ output = Idle /\ UNCHANGED <<pending, task, kernelVars, toClient, client>>
         /\ r.cell \in DOMAIN cell =>
              /\ cell' = [cell EXCEPT ![r.cell] = CellAfter(@, r)]
              /\ output' = Telling(r)
         /\ r.cell \notin DOMAIN cell =>
              /\ cell' = cell
              /\ output' = IF r.type = "cell_idle" THEN Telling(r) ELSE Idle
         /\ DOMAIN cell' = DOMAIN cell
<1>1. results \in Seq(ResultMessage) /\ results # <<>>
  BY DEF SyncInv, IInv, QueueInv, QueueTypeInv, HandleOutput
<1>2. r \in ResultMessage /\ r = results[1]
  BY <1>1, TailRange
<1>3. /\ output = Idle /\ UNCHANGED <<pending, task, kernelVars, toClient, client>>
      /\ r.cell \in DOMAIN cell =>
           /\ cell' = [cell EXCEPT ![r.cell] = CellAfter(@, r)]
           /\ output' = Telling(r)
      /\ r.cell \notin DOMAIN cell =>
           /\ cell' = cell
           /\ output' = IF r.type = "cell_idle" THEN Telling(r) ELSE Idle
  BY DEF HandleOutput
<1>4. DOMAIN cell' = DOMAIN cell
  BY <1>3
<1>5. QED
  BY <1>2, <1>3, <1>4

LEMMA HandleOutputShown ==
  ASSUME SyncInv, ShownCellsInv, HandleOutput
  PROVE  ShownCellsInv'
<1>1. PICK r : r = Head(results)
  OBVIOUS
<1>2. /\ UNCHANGED <<task, toClient, client>> /\ DOMAIN cell' = DOMAIN cell
      /\ r \in ResultMessage /\ (output' = Telling(r) \/ output' = Idle)
  BY <1>1, HandleOutputEffect
<1>3. IsOutputTask(Telling(r)) /\ IsOutputTask(Idle)
  <2>1. /\ Telling(r).at = "telling" /\ Telling(r).message = r
        /\ {"at", "message"} \subseteq DOMAIN Telling(r)
    BY DEF Telling
  <2>2. QED
    BY <1>2, <2>1 DEF IsOutputTask
<1>4. QED
  BY <1>2, <1>3, ServerStepShown

\* What BeginOutput does to those who are owed the result.
LEMMA BeginOutputEffect ==
  ASSUME ViewTypeInv, BeginOutput
  PROVE  /\ UNCHANGED <<queueVars, cell, toClient, client>>
         /\ output.at = "telling" /\ output'.at \in {"idle", "broadcast"}
         /\ IsOutputTask(output')
         /\ \A c \in Viewer : /\ Owes(output', c) <=> client[c].session # "away"
                              /\ Owes(output', c) => output'.message = output.message
         /\ output.message \in ResultMessage
<1>1. PICK m : m = output.message
  OBVIOUS
<1>2. /\ output.at = "telling" /\ output' = Broadcasting(m)
      /\ UNCHANGED <<queueVars, cell, toClient, client>>
  BY <1>1 DEF BeginOutput
<1>3. m \in ResultMessage
  <2>1. output # Idle
    BY <1>2 DEF Idle
  <2>2. QED
    BY <1>1, <2>1 DEF ViewTypeInv, IsOutputTask
<1>4. PICK t : t = Broadcasting(m)
  OBVIOUS
<1>5. /\ \A c : Owes(t, c) <=> c \in Connected
      /\ t.at \in {"idle", "broadcast"}
      /\ \/ t = Idle
         \/ /\ t.at = "broadcast" /\ t.message = m /\ t.rest = Connected
            /\ {"at", "rest", "message"} \subseteq DOMAIN t
      /\ Idle.at = "idle"
  BY <1>4, BroadcastingEffect
<1>6. Connected \subseteq Viewer
  BY DEF Connected
<1>7. IsOutputTask(t) /\ \A c : Owes(t, c) => t.message = m
  BY <1>3, <1>5, <1>6 DEF IsOutputTask, Owes
<1>8. \A c \in Viewer : c \in Connected <=> client[c].session # "away"
  BY DEF Connected
<1>9. QED
  BY <1>1, <1>2, <1>3, <1>4, <1>5, <1>7, <1>8

LEMMA BeginOutputShown ==
  ASSUME ShownCellsInv, BeginOutput
  PROVE  ShownCellsInv'
<1>1. UNCHANGED <<queueVars, cell, toClient, client>> /\ IsOutputTask(output')
  BY BeginOutputEffect DEF ShownCellsInv
<1>2. \A k \in Client : task'[k] = task[k]
  BY <1>1 DEF queueVars
<1>3. QED
  BY <1>1, <1>2, ServerStepShown

LEMMA InitShown == Init => ShownCellsInv
<1> SUFFICES ASSUME Init PROVE ShownCellsInv
  OBVIOUS
<1>1. /\ \A c \in Client : task[c] = Idle
      /\ output = Idle /\ DOMAIN cell = Cell
      /\ DOMAIN toClient = Viewer /\ DOMAIN client = Viewer
      /\ \A c \in Viewer : toClient[c] = <<>>
  BY DEF Init, QueueInit
<1>2. Idle.at = "idle"
  BY DEF Idle
<1>3. <<>> \in Seq(RunId) /\ Len(<<>>) = 0 /\ IsSequence(<<>>)
  BY EmptySeq DEF IsSequence
<1>4. ASSUME NEW c \in Viewer
      PROVE  /\ IsStore(client[c])
             /\ client[c].session # "joining" /\ client[c].deletions = {}
             /\ client[c].version = 0 /\ client[c].stale = {}
             /\ DOMAIN client[c].shown = Cell
  <2>1. PICK n : n = [x \in Cell |-> [outputs |-> <<>>, number |-> None, state |-> "idle"]]
    OBVIOUS
  <2>2. client[c] = [session |-> IF c \in Joiner THEN "away" ELSE "joined", since |-> 0,
                     stale |-> {}, version |-> 0, deletions |-> {}, shown |-> n]
    BY <2>1 DEF Init
  <2>3. \A x \in Cell :
          n[x] \in [outputs : Seq(RunId), number : SUBSET RunId, state : CellStates]
    BY <1>3, <2>1 DEF None, CellStates
  <2>4. QED
    BY <2>1, <2>2, <2>3 DEF IsStore
<1>5. ViewTypeInv
  <2>1. \A c \in Viewer :
          /\ IsSequence(toClient[c]) /\ \A k \in 1..Len(toClient[c]) : IsMessage(toClient[c][k])
    BY <1>1, <1>3
  <2>2. \A c \in Client : IsTask(task[c])
    BY <1>1, <1>2 DEF IsTask
  <2>3. QED
    BY <1>1, <1>4, <2>1, <2>2 DEF ViewTypeInv, IsOutputTask
<1>6. ASSUME NEW c \in Viewer
      PROVE  JoinInv(c) /\ CoverInv(c)
  <2>1. /\ StatesSent(c) = {} /\ Sent(c) = {} /\ Owed(c) = {}
        /\ task[c].at = "idle"
    BY <1>1, <1>2, <1>3, ViewAssumption DEF StatesSent, Sent, Owed, Owes
  <2>2. JoinInv(c)
    BY <1>4, <2>1 DEF JoinInv, Reading
  <2>3. Deletions(c) = {}
    BY <1>4, <2>1 DEF Deletions
  <2>4. Covers(c, Cell, 0, {})
    BY <1>1, <2>3, VersionIsNatural DEF Covers
  <2>5. CoverInv(c)
    BY <1>4, <2>1, <2>3, <2>4 DEF CoverInv
  <2>6. QED
    BY <2>2, <2>5
<1>7. QED
  BY <1>5, <1>6 DEF ShownCellsInv

----------------------------------------------------------------------------
(* Before anything is sent to the kernel. *)

LEMMA QueueStepBlank ==
  ASSUME SyncInv, ShownCellsInv, BlankInv, QueueStep, kernel'.sent = 0
  PROVE  BlankInv'
<1>1. /\ UNCHANGED <<output, cell, toClient, client>>
      /\ DOMAIN task = Client /\ DOMAIN kernel = {"requests", "phase", "printed", "sent"}
      /\ kernel.sent \in Nat
      /\ \A x \in DOMAIN pending :
           pending[x] \in [id : SUBSET RunId, status : {"pending", "executing"}]
  BY DEF QueueStep, viewVars, SyncInv, IInv, QueueInv, QueueTypeInv
<1>2. ASSUME NEW c \in Client, Submit(c)
      PROVE  FALSE
  <2>1. PICK q : kernel' = [kernel EXCEPT !.requests = q, !.sent = @ + 1]
    BY <1>2 DEF Submit
  <2>2. kernel'.sent = kernel.sent + 1
    BY <1>1, <2>1
  <2>3. QED
    BY <1>1, <2>2
<1>3. CASE Kernel
  <2>1. kernel.sent = 0
    BY <1>1, <1>3 DEF Kernel, KernelBusy, KernelPrints, KernelReplies, KernelIdle
  <2>2. QED
    BY <1>3, <2>1 DEF BlankInv, BlankServer, Kernel, KernelBusy, KernelPrints,
                      KernelReplies, KernelIdle, Requests
<1>4. CASE ReceiveIopub \/ ReceiveShell
  BY <1>4 DEF ReceiveIopub, ReceiveShell, TakeAnswer, BlankInv, BlankServer
<1>5. ASSUME NEW d \in Client, Run(d) \/ SubmitFails(d) \/ Announce(d) \/ Abort(d)
      PROVE  BlankInv'
  <2>1. UNCHANGED <<kernel, iopub, shell, results>> /\ kernel.sent = 0
    BY <1>5 DEF Run, Register, SubmitFails, Announce, NameThen, Abort, kernelVars
  <2>2. BlankServer /\ \A c \in Viewer : BlankViewer(c)
    BY <2>1 DEF BlankInv
  <2>3. \A x \in DOMAIN pending' : pending'[x].status # "executing"
    <3>1. CASE Run(d)
      <4>1. PICK x : pending' = With(pending, x, [id |-> None, status |-> "pending"])
        BY <3>1 DEF Run, Register
      <4>2. QED
        BY <2>2, <4>1 DEF With, BlankServer
    <3>2. CASE SubmitFails(d)
      BY <2>2, <3>2 DEF SubmitFails, Without, BlankServer
    <3>3. CASE Announce(d)
      <4>1. PICK x, id : pending' = IF x \in DOMAIN pending
                                    THEN [pending EXCEPT ![x].id = id] ELSE pending
        BY <3>3 DEF Announce, NameThen
      <4>2. QED
        BY <1>1, <2>2, <4>1 DEF BlankServer
    <3>4. CASE Abort(d)
      BY <2>2, <3>4 DEF Abort, BlankServer
    <3>5. QED
      BY <1>5, <3>1, <3>2, <3>3, <3>4
  <2>4. BlankServer'
    BY <1>1, <2>1, <2>2, <2>3 DEF BlankServer, Requests
  <2>5. ASSUME NEW c \in Viewer
        PROVE  BlankViewer(c)'
    <3>1. \/ task'[c] = task[c]
          \/ IsAside(task'[c]) \/ TellsRun(task'[c])
      BY QueueStepTasks, ViewAssumption
    <3>2. QED
      BY <1>1, <2>2, <3>1 DEF BlankViewer, IsAside, TellsRun
  <2>6. QED
    BY <2>4, <2>5 DEF BlankInv
<1>6. QED
  BY <1>2, <1>3, <1>4, <1>5 DEF QueueStep

\* Messages that come to a viewer, one at a time.
LEMMA DeliverBlank ==
  ASSUME ViewTypeInv, NEW d \in Viewer, NEW m, Deliver(d, m), IsMessage(m), IsCalm(m),
         NEW c \in Viewer, BlankViewer(c)
  PROVE  \A k \in 1..Len(toClient'[c]) : IsCalm(toClient'[c][k])
<1>1. CASE c # d
  <2>1. toClient'[c] = toClient[c]
    BY <1>1, DeliverEffect
  <2>2. QED
    BY <2>1 DEF BlankViewer
<1>2. CASE c = d
  <2>1. PICK q, r, n : q = toClient[c] /\ r = toClient'[c] /\ n = Len(q)
    OBVIOUS
  <2>2. /\ Len(r) = n + 1 /\ n \in Nat /\ \A k \in 1..n : r[k] = q[k]
        /\ r[n + 1] = m /\ \A k \in 1..n : IsCalm(q[k])
    BY <1>2, <2>1, DeliverEffect DEF BlankViewer
  <2>3. \A k \in 1..n + 1 : IsCalm(r[k])
    BY <2>2
  <2>4. QED
    BY <2>1, <2>2, <2>3
<1>3. QED
  BY <1>1, <1>2

LEMMA BlankStep ==
  ASSUME SyncInv, ShownCellsInv, BlankInv, [Next]_vars
  PROVE  BlankInv'
<1> SUFFICES ASSUME kernel'.sent = 0 PROVE BlankInv'
  BY DEF BlankInv
<1>1. CASE QueueStep
  BY <1>1, QueueStepBlank
<1>2. ASSUME ~QueueStep
      PROVE  BlankInv'
  <2>1. UNCHANGED <<kernel, iopub, shell, pending>>
    BY <1>2 DEF Next, Send, DeleteCell, Receive, BeginSending, Connect, ReadNotebook,
                ReadVersion, ReadExecutions, SendState, HandleOutput, BeginOutput,
                SendOutput, vars, queueVars, viewVars, kernelVars
  <2>2. BlankServer /\ \A c \in Viewer : BlankViewer(c)
    BY <2>1 DEF BlankInv
  <2>3. /\ ViewTypeInv /\ DOMAIN task = Client /\ ~HandleOutput /\ ~SendOutput /\ ~BeginOutput
        /\ \A c \in Viewer : c \in Client
    BY <2>2, ViewAssumption DEF BlankServer, HandleOutput, BeginOutput, SendOutput, Idle,
                                ShownCellsInv, SyncInv, IInv, QueueInv, QueueTypeInv
  <2>4. CASE UNCHANGED vars
    BY <2>2, <2>4 DEF vars, queueVars, viewVars, BlankInv, BlankServer, BlankViewer, kernelVars,
                      Requests
  <2>5. ASSUME NEW k \in Client, Send(k)
        PROVE  BlankInv'
    <3>1. PICK d, m, t :
            /\ task[k].at = "broadcast" /\ m = task[k].message
            /\ d \in task[k].rest /\ Deliver(d, m)
            /\ t = (IF task[k].rest = {d} THEN Idle ELSE [task[k] EXCEPT !.rest = @ \ {d}])
            /\ task' = [task EXCEPT ![k] = t]
      BY <2>5 DEF Send, SetTask
    <3>2. /\ IsPending(m) \/ IsDelete(m)
          /\ d \in Viewer
      BY <2>3, <3>1 DEF ViewTypeInv, IsTask
    <3>3. IsMessage(m) /\ IsCalm(m)
      BY <3>2 DEF IsMessage, IsCalm, IsPending, IsDelete, ResultTypes
    <3>4. t.at \notin {"notebook", "version", "state"}
      <4>1. "at" \in DOMAIN task[k]
        BY DEF SyncInv, NotebookInv, SyncTypeInv
      <4>2. QED
        BY <3>1, <4>1 DEF Idle
    <3>5. \A c \in Viewer : task'[c] = task[c] \/ task'[c].at \notin {"notebook", "version", "state"}
      BY <2>3, <3>1, <3>4
    <3>6. ASSUME NEW c \in Viewer
          PROVE  BlankViewer(c)'
      <4>1. \A j \in 1..Len(toClient'[c]) : IsCalm(toClient'[c][j])
        BY <2>2, <2>3, <3>1, <3>2, <3>3, DeliverBlank
      <4>2. QED
        BY <2>2, <3>5, <4>1 DEF BlankViewer
    <3>7. BlankServer'
      BY <2>1, <2>2, <2>5 DEF BlankServer, Requests, Send
    <3>8. QED
      BY <3>6, <3>7 DEF BlankInv
  <2>6. ASSUME NEW k \in Client, NEW x \in DOMAIN cell, DeleteCell(k, x)
        PROVE  BlankInv'
    <3>1. PICK m : task' = [task EXCEPT ![k] = Telling(m)]
      BY <2>6 DEF DeleteCell, SetTask
    <3>2. Telling(m).at \notin {"notebook", "version", "state"}
      BY DEF Telling
    <3>3. \A c \in Viewer : task'[c] = task[c] \/ task'[c].at \notin {"notebook", "version", "state"}
      BY <2>3, <3>1, <3>2
    <3>4. IsBlank(cell')
      BY <2>2, <2>6 DEF BlankServer, IsBlank, DeleteCell, Without
    <3>5. BlankServer'
      BY <2>1, <2>2, <2>6, <3>4 DEF BlankServer, Requests, DeleteCell
    <3>6. \A c \in Viewer : BlankViewer(c)'
      BY <2>2, <2>6, <3>3 DEF BlankViewer, DeleteCell
    <3>7. QED
      BY <3>5, <3>6 DEF BlankInv
  <2>7. ASSUME NEW u \in Viewer, Receive(u)
        PROVE  BlankInv'
    <3>1. ASSUME NEW c \in Viewer
          PROVE  BlankViewer(c)'
      <4>1. task'[c] = task[c]
        BY <2>7 DEF Receive, queueVars
      <4>2. CASE c # u
        <5>1. toClient'[c] = toClient[c]
          BY <2>3, <2>7, <4>2, ReceiveEffect
        <5>2. QED
          BY <2>2, <4>1, <5>1 DEF BlankViewer
      <4>3. CASE c = u
        <5>1. PICK q, r, n : q = toClient[c] /\ r = toClient'[c] /\ n = Len(q)
          OBVIOUS
        <5>2. /\ n \in Nat /\ Len(r) = n - 1 /\ \A k \in 1..n - 1 : r[k] = q[k + 1]
              /\ \A k \in 1..n : IsCalm(q[k])
          BY <2>2, <2>3, <2>7, <4>3, <5>1, ReceiveEffect DEF BlankViewer
        <5>3. \A k \in 1..n - 1 : IsCalm(r[k])
          BY <5>2
        <5>4. \A k \in 1..Len(toClient'[c]) : IsCalm(toClient'[c][k])
          BY <5>1, <5>2, <5>3
        <5>5. QED
          BY <2>2, <4>1, <5>4 DEF BlankViewer
      <4>4. QED
        BY <4>2, <4>3
    <3>2. BlankServer'
      BY <2>1, <2>2, <2>7 DEF BlankServer, Requests, Receive, queueVars
    <3>3. QED
      BY <3>1, <3>2 DEF BlankInv
  <2>8. ASSUME NEW u \in Viewer, ReadNotebook(u)
        PROVE  BlankInv'
    <3>1. PICK t : t = [at |-> "notebook", cell |-> cell] /\ task' = [task EXCEPT ![u] = t]
      BY <2>8 DEF ReadNotebook, SetTask
    <3>2. t.at = "notebook" /\ IsBlank(t.cell)
      BY <2>2, <3>1 DEF BlankServer
    <3>3. \A c \in Viewer : task'[c] = task[c] \/ task'[c] = t
      BY ONLY <2>3, <3>1
    <3>4. \A c \in Viewer : BlankViewer(c)'
      BY <2>2, <2>8, <3>2, <3>3 DEF BlankViewer, ReadNotebook, viewVars
    <3>5. BlankServer'
      BY <2>1, <2>2, <2>8 DEF BlankServer, Requests, ReadNotebook, viewVars
    <3>6. QED
      BY <3>4, <3>5 DEF BlankInv
  <2>9. ASSUME NEW u \in Viewer, ReadExecutions(u)
        PROVE  BlankInv'
    <3>1. PICK m, t :
            /\ m = [type |-> "full_state", notebook |-> task[u].cell,
                    version |-> task[u].version, stale |-> task[u].stale,
                    pending |-> [x \in DOMAIN pending |-> pending[x].status]]
            /\ t = [at |-> "state", message |-> m]
            /\ task' = [task EXCEPT ![u] = t]
      BY <2>9 DEF ReadExecutions, SetTask
    <3>2. IsBlank(m.notebook) /\ \A x \in DOMAIN m.pending : m.pending[x] # "executing"
      BY <2>2, <2>9, <3>1 DEF ReadExecutions, BlankViewer, BlankServer
    <3>3. t.at = "state" /\ IsBlankState(t.message)
      BY <3>1, <3>2 DEF IsBlankState
    <3>4. \A c \in Viewer : task'[c] = task[c] \/ task'[c] = t
      BY <2>3, <3>1
    <3>5. \A c \in Viewer : BlankViewer(c)'
      BY <2>2, <2>9, <3>3, <3>4 DEF BlankViewer, ReadExecutions, viewVars
    <3>6. BlankServer'
      BY <2>1, <2>2, <2>9 DEF BlankServer, Requests, ReadExecutions, viewVars
    <3>7. QED
      BY <3>5, <3>6 DEF BlankInv
  <2>10. ASSUME NEW u \in Viewer, SendState(u)
         PROVE  BlankInv'
    <3>1. PICK m : /\ task[u].at = "state" /\ m = task[u].message /\ Deliver(u, m)
                   /\ task' = [task EXCEPT ![u] = Idle]
      BY <2>10 DEF SendState, SetTask
    <3>2. IsState(m) /\ IsBlankState(m)
      BY <2>2, <2>3, <3>1 DEF ViewTypeInv, IsTask, BlankViewer
    <3>3. IsMessage(m) /\ IsCalm(m)
      BY <3>2 DEF IsMessage, IsCalm, IsState, ResultTypes
    <3>4. \A c \in Viewer : task'[c] = task[c] \/ task'[c].at = "idle"
      BY <2>3, <3>1 DEF Idle
    <3>5. ASSUME NEW c \in Viewer
          PROVE  BlankViewer(c)'
      <4>1. \A j \in 1..Len(toClient'[c]) : IsCalm(toClient'[c][j])
        BY <2>2, <2>3, <3>1, <3>3, DeliverBlank
      <4>2. QED
        BY <2>2, <3>4, <4>1 DEF BlankViewer
    <3>6. BlankServer'
      BY <2>1, <2>2, <2>10 DEF BlankServer, Requests, SendState
    <3>7. QED
      BY <3>5, <3>6 DEF BlankInv
  <2>11. \A c \in Deleter, x \in DOMAIN cell : DeleteCell(c, x) => BlankInv'
    <3>1. ASSUME NEW c \in Deleter, NEW x \in DOMAIN cell, DeleteCell(c, x)
          PROVE  BlankInv'
      BY <2>6, <3>1, ViewAssumption
    <3>2. QED
      BY <3>1
  <2>12. ASSUME NEW u \in Viewer, Connect(u)
         PROVE  BlankInv'
    <3>1. PICK t : t = [at |-> "connected"] /\ task' = [task EXCEPT ![u] = t]
      BY <2>12 DEF Connect, SetTask
    <3>2. \A c \in Viewer : task'[c] = task[c] \/ task'[c].at = "connected"
      BY <2>3, <3>1
    <3>3. \A c \in Viewer : BlankViewer(c)'
      BY <2>2, <2>12, <3>2 DEF BlankViewer, Connect
    <3>4. BlankServer'
      BY <2>1, <2>2, <2>12 DEF BlankServer, Requests, Connect
    <3>5. QED
      BY <3>3, <3>4 DEF BlankInv
  <2>13. ASSUME NEW u \in Viewer, ReadVersion(u)
         PROVE  BlankInv'
    <3>1. PICK t :
            /\ t = [at |-> "version", cell |-> task[u].cell, version |-> Version,
                    stale |-> DOMAIN task[u].cell \ DOMAIN cell]
            /\ task' = [task EXCEPT ![u] = t]
      BY <2>13 DEF ReadVersion, SetTask
    <3>2. t.at = "version" /\ IsBlank(t.cell)
      BY <2>2, <2>13, <3>1 DEF ReadVersion, BlankViewer
    <3>3. \A c \in Viewer : task'[c] = task[c] \/ task'[c] = t
      BY <2>3, <3>1
    <3>4. \A c \in Viewer : BlankViewer(c)'
      BY <2>2, <2>13, <3>2, <3>3 DEF BlankViewer, ReadVersion, viewVars
    <3>5. BlankServer'
      BY <2>1, <2>2, <2>13 DEF BlankServer, Requests, ReadVersion, viewVars
    <3>6. QED
      BY <3>4, <3>5 DEF BlankInv
  <2>14. ASSUME NEW k \in Client, BeginSending(k)
         PROVE  BlankInv'
    <3>1. /\ UNCHANGED <<output, cell, toClient, client, results>>
          /\ task'[k].at \in {"idle", "broadcast"}
          /\ \A j \in Client \ {k} : task'[j] = task[j]
      BY <2>14, BeginSendingEffect
    <3>2. \A c \in Viewer : \/ task'[c] = task[c]
                            \/ task'[c].at \notin {"notebook", "version", "state"}
      BY <2>3, <3>1
    <3>3. \A c \in Viewer : BlankViewer(c)'
      BY <2>2, <3>1, <3>2 DEF BlankViewer
    <3>4. BlankServer'
      BY <2>1, <2>2, <3>1 DEF BlankServer, Requests
    <3>5. QED
      BY <3>3, <3>4 DEF BlankInv
  <2>15. QED
    BY <1>2, <2>3, <2>4, <2>5, <2>7, <2>8, <2>9, <2>10, <2>11, <2>12, <2>13, <2>14 DEF Next
<1>3. QED
  BY <1>1, <1>2

----------------------------------------------------------------------------
(* The ends of the runs. *)

\* The handling of a result takes the first away.
LEMMA ResultTaken ==
  ASSUME SyncInv, HandleOutput, NEW r, r = Head(results)
  PROVE  /\ \A j \in DOMAIN results' : j + 1 \in DOMAIN results /\ results'[j] = results[j + 1]
         /\ \A j \in DOMAIN results :
              \/ j = 1 /\ results[j] = r
              \/ j - 1 \in DOMAIN results' /\ results'[j - 1] = results[j]
         /\ DOMAIN results' \subseteq Int /\ 1 \in DOMAIN results
         /\ DOMAIN results \subseteq Nat \ {0}
<1>1. PICK q : q = results
  OBVIOUS
<1>2. q \in Seq(ResultMessage) /\ q # <<>> /\ results' = Tail(q) /\ r = Head(q)
  BY <1>1 DEF SyncInv, IInv, QueueInv, QueueTypeInv, HandleOutput
<1>3. /\ r = q[1]
      /\ DOMAIN q = 1..Len(q) /\ Len(q) \in Nat /\ Len(q) > 0
      /\ DOMAIN Tail(q) = 1..Len(q) - 1
      /\ \A i \in 1..Len(q) - 1 : Tail(q)[i] = q[i + 1]
  BY <1>2, TailRange
<1>4. QED
  BY <1>1, <1>2, <1>3

\* A step of the queue makes no result, or one; a run that is no longer registered
\* has ended with it, and it is of a run that is, or its end.
Makes(r) ==
  /\ r \in ResultMessage /\ results' = Append(results, r)
  /\ \A x, i : RunIs(x, i) => RunIs(x, i)' \/ IsEnd(r, x)
  /\ RunIs(r.cell, r.id)' \/ IsEnd(r, r.cell)

RunsRemain == \A x, i : RunIs(x, i) => RunIs(x, i)'

LEMMA AnswerResults ==
  ASSUME QueueInv, NEW type \in {"busy", "output", "idle", "reply"},
         NEW parent \in RunId, TakeAnswer(type, parent)
  PROVE  (results' = results /\ RunsRemain) \/ \E r : Makes(r)
<1>1. CASE UNCHANGED <<pending, results>>
  BY <1>1 DEF RunsRemain, RunIs
<1>2. CASE ~UNCHANGED <<pending, results>>
  <2>0. PICK r : r = Result(ResultType(type), parent[1], parent)
    OBVIOUS
  <2>1. PICK x \in DOMAIN pending :
          /\ x = parent[1] /\ pending[x].id = {parent}
          /\ pending' = PendingAfter(type, x) /\ results' = Append(results, r)
    BY <1>2, <2>0, AnswerEffect
  <2>2. r \in ResultMessage /\ r.type = ResultType(type) /\ r.cell = x /\ r.id = parent
    BY <2>0, <2>1, ResultTyped
  <2>3. /\ DOMAIN pending' = IF type = "idle" THEN DOMAIN pending \ {x}
                             ELSE DOMAIN pending
        /\ \A y \in DOMAIN pending' : pending'[y].id = pending[y].id
    <3>1. pending' = PendingAfter(type, x)
      BY <2>1
    <3>2. QED
      BY <3>1, PendingAfterEffect
  <2>4. \A y, i : RunIs(y, i) => RunIs(y, i)' \/ IsEnd(r, y)
    BY <2>2, <2>3 DEF RunIs, IsEnd, ResultType
  <2>5. RunIs(r.cell, r.id)' \/ IsEnd(r, r.cell)
    BY <2>1, <2>2, <2>3 DEF RunIs, IsEnd, ResultType
  <2>6. QED
    BY <2>1, <2>2, <2>4, <2>5 DEF Makes
<1>3. QED
  BY <1>1, <1>2

LEMMA QueueStepResults ==
  ASSUME SyncInv, QueueStep
  PROVE  (results' = results /\ RunsRemain) \/ \E r : Makes(r)
<1>1. QueueInv
  BY DEF SyncInv, IInv
<1>2. ASSUME NEW c \in Client, Run(c)
      PROVE  results' = results /\ RunsRemain
  <2>1. PICK x : /\ MayQueue(x) /\ results' = results
                 /\ pending' = With(pending, x, [id |-> None, status |-> "pending"])
    BY <1>2 DEF Run, Register
  <2>2. QED
    BY <2>1 DEF MayQueue, With, RunIs, RunsRemain
<1>3. ASSUME NEW c \in Client, Submit(c)
      PROVE  results' = results /\ RunsRemain
  BY <1>3 DEF Submit, RunIs, RunsRemain
<1>4. ASSUME NEW c \in Client, SubmitFails(c)
      PROVE  results' = results /\ RunsRemain
  <2>1. pending[task[c].cell].id = None
    BY <1>1, <1>4 DEF SubmitFails, QueueInv, Prepared, Preparing
  <2>2. QED
    BY <1>4, <2>1 DEF SubmitFails, Without, RunIs, RunsRemain, None
<1>5. ASSUME NEW c \in Client, Announce(c)
      PROVE  results' = results /\ RunsRemain
  <2>1. PICK x : /\ x = task[c].cell /\ results' = results
                 /\ pending' = IF x \in DOMAIN pending
                               THEN [pending EXCEPT ![x].id = {task[c].id}] ELSE pending
    BY <1>5 DEF Announce, NameThen
  <2>2. pending[x].id = None
    BY <1>1, <1>5, <2>1 DEF Announce, NameThen, QueueInv, Prepared, Preparing
  <2>3. \A y \in DOMAIN pending' : y # x => pending'[y] = pending[y]
    BY <2>1
  <2>4. DOMAIN pending' = DOMAIN pending
    BY <2>1
  <2>5. QED
    BY <2>1, <2>2, <2>3, <2>4 DEF RunIs, RunsRemain, None
<1>6. CASE Kernel
  BY <1>6 DEF Kernel, KernelBusy, KernelPrints, KernelReplies, KernelIdle, RunIs, RunsRemain
<1>7. CASE ReceiveIopub
  <2>1. Head(iopub) \in IopubMessage
    BY <1>1, <1>7, TailRange DEF ReceiveIopub, QueueInv, QueueTypeInv
  <2>2. PICK type \in {"busy", "output", "idle"}, parent \in RunId :
          type = Head(iopub).type /\ parent = Head(iopub).parent
    BY <2>1 DEF IopubMessage
  <2>3. TakeAnswer(type, parent)
    BY <1>7, <2>2 DEF ReceiveIopub
  <2>4. QED
    BY <1>1, <2>3, AnswerResults
<1>8. CASE ReceiveShell
  <2>1. Head(shell) \in RunId
    BY <1>1, <1>8, TailRange DEF ReceiveShell, QueueInv, QueueTypeInv
  <2>2. PICK parent \in RunId : parent = Head(shell)
    BY <2>1
  <2>3. TakeAnswer("reply", parent)
    BY <1>8, <2>2 DEF ReceiveShell
  <2>4. QED
    BY <1>1, <2>3, AnswerResults
<1>9. ASSUME NEW c \in Client, Abort(c)
      PROVE  results' = results /\ RunsRemain
  BY <1>9 DEF Abort, RunIs, RunsRemain
<1>10. QED
  BY <1>2, <1>3, <1>4, <1>5, <1>6, <1>7, <1>8, <1>9 DEF QueueStep

LEMMA WaitingEndStep ==
  ASSUME SyncInv, WaitingEndInv, [Next]_vars
  PROVE  WaitingEndInv'
<1>0. results \in Seq(ResultMessage)
  BY DEF SyncInv, IInv, QueueInv, QueueTypeInv
<1>1. CASE results' = results /\ RunsRemain
  BY <1>1 DEF WaitingEndInv, RunsRemain
<1>2. ASSUME NEW r, Makes(r)
      PROVE  WaitingEndInv'
  <2>1. PICK n : n = Len(results)
    OBVIOUS
  <2>2. /\ DOMAIN results = 1..n /\ n \in Nat /\ DOMAIN results' = 1..n + 1
        /\ \A i \in 1..n : results'[i] = results[i]
        /\ results'[n + 1] = r
    BY <1>0, <1>2, <2>1, AppendRange DEF Makes
  <2>3. /\ \A x, i : RunIs(x, i) => RunIs(x, i)' \/ IsEnd(r, x)
        /\ RunIs(r.cell, r.id)' \/ IsEnd(r, r.cell)
    BY <1>2 DEF Makes
  <2>4. ASSUME NEW j \in 1..n + 1
        PROVE  \/ RunIs(results[j].cell, results[j].id)'
               \/ \E i \in 1..n + 1 : i >= j /\ IsEnd(results'[i], results'[j].cell)
    <3>1. PICK m : m = results'[j]
      OBVIOUS
    <3>2. n + 1 >= j /\ n + 1 \in 1..n + 1
      BY <2>2
    <3>3. CASE j = n + 1
      <4>1. m = r
        BY <2>2, <3>1, <3>3
      <4>2. RunIs(m.cell, m.id)' \/ IsEnd(results'[n + 1], m.cell)
        BY <2>2, <2>3, <4>1
      <4>3. QED
        BY <3>1, <3>2, <4>2 DEF RunIs
    <3>4. CASE j \in 1..n
      <4>1. m = results[j]
        BY <2>2, <3>1, <3>4
      <4>2. \/ RunIs(m.cell, m.id)
            \/ \E i \in 1..n : i >= j /\ IsEnd(results[i], m.cell)
        BY <2>2, <3>4, <4>1 DEF WaitingEndInv
      <4>3. ASSUME NEW i \in 1..n, i >= j, IsEnd(results[i], m.cell)
            PROVE  i \in 1..n + 1 /\ IsEnd(results'[i], m.cell)
        BY <2>2, <4>3
      <4>4. RunIs(m.cell, m.id) => RunIs(m.cell, m.id)' \/ IsEnd(results'[n + 1], m.cell)
        BY <2>2, <2>3
      <4>5. \/ RunIs(m.cell, m.id)'
            \/ \E i \in 1..n + 1 : i >= j /\ IsEnd(results'[i], m.cell)
        BY <3>2, <4>2, <4>3, <4>4
      <4>6. QED
        BY <3>1, <4>5 DEF RunIs
    <3>5. QED
      BY <2>2, <3>3, <3>4
  <2>5. QED
    BY <2>2, <2>4 DEF WaitingEndInv
<1>3. CASE HandleOutput
  <2>1. PICK r : r = Head(results)
    OBVIOUS
  <2>2. /\ \A j \in DOMAIN results' :
             j + 1 \in DOMAIN results /\ results'[j] = results[j + 1]
        /\ \A j \in DOMAIN results :
              \/ j = 1 /\ results[j] = r
              \/ j - 1 \in DOMAIN results' /\ results'[j - 1] = results[j]
        /\ DOMAIN results' \subseteq Int
        /\ DOMAIN results \subseteq Nat \ {0}
    BY <1>3, <2>1, ResultTaken
  <2>3. \A x, i : RunIs(x, i) <=> RunIs(x, i)'
    BY <1>3 DEF HandleOutput, RunIs
  <2>4. ASSUME NEW j \in DOMAIN results'
        PROVE  \/ RunIs(results[j].cell, results[j].id)'
               \/ \E i \in DOMAIN results' : i >= j /\ IsEnd(results'[i], results'[j].cell)
    <3>1. PICK k \in DOMAIN results : k = j + 1 /\ results'[j] = results[k]
      BY <2>2
    <3>2. PICK m : m = results[k] /\ m = results'[j]
      BY <3>1
    <3>3. \/ RunIs(m.cell, m.id)
          \/ \E i \in DOMAIN results : i >= k /\ IsEnd(results[i], m.cell)
      BY <3>2 DEF WaitingEndInv
    <3>4. ASSUME NEW i \in DOMAIN results, i >= k, IsEnd(results[i], m.cell)
          PROVE  i - 1 \in DOMAIN results' /\ i - 1 >= j /\ IsEnd(results'[i - 1], m.cell)
      <4>1. j \in Int /\ j + 1 \in Nat \ {0} /\ i \in Nat
        BY <2>2, <3>1
      <4>2. j + 1 # 1
        <5>1. j \in DOMAIN results'
          OBVIOUS
        <5>2. results' \in Seq(ResultMessage)
          BY <1>0, <1>3, TailRange DEF HandleOutput
        <5>3. j \in Nat \ {0}
          BY <5>1, <5>2, LenProperties
        <5>4. QED
          BY <5>3
      <4>3. i # 1 /\ i - 1 >= j
        BY <3>1, <3>4, <4>1, <4>2
      <4>4. QED
        BY <2>2, <3>4, <4>3
    <3>5. \/ RunIs(m.cell, m.id)'
          \/ \E i \in DOMAIN results' : i >= j /\ IsEnd(results'[i], m.cell)
      BY <2>3, <3>3, <3>4
    <3>6. QED
      BY <3>2, <3>5 DEF RunIs
  <2>5. QED
    BY <2>4 DEF WaitingEndInv
<1>4. CASE QueueStep
  BY <1>1, <1>2, <1>4, QueueStepResults
<1>5. CASE ~QueueStep /\ ~HandleOutput
  <2>1. UNCHANGED <<results, pending>>
    BY <1>5 DEF Next, BeginSending, Send, DeleteCell, Receive, Connect, ReadNotebook,
                ReadVersion, ReadExecutions, SendState, BeginOutput, SendOutput, vars,
                queueVars, viewVars, kernelVars
  <2>2. QED
    BY <1>1, <2>1 DEF RunIs, RunsRemain
<1>6. QED
  BY <1>3, <1>4, <1>5

----------------------------------------------------------------------------
(* The runs that are known of a cell. *)

\* What the steps that are not of the queue leave alone.
LEMMA OtherStep ==
  ASSUME SyncInv, ViewTypeInv, [Next]_vars, ~QueueStep
  PROVE  /\ UNCHANGED <<pending, kernelVars, missed>>
         /\ \A c \in Client : \A x, i : NamedFor(c, x, i)' => NamedFor(c, x, i)
<1>1. DOMAIN task = Client
  BY DEF SyncInv, IInv, QueueInv, QueueTypeInv
<1>2. ASSUME NEW d, NEW t, SetTask(d, t), t.at # "naming", NEW c \in Client, NEW x, NEW i,
             NamedFor(c, x, i)'
      PROVE  NamedFor(c, x, i)
  <2>1. task' = [task EXCEPT ![d] = t]
    BY <1>2 DEF SetTask
  <2>2. c # d => task'[c] = task[c]
    BY <1>1, <2>1
  <2>3. c = d => task'[c] = t
    BY <1>1, <2>1
  <2>4. c # d
    BY <1>2, <2>3 DEF NamedFor
  <2>5. QED
    BY <1>2, <2>2, <2>4 DEF NamedFor
<1>3. ASSUME NEW d, NEW t, SetTask(d, t), t.at # "naming",
             UNCHANGED <<pending, kernelVars, missed>>
      PROVE  /\ UNCHANGED <<pending, kernelVars, missed>>
             /\ \A c \in Client : \A x, i : NamedFor(c, x, i)' => NamedFor(c, x, i)
  BY <1>2, <1>3
<1>4. \A m : Broadcasting(m).at # "naming" /\ Telling(m).at # "naming"
  BY DEF Broadcasting, Idle, Telling
<1>5. Idle.at # "naming"
  BY DEF Idle
<1>6. ASSUME NEW d \in Client, Send(d)
      PROVE  \E t : SetTask(d, t) /\ t.at # "naming" /\ UNCHANGED <<pending, kernelVars, missed>>
  <2>1. PICK e : SetTask(d, IF task[d].rest = {e} THEN Idle
                            ELSE [task[d] EXCEPT !.rest = @ \ {e}])
    BY <1>6 DEF Send
  <2>2. task[d].at = "broadcast" /\ "at" \in DOMAIN task[d]
    BY <1>6 DEF Send, SyncInv, NotebookInv, SyncTypeInv
  <2>3. PICK t : t = [task[d] EXCEPT !.rest = @ \ {e}]
    OBVIOUS
  <2>4. t.at = "broadcast"
    BY <2>2, <2>3
  <2>5. SetTask(d, Idle) \/ SetTask(d, t)
    BY <2>1, <2>3
  <2>6. UNCHANGED <<pending, kernelVars, missed>>
    BY <1>6 DEF Send
  <2>7. t.at # "naming"
    BY <2>4
  <2>8. QED
    BY <1>5, <2>5, <2>6, <2>7
<1>7. ASSUME NEW d \in Deleter, NEW y \in DOMAIN cell, DeleteCell(d, y)
      PROVE  \E t : SetTask(d, t) /\ t.at # "naming" /\ UNCHANGED <<pending, kernelVars, missed>>
  BY <1>4, <1>7 DEF DeleteCell
<1>8. ASSUME NEW d \in Viewer,
             \/ Connect(d) \/ ReadNotebook(d) \/ ReadVersion(d)
             \/ ReadExecutions(d) \/ SendState(d)
      PROVE  \E t : SetTask(d, t) /\ t.at # "naming" /\ UNCHANGED <<pending, kernelVars, missed>>
  <2>1. CASE ReadNotebook(d)
    BY <2>1 DEF ReadNotebook
  <2>2. CASE ReadExecutions(d)
    BY <2>2 DEF ReadExecutions
  <2>3. CASE SendState(d)
    BY <1>5, <2>3 DEF SendState
  <2>4. CASE Connect(d)
    BY <2>4 DEF Connect
  <2>5. CASE ReadVersion(d)
    BY <2>5 DEF ReadVersion
  <2>6. QED
    BY <1>8, <2>1, <2>2, <2>3, <2>4, <2>5
<1>9. ASSUME NEW d \in Client, BeginSending(d)
      PROVE  \E t : SetTask(d, t) /\ t.at # "naming" /\ UNCHANGED <<pending, kernelVars, missed>>
  BY <1>4, <1>9 DEF BeginSending
<1>10. CASE \/ HandleOutput \/ BeginOutput \/ SendOutput \/ UNCHANGED vars
            \/ \E c \in Viewer : Receive(c)
  <2>1. UNCHANGED <<pending, kernelVars, missed, task>>
    BY <1>10 DEF HandleOutput, BeginOutput, SendOutput, Receive, vars, queueVars
  <2>2. QED
    BY <2>1 DEF NamedFor
<1>11. QED
  BY <1>3, <1>6, <1>7, <1>8, <1>9, <1>10 DEF Next

LEMMA HeldAfter ==
  ASSUME NEW s, s \in [outputs : Seq(RunId), number : SUBSET RunId], NEW r \in ResultMessage
  PROVE  LET t == CellAfter(s, r)
         IN  Range(t.outputs) \cup t.number \subseteq
               Range(s.outputs) \cup s.number \cup {r.id}
<1>1. DOMAIN s = {"outputs", "number"} /\ r.id \in RunId /\ s.outputs \in Seq(RunId)
  BY DEF ResultMessage
<1>2. CASE r.type = "execution_started"
  <2>1. CellAfter(s, r) = [outputs |-> <<>>, number |-> None]
    BY <1>2 DEF CellAfter
  <2>2. Range(<<>>) = {}
    BY DEF Range
  <2>3. QED
    BY <2>1, <2>2 DEF None
<1>3. CASE r.type = "cell_output"
  <2>1. PICK o : o = Append(s.outputs, r.id)
    OBVIOUS
  <2>2. CellAfter(s, r) = [s EXCEPT !.outputs = o]
    BY <1>3, <2>1 DEF CellAfter
  <2>3. Range(o) = Range(s.outputs) \cup {r.id}
    BY <1>1, <2>1, AppendRange
  <2>4. QED
    BY <1>1, <2>2, <2>3
<1>4. CASE r.type = "execution_finished"
  <2>1. CellAfter(s, r) = [s EXCEPT !.number = {r.id}]
    BY <1>4 DEF CellAfter
  <2>2. QED
    BY <1>1, <2>1
<1>5. CASE r.type = "cell_idle"
  <2>1. CellAfter(s, r) = s
    BY <1>5 DEF CellAfter
  <2>2. QED
    BY <2>1
<1>6. QED
  BY <1>2, <1>3, <1>4, <1>5 DEF ResultMessage

\* A run that is known of a cell was so before, or has just been sent.
Sends(x, i) == i = Id(x, kernel.sent + 1) /\ kernel'.sent = kernel.sent + 1 /\ Waits(i)'

LEMMA SubmitSends ==
  ASSUME SyncInv, NEW c \in Client, Submit(c)
  PROVE  /\ UNCHANGED <<pending, iopub, results, missed>>
         /\ kernel'.sent = kernel.sent + 1 /\ kernel'.phase = kernel.phase
         /\ Requests' = Append(Requests, Id(task[c].cell, kernel.sent + 1))
         /\ Sends(task[c].cell, Id(task[c].cell, kernel.sent + 1))
         /\ \A d \in Client : \A x, i : NamedFor(d, x, i)' =>
              NamedFor(d, x, i) \/ (x = task[c].cell /\ i = Id(x, kernel.sent + 1))
<1>1. PICK y, id : y = task[c].cell /\ id = Id(y, kernel.sent + 1)
  OBVIOUS
<1>2. /\ kernel' = [kernel EXCEPT !.requests = Append(@, id), !.sent = @ + 1]
      /\ SetTask(c, Naming(y, id)) /\ UNCHANGED <<pending, iopub, results, missed>>
  BY <1>1 DEF Submit
<1>3. /\ DOMAIN kernel = {"requests", "phase", "printed", "sent"}
      /\ DOMAIN task = Client /\ Requests \in Seq(RunId) /\ id \in RunId
      /\ (kernel.phase # "idle" => Requests # <<>>)
  BY <1>1 DEF SyncInv, IInv, QueueInv, QueueTypeInv, Submit, Preparing, Id, RunId
<1>4. /\ kernel'.sent = kernel.sent + 1 /\ kernel'.phase = kernel.phase
      /\ Requests' = Append(Requests, id)
  BY <1>2, <1>3 DEF Requests
<1>5. Waits(id)'
  <2>1. PICK n : n = Len(Requests)
    OBVIOUS
  <2>2. /\ n \in Nat /\ DOMAIN Requests' = 1..n + 1 /\ Requests'[n + 1] = id
    BY <1>3, <1>4, <2>1, AppendRange
  <2>3. kernel.phase # "idle" => n + 1 > 1
    BY <1>3, <2>1, <2>2, EmptySeq
  <2>4. n + 1 \in DOMAIN Requests'
    BY <2>2
  <2>5. QED
    BY <1>4, <2>2, <2>3, <2>4 DEF Waits
<1>6. task' = [task EXCEPT ![c] = Naming(y, id)]
  BY <1>2 DEF SetTask
<1>7. task'[c] = Naming(y, id) /\ \A d \in Client : d # c => task'[d] = task[d]
  BY <1>3, <1>6
<1>8. Naming(y, id).cell = y /\ Naming(y, id).id = id
  BY DEF Naming
<1>9. ASSUME NEW d \in Client, NEW x, NEW i, NamedFor(d, x, i)'
      PROVE  NamedFor(d, x, i) \/ (x = y /\ i = id)
  <2>1. CASE d = c
    BY <1>7, <1>8, <1>9, <2>1 DEF NamedFor
  <2>2. CASE d # c
    BY <1>7, <1>9, <2>2 DEF NamedFor
  <2>3. QED
    BY <2>1, <2>2
<1>10. Sends(y, id)
  BY <1>1, <1>4, <1>5 DEF Sends
<1>11. QED
  BY <1>1, <1>2, <1>4, <1>9, <1>10

LEMMA AnswerKnown ==
  ASSUME SyncInv, NEW type \in {"busy", "output", "idle", "reply"}, NEW parent \in RunId,
         TakeAnswer(type, parent), NEW x, NEW i
  PROVE  /\ Expected(x, i)' => Expected(x, i)
         /\ ResultWaits(x, i)' => ResultWaits(x, i) \/ Expected(x, i)
<1>1. QueueInv /\ results \in Seq(ResultMessage)
  BY DEF SyncInv, IInv, QueueInv, QueueTypeInv
<1>2. task' = task
  BY DEF TakeAnswer
<1>3. CASE UNCHANGED <<pending, results>>
  BY <1>2, <1>3 DEF Expected, ResultWaits, NamedFor
<1>4. CASE ~UNCHANGED <<pending, results>>
  <2>1. PICK r : r = Result(ResultType(type), parent[1], parent)
    OBVIOUS
  <2>2. PICK y : /\ y = parent[1] /\ y \in DOMAIN pending /\ pending[y].id = {parent}
                 /\ pending' = PendingAfter(type, y) /\ results' = Append(results, r)
    BY <1>1, <1>4, <2>1, AnswerEffect
  <2>3. r \in ResultMessage /\ r.id = parent /\ r.cell = y
    BY <1>1, <2>1, <2>2, ResultTyped
  <2>4. \A z \in DOMAIN pending' : z \in DOMAIN pending /\ pending'[z].id = pending[z].id
    <3>1. y \in DOMAIN pending /\ pending' = PendingAfter(type, y)
      BY <2>2
    <3>2. /\ DOMAIN pending' = IF type = "idle" THEN DOMAIN pending \ {y}
                               ELSE DOMAIN pending
          /\ \A z \in DOMAIN pending' : pending'[z].id = pending[z].id
      BY <1>1, <3>1, PendingAfterEffect
    <3>3. QED
      BY <3>2
  <2>5. Expected(x, i)' => Expected(x, i)
    BY <1>2, <2>4 DEF Expected, NamedFor
  <2>6. ASSUME NEW j \in DOMAIN results', results'[j].cell = x, results'[j].id = i
        PROVE  ResultWaits(x, i) \/ Expected(x, i)
    <3>1. PICK n : n = Len(results)
      OBVIOUS
    <3>2. /\ DOMAIN results = 1..n /\ n \in Nat /\ DOMAIN results' = 1..n + 1
          /\ \A k \in 1..n : results'[k] = results[k]
          /\ results'[n + 1] = r
      BY <1>1, <2>2, <2>3, <3>1, AppendRange
    <3>3. CASE j = n + 1
      BY <2>2, <2>3, <2>6, <3>2, <3>3 DEF Expected
    <3>4. CASE j \in 1..n
      BY <2>6, <3>2, <3>4 DEF ResultWaits
    <3>5. QED
      BY <2>6, <3>2, <3>3, <3>4
  <2>7. QED
    BY <2>5, <2>6 DEF ResultWaits
<1>5. QED
  BY <1>3, <1>4

LEMMA QueueStepKnown ==
  ASSUME SyncInv, QueueStep, NEW x, NEW i
  PROVE  /\ Expected(x, i)' => Expected(x, i) \/ Sends(x, i)
         /\ ResultWaits(x, i)' => ResultWaits(x, i) \/ Expected(x, i)
<1>0. DOMAIN task = Client /\ QueueInv
  BY DEF SyncInv, IInv, QueueInv, QueueTypeInv
<1>1. ASSUME results' = results
      PROVE  ResultWaits(x, i)' => ResultWaits(x, i)
  BY <1>1 DEF ResultWaits
<1>2. ASSUME NEW c \in Client, NEW t, SetTask(c, t), t.at # "naming"
      PROVE  \A d \in Client : NamedFor(d, x, i)' => NamedFor(d, x, i)
  <2>1. task' = [task EXCEPT ![c] = t]
    BY <1>2 DEF SetTask
  <2>2. task'[c] = t /\ \A d \in Client : d # c => task'[d] = task[d]
    BY <1>0, <2>1
  <2>3. QED
    BY <1>2, <2>2 DEF NamedFor
<1>3. ASSUME NEW c \in Client, Run(c)
      PROVE  (Expected(x, i)' => Expected(x, i)) /\ results' = results
  <2>1. PICK y : /\ MayQueue(y) /\ results' = results /\ SetTask(c, Submitting(y))
                 /\ pending' = With(pending, y, [id |-> None, status |-> "pending"])
    BY <1>3 DEF Run, Register
  <2>2. \A d \in Client : NamedFor(d, x, i)' => NamedFor(d, x, i)
    BY <1>2, <2>1 DEF Submitting
  <2>3. x \in DOMAIN pending' /\ i \in pending'[x].id => x \in DOMAIN pending /\ i \in pending[x].id
    BY <2>1 DEF MayQueue, With, None
  <2>4. QED
    BY <2>1, <2>2, <2>3 DEF Expected
<1>4. ASSUME NEW c \in Client, Submit(c)
      PROVE  (Expected(x, i)' => Expected(x, i) \/ Sends(x, i)) /\ results' = results
  <2>1. /\ UNCHANGED <<pending, results>>
        /\ Sends(task[c].cell, Id(task[c].cell, kernel.sent + 1))
        /\ \A d \in Client : NamedFor(d, x, i)' =>
             NamedFor(d, x, i) \/ (x = task[c].cell /\ i = Id(x, kernel.sent + 1))
    BY <1>4, SubmitSends
  <2>2. QED
    BY <2>1 DEF Expected
<1>5. ASSUME NEW c \in Client, SubmitFails(c)
      PROVE  (Expected(x, i)' => Expected(x, i)) /\ results' = results
  <2>1. results' = results /\ pending' = Without(pending, task[c].cell) /\ SetTask(c, Idle)
    BY <1>5 DEF SubmitFails
  <2>2. \A d \in Client : NamedFor(d, x, i)' => NamedFor(d, x, i)
    BY <1>2, <2>1 DEF Idle
  <2>3. x \in DOMAIN pending' /\ i \in pending'[x].id => x \in DOMAIN pending /\ i \in pending[x].id
    BY <2>1 DEF Without
  <2>4. QED
    BY <2>1, <2>2, <2>3 DEF Expected
<1>6. ASSUME NEW c \in Client, Announce(c)
      PROVE  (Expected(x, i)' => Expected(x, i)) /\ results' = results
  <2>1. PICK y, m : /\ y = task[c].cell /\ task[c].at = "naming" /\ results' = results
                    /\ pending' = IF y \in DOMAIN pending
                                  THEN [pending EXCEPT ![y].id = {task[c].id}] ELSE pending
                    /\ SetTask(c, Telling(m))
    BY <1>6 DEF Announce, NameThen
  <2>2. \A d \in Client : NamedFor(d, x, i)' => NamedFor(d, x, i)
    BY <1>2, <2>1, TellingIsCalm
  <2>3. x \in DOMAIN pending' /\ i \in pending'[x].id =>
          (x \in DOMAIN pending /\ i \in pending[x].id) \/ NamedFor(c, x, i)
    <3>1. DOMAIN pending' = DOMAIN pending
      BY <2>1
    <3>2. x # y => pending'[x] = pending[x]
      BY <2>1
    <3>3. "id" \in DOMAIN pending[y] \/ y \notin DOMAIN pending
      BY <1>0 DEF QueueInv, QueueTypeInv
    <3>4. y \in DOMAIN pending => pending'[y].id = {task[c].id}
      BY <2>1, <3>3
    <3>5. QED
      BY <2>1, <3>1, <3>2, <3>4 DEF NamedFor
  <2>4. QED
    BY <2>1, <2>2, <2>3 DEF Expected
<1>7. CASE Kernel
  <2>1. UNCHANGED <<pending, task, results>>
    BY <1>7 DEF Kernel, KernelBusy, KernelPrints, KernelReplies, KernelIdle
  <2>2. Expected(x, i)' => Expected(x, i)
    BY <2>1 DEF Expected, NamedFor
  <2>3. QED
    BY <1>1, <2>1, <2>2
<1>8. CASE ReceiveIopub
  <2>1. Head(iopub) \in IopubMessage
    BY <1>0, <1>8, TailRange DEF ReceiveIopub, QueueInv, QueueTypeInv
  <2>2. PICK type \in {"busy", "output", "idle"}, parent \in RunId :
          type = Head(iopub).type /\ parent = Head(iopub).parent
    BY <2>1 DEF IopubMessage
  <2>3. TakeAnswer(type, parent)
    BY <1>8, <2>2 DEF ReceiveIopub
  <2>4. QED
    BY <2>3, AnswerKnown
<1>9. CASE ReceiveShell
  <2>1. Head(shell) \in RunId
    BY <1>0, <1>9, TailRange DEF ReceiveShell, QueueInv, QueueTypeInv
  <2>2. PICK parent \in RunId : parent = Head(shell)
    BY <2>1
  <2>3. TakeAnswer("reply", parent)
    BY <1>9, <2>2 DEF ReceiveShell
  <2>4. QED
    BY <2>3, AnswerKnown
<1>10. ASSUME NEW c \in Client, Abort(c)
       PROVE  (Expected(x, i)' => Expected(x, i)) /\ results' = results
  <2>1. UNCHANGED <<pending, results>> /\ SetTask(c, Gone(task[c].cell))
    BY <1>10 DEF Abort
  <2>2. \A d \in Client : NamedFor(d, x, i)' => NamedFor(d, x, i)
    BY <1>2, <2>1 DEF Gone
  <2>3. QED
    BY <2>1, <2>2 DEF Expected
<1>11. QED
  BY <1>1, <1>3, <1>4, <1>5, <1>6, <1>7, <1>8, <1>9, <1>10 DEF QueueStep

LEMMA KnownStep ==
  ASSUME SyncInv, ViewTypeInv, [Next]_vars, NEW x \in DOMAIN cell', NEW i, Known(x, i)'
  PROVE  x \in DOMAIN cell /\ (Known(x, i) \/ Sends(x, i))
<1>1. CASE QueueStep
  <2>1. cell' = cell
    BY <1>1 DEF QueueStep, viewVars
  <2>2. Held(x)' = Held(x)
    BY <2>1 DEF Held
  <2>3. QED
    BY <1>1, <2>1, <2>2, QueueStepKnown DEF Known
<1>2. CASE ~QueueStep
  <2>1. UNCHANGED pending /\ \A c \in Client : NamedFor(c, x, i)' => NamedFor(c, x, i)
    BY <1>2, OtherStep
  <2>2. CASE HandleOutput
    <3>1. PICK r : r = Head(results)
      OBVIOUS
    <3>2. /\ r \in ResultMessage /\ r = results[1]
          /\ r.cell \in DOMAIN cell => cell' = [cell EXCEPT ![r.cell] = CellAfter(@, r)]
          /\ r.cell \notin DOMAIN cell => cell' = cell
          /\ DOMAIN cell' = DOMAIN cell
      BY <2>2, <3>1, HandleOutputEffect
    <3>3. /\ \A j \in DOMAIN results' :
               j + 1 \in DOMAIN results /\ results'[j] = results[j + 1]
          /\ 1 \in DOMAIN results
      BY <2>2, <3>1, ResultTaken
    <3>4. i \in Held(x)' => i \in Held(x) \/ (x = r.cell /\ i = r.id)
      <4>1. CASE x = r.cell
        <5>1. cell'[x] = CellAfter(cell[x], r)
          BY <3>2, <4>1
        <5>2. cell[x] \in [outputs : Seq(RunId), number : SUBSET RunId]
          BY <3>2 DEF SyncInv, NotebookInv, SyncTypeInv
        <5>3. PICK s, t : s = cell[x] /\ t = CellAfter(s, r)
          OBVIOUS
        <5>4. Range(t.outputs) \cup t.number \subseteq Range(s.outputs) \cup s.number \cup {r.id}
          BY <3>2, <5>2, <5>3, HeldAfter
        <5>5. cell'[x] = t
          BY <5>1, <5>3
        <5>6. QED
          BY <4>1, <5>3, <5>4, <5>5 DEF Held
      <4>2. CASE x # r.cell
        <5>1. cell'[x] = cell[x]
          BY <3>2, <4>2
        <5>2. QED
          BY <5>1 DEF Held
      <4>3. QED
        BY <4>1, <4>2
    <3>5. QED
      BY <2>1, <3>2, <3>3, <3>4 DEF Known, Expected, ResultWaits
  <2>3. CASE ~HandleOutput
    <3>1. results' = results
      BY <1>2, <2>3 DEF Next, BeginSending, Send, DeleteCell, Receive, Connect, ReadNotebook,
                        ReadVersion, ReadExecutions, SendState, BeginOutput, SendOutput,
                        vars, queueVars, viewVars, kernelVars
    <3>2. x \in DOMAIN cell /\ cell'[x] = cell[x]
      <4>1. CASE cell' = cell
        BY <4>1
      <4>2. ASSUME NEW c, NEW y, DeleteCell(c, y)
            PROVE  x \in DOMAIN cell /\ cell'[x] = cell[x]
        BY <4>2 DEF DeleteCell, Without
      <4>3. QED
        BY <1>2, <2>3, <4>1, <4>2 DEF Next, BeginSending, Send, Receive, Connect,
                        ReadNotebook, ReadVersion, ReadExecutions, SendState, BeginOutput,
                        SendOutput, vars, queueVars, viewVars, kernelVars
    <3>3. Held(x)' = Held(x)
      BY <3>2 DEF Held
    <3>4. QED
      BY <2>1, <3>1, <3>2, <3>3 DEF Known, Expected, ResultWaits
  <2>4. QED
    BY <2>2, <2>3
<1>3. QED
  BY <1>1, <1>2

LEMMA SentGrows ==
  ASSUME SyncInv, ViewTypeInv, [Next]_vars
  PROVE  kernel.sent \in Nat /\ kernel'.sent \in Nat /\ kernel.sent <= kernel'.sent
<1>1. kernel.sent \in Nat /\ DOMAIN kernel = {"requests", "phase", "printed", "sent"}
  BY DEF SyncInv, IInv, QueueInv, QueueTypeInv
<1>2. CASE kernel' = kernel
  BY <1>1, <1>2
<1>3. CASE \E c \in Client : Submit(c)
  <2>1. kernel'.sent = kernel.sent + 1
    BY <1>3, SubmitSends
  <2>2. QED
    BY <1>1, <2>1
<1>4. CASE Kernel
  <2>1. kernel'.sent = kernel.sent
    BY <1>1, <1>4 DEF Kernel, KernelBusy, KernelPrints, KernelReplies, KernelIdle
  <2>2. QED
    BY <1>1, <2>1
<1>5. CASE QueueStep
  BY <1>2, <1>3, <1>4, <1>5 DEF QueueStep, Run, Register, SubmitFails, Announce, NameThen,
     Abort, ReceiveIopub, ReceiveShell, TakeAnswer, kernelVars
<1>6. CASE ~QueueStep
  BY <1>2, <1>6, OtherStep DEF kernelVars
<1>7. QED
  BY <1>5, <1>6

LEMMA KnownInvStep ==
  ASSUME SyncInv, ViewTypeInv, KnownInv, [Next]_vars
  PROVE  KnownInv'
<1>1. kernel.sent \in Nat /\ kernel'.sent \in Nat /\ kernel.sent <= kernel'.sent
  BY SentGrows
<1>2. ASSUME NEW x \in DOMAIN cell', NEW i, Known(x, i)'
      PROVE  i[1] = x /\ i[2] \in 0..kernel'.sent
  <2>1. x \in DOMAIN cell /\ (Known(x, i) \/ Sends(x, i))
    BY <1>2, KnownStep
  <2>2. CASE Sends(x, i)
    <3>1. i = <<x, kernel.sent + 1>> /\ kernel'.sent = kernel.sent + 1
      BY <2>2 DEF Sends, Id
    <3>2. i[1] = x /\ i[2] = kernel.sent + 1
      BY <3>1
    <3>3. QED
      BY <1>1, <3>1, <3>2
  <2>3. CASE Known(x, i)
    <3>1. i[1] = x /\ i[2] \in 0..kernel.sent
      BY <2>1, <2>3 DEF KnownInv
    <3>2. QED
      BY <1>1, <3>1
  <2>4. QED
    BY <2>1, <2>2, <2>3
<1>3. QED
  BY <1>2 DEF KnownInv

----------------------------------------------------------------------------
(* The starts that have still to come, and the ends. *)

LEMMA MissedGrows ==
  ASSUME SyncInv, ViewTypeInv, [Next]_vars
  PROVE  missed \subseteq missed'
<1>1. CASE QueueStep
  BY <1>1 DEF QueueStep, Run, Register, Submit, SubmitFails, Announce, NameThen, Abort, Kernel,
     KernelBusy, KernelPrints, KernelReplies, KernelIdle, ReceiveIopub, ReceiveShell, TakeAnswer
<1>2. CASE ~QueueStep
  BY <1>2, OtherStep
<1>3. QED
  BY <1>1, <1>2

LEMMA StartWaitsStays ==
  ASSUME SyncInv, QueueStep, NEW i, StartWaits(i)
  PROVE  StartWaits(i)'
<1>1. PICK j \in DOMAIN results : results[j].type = "execution_started" /\ results[j].id = i
  BY DEF StartWaits
<1>2. CASE results' = results
  BY <1>1, <1>2 DEF StartWaits
<1>3. ASSUME NEW r, Makes(r)
      PROVE  StartWaits(i)'
  <2>1. results \in Seq(ResultMessage) /\ r \in ResultMessage /\ results' = Append(results, r)
    BY <1>3 DEF Makes, SyncInv, IInv, QueueInv, QueueTypeInv
  <2>2. j \in DOMAIN results' /\ results'[j] = results[j]
    BY <1>1, <2>1, AppendRange
  <2>3. QED
    BY <1>1, <2>2 DEF StartWaits
<1>4. QED
  BY <1>2, <1>3, QueueStepResults

LEMMA SubmitRequests ==
  ASSUME SyncInv, NEW c \in Client, Submit(c)
  PROVE  \A k \in DOMAIN Requests : k \in DOMAIN Requests' /\ Requests'[k] = Requests[k]
<1>1. PICK id : id = Id(task[c].cell, kernel.sent + 1)
  OBVIOUS
<1>2. Requests' = Append(Requests, id)
  BY <1>1, SubmitSends
<1>3. Requests \in Seq(RunId) /\ id \in RunId
  BY <1>1 DEF SyncInv, IInv, QueueInv, QueueTypeInv, Submit, Preparing, Id, RunId
<1>4. QED
  BY <1>2, <1>3, AppendRange

LEMMA KernelEffect ==
  ASSUME SyncInv, Kernel, NEW h, h = Requests[1]
  PROVE  /\ UNCHANGED <<pending, task, results, missed>>
         /\ Requests # <<>> /\ 1 \in DOMAIN Requests /\ Requests \in Seq(RunId)
         /\ \A k \in DOMAIN iopub : k \in DOMAIN iopub' /\ iopub'[k] = iopub[k]
         /\ \/ /\ Requests' = Requests
               /\ kernel.phase = "idle" => StartOnIopub(h)'
               /\ kernel.phase = "idle" \/ kernel'.phase # "idle"
            \/ /\ kernel.phase # "idle" /\ kernel'.phase = "idle"
               /\ Requests' = Tail(Requests) /\ EndOnIopub(h)'
<1>1. /\ QueueInv /\ Requests \in Seq(RunId)
      /\ DOMAIN kernel = {"requests", "phase", "printed", "sent"}
      /\ (kernel.phase # "idle" => Requests # <<>>)
      /\ iopub \in Seq(IopubMessage)
  BY DEF SyncInv, IInv, QueueInv, QueueTypeInv
<1>2. CASE KernelBusy
  <2>1. /\ Requests # <<>> /\ Publish("busy") /\ kernel.phase = "idle"
        /\ UNCHANGED <<pending, task, results, missed>>
        /\ Requests' = Requests
    BY <1>1, <1>2 DEF KernelBusy, Requests
  <2>2. /\ 1 \in DOMAIN Requests /\ Head(Requests) = Requests[1]
        /\ DOMAIN iopub = 1..Len(iopub) /\ Len(iopub) \in Nat
        /\ DOMAIN iopub' = 1..Len(iopub) + 1
        /\ \A k \in DOMAIN iopub : iopub'[k] = iopub[k]
        /\ iopub'[Len(iopub) + 1].type = "busy"
        /\ iopub'[Len(iopub) + 1].parent = Head(Requests)
    BY <1>1, <2>1, PublishEffect
  <2>3. Len(iopub) + 1 \in DOMAIN iopub' /\ DOMAIN iopub \subseteq DOMAIN iopub'
    BY <2>2
  <2>4. StartOnIopub(h)'
    BY <2>1, <2>2, <2>3 DEF StartOnIopub
  <2>5. QED
    BY <1>1, <2>1, <2>2, <2>3, <2>4
<1>3. CASE KernelPrints
  <2>1. /\ Requests # <<>> /\ Publish("output") /\ kernel.phase = "busy" /\ kernel'.phase = "busy"
        /\ UNCHANGED <<pending, task, results, missed>>
        /\ Requests' = Requests
    BY <1>1, <1>3 DEF KernelPrints, Requests
  <2>2. /\ 1 \in DOMAIN Requests
        /\ DOMAIN iopub = 1..Len(iopub) /\ Len(iopub) \in Nat
        /\ DOMAIN iopub' = 1..Len(iopub) + 1
        /\ \A k \in DOMAIN iopub : iopub'[k] = iopub[k]
    BY <1>1, <2>1, PublishEffect
  <2>3. DOMAIN iopub \subseteq DOMAIN iopub'
    BY <2>2
  <2>4. QED
    BY <1>1, <2>1, <2>2, <2>3
<1>4. CASE KernelReplies
  <2>1. /\ Requests # <<>> /\ kernel.phase = "busy" /\ kernel'.phase = "replied"
        /\ UNCHANGED <<pending, task, results, missed, iopub>>
        /\ Requests' = Requests
    BY <1>1, <1>4 DEF KernelReplies, Requests
  <2>2. 1 \in DOMAIN Requests
    BY <1>1, <2>1, TailRange
  <2>3. QED
    BY <1>1, <2>1, <2>2
<1>5. CASE KernelIdle
  <2>1. /\ Requests # <<>> /\ Publish("idle") /\ kernel.phase = "replied"
        /\ kernel'.phase = "idle" /\ UNCHANGED <<pending, task, results, missed>>
        /\ Requests' = Tail(Requests)
    BY <1>1, <1>5 DEF KernelIdle, Requests
  <2>2. /\ 1 \in DOMAIN Requests /\ Head(Requests) = Requests[1]
        /\ DOMAIN iopub = 1..Len(iopub) /\ Len(iopub) \in Nat
        /\ DOMAIN iopub' = 1..Len(iopub) + 1
        /\ \A k \in DOMAIN iopub : iopub'[k] = iopub[k]
        /\ iopub'[Len(iopub) + 1].type = "idle"
        /\ iopub'[Len(iopub) + 1].parent = Head(Requests)
    BY <1>1, <2>1, PublishEffect
  <2>3. Len(iopub) + 1 \in DOMAIN iopub' /\ DOMAIN iopub \subseteq DOMAIN iopub'
    BY <2>2
  <2>4. EndOnIopub(h)'
    BY <2>1, <2>2, <2>3 DEF EndOnIopub
  <2>5. QED
    BY <1>1, <2>1, <2>2, <2>3, <2>4
<1>6. QED
  BY <1>2, <1>3, <1>4, <1>5 DEF Kernel

\* What the taking of an answer from iopub leaves there.
LEMMA IopubTaken ==
  ASSUME SyncInv, ReceiveIopub
  PROVE  /\ iopub \in Seq(IopubMessage) /\ 1 \in DOMAIN iopub /\ iopub[1] \in IopubMessage
         /\ \A k \in DOMAIN iopub : k = 1 \/ (k - 1 \in DOMAIN iopub' /\ iopub'[k - 1] = iopub[k])
         /\ TakeAnswer(iopub[1].type, iopub[1].parent) /\ UNCHANGED <<kernel, task>>
<1>1. iopub \in Seq(IopubMessage) /\ iopub # <<>> /\ iopub' = Tail(iopub)
  BY DEF ReceiveIopub, SyncInv, IInv, QueueInv, QueueTypeInv
<1>2. /\ Head(iopub) = iopub[1] /\ Head(iopub) \in IopubMessage
      /\ DOMAIN iopub = 1..Len(iopub) /\ Len(iopub) \in Nat /\ Len(iopub) > 0
      /\ DOMAIN Tail(iopub) = 1..Len(iopub) - 1
      /\ \A k \in DOMAIN Tail(iopub) : Tail(iopub)[k] = iopub[k + 1]
  BY <1>1, TailRange
<1>3. \A k \in DOMAIN iopub : k = 1 \/ (k - 1 \in DOMAIN iopub' /\ iopub'[k - 1] = iopub[k])
  BY <1>1, <1>2
<1>4. 1 \in DOMAIN iopub
  BY <1>2
<1>5. TakeAnswer(iopub[1].type, iopub[1].parent) /\ UNCHANGED <<kernel, task>>
  BY <1>2 DEF ReceiveIopub, TakeAnswer
<1>6. QED
  BY <1>1, <1>2, <1>3, <1>4, <1>5

LEMMA BusyTaken ==
  ASSUME SyncInv, ReceiveIopub, iopub[1].type = "busy", NEW i, i = iopub[1].parent
  PROVE  StartWaits(i)' \/ i \in missed'
<1>1. iopub[1] \in IopubMessage /\ TakeAnswer(iopub[1].type, iopub[1].parent) /\ QueueInv
  BY IopubTaken DEF SyncInv, IInv
<1>2. i \in RunId /\ TakeAnswer("busy", i)
  BY <1>1 DEF IopubMessage
<1>3. PICK r : r = Result(ResultType("busy"), i[1], i)
  OBVIOUS
<1>4. \/ missed' = missed \cup {i}
      \/ results' = Append(results, r)
  BY <1>1, <1>2, <1>3, AnswerEffect
<1>5. r \in ResultMessage /\ r.id = i /\ r.type = "execution_started"
  BY <1>1, <1>2, <1>3, ResultTyped DEF ResultType
<1>6. ASSUME results' = Append(results, r)
      PROVE  StartWaits(i)'
  <2>1. results \in Seq(ResultMessage)
    BY <1>1 DEF QueueInv, QueueTypeInv
  <2>2. Len(results) + 1 \in DOMAIN results' /\ results'[Len(results) + 1] = r
    BY <1>5, <1>6, <2>1, AppendRange
  <2>3. QED
    BY <1>5, <2>2 DEF StartWaits
<1>7. QED
  BY <1>4, <1>6

LEMMA QueueStepStart ==
  ASSUME SyncInv, QueueStep, NEW i, StartComes(i)
  PROVE  StartComes(i)' \/ i \in missed'
<1>1. ASSUME StartWaits(i)
      PROVE  StartComes(i)'
  BY <1>1, StartWaitsStays DEF StartComes
<1>2. CASE \E c \in Client : Run(c) \/ SubmitFails(c) \/ Announce(c) \/ Abort(c)
  <2>1. UNCHANGED <<kernel, iopub>>
    BY <1>2 DEF Run, Register, SubmitFails, Announce, NameThen, Abort, kernelVars
  <2>2. Waits(i)' = Waits(i) /\ StartOnIopub(i)' = StartOnIopub(i)
    BY <2>1 DEF Waits, StartOnIopub, Requests
  <2>3. QED
    BY <1>1, <2>2 DEF StartComes
<1>3. ASSUME NEW c \in Client, Submit(c)
      PROVE  StartComes(i)'
  <2>1. iopub' = iopub /\ kernel'.phase = kernel.phase
    BY <1>3, SubmitSends
  <2>2. \A k \in DOMAIN Requests : k \in DOMAIN Requests' /\ Requests'[k] = Requests[k]
    BY <1>3, SubmitRequests
  <2>3. Waits(i) => Waits(i)'
    BY <2>1, <2>2 DEF Waits
  <2>4. StartOnIopub(i)' = StartOnIopub(i)
    BY <2>1 DEF StartOnIopub
  <2>5. QED
    BY <1>1, <2>3, <2>4 DEF StartComes
<1>4. CASE Kernel
  <2>0. PICK h : h = Requests[1]
    OBVIOUS
  <2>1. StartOnIopub(i) => StartOnIopub(i)'
    BY <1>4, <2>0, KernelEffect DEF StartOnIopub
  <2>2. ASSUME NEW k \in DOMAIN Requests, Requests[k] = i, k > 1 \/ kernel.phase = "idle"
        PROVE  Waits(i)' \/ StartOnIopub(i)'
    <3>1. Requests \in Seq(RunId) /\ Requests # <<>>
      BY <1>4, <2>0, KernelEffect
    <3>2. /\ DOMAIN Requests = 1..Len(Requests) /\ Len(Requests) \in Nat
          /\ DOMAIN Tail(Requests) = 1..Len(Requests) - 1
          /\ \A j \in DOMAIN Tail(Requests) : Tail(Requests)[j] = Requests[j + 1]
      BY <3>1, TailRange
    <3>3. CASE /\ Requests' = Requests
               /\ kernel.phase = "idle" => StartOnIopub(h)'
      <4>1. CASE k > 1
        BY <3>3, <2>2, <4>1 DEF Waits
      <4>2. CASE ~(k > 1)
        <5>1. k = 1
          BY <3>2, <4>2
        <5>2. QED
          BY <2>0, <2>2, <3>3, <4>2, <5>1
      <4>3. QED
        BY <4>1, <4>2
    <3>4. CASE /\ kernel.phase # "idle" /\ kernel'.phase = "idle"
               /\ Requests' = Tail(Requests)
      <4>1. k > 1
        BY <2>2, <3>4
      <4>2. k - 1 \in DOMAIN Tail(Requests) /\ (k - 1) + 1 = k
        BY <3>2, <4>1
      <4>3. Tail(Requests)[k - 1] = i
        BY <2>2, <3>2, <4>2
      <4>4. QED
        BY <3>4, <4>2, <4>3 DEF Waits
    <3>5. QED
      BY <1>4, <2>0, <3>3, <3>4, KernelEffect
  <2>3. Waits(i) => Waits(i)' \/ StartOnIopub(i)'
    BY <2>2 DEF Waits
  <2>4. QED
    BY <1>1, <2>1, <2>3 DEF StartComes
<1>5. CASE ReceiveIopub
  <2>1. Waits(i)' = Waits(i)
    BY <1>5, IopubTaken DEF Waits, Requests
  <2>2. ASSUME NEW k \in DOMAIN iopub, iopub[k].type = "busy", iopub[k].parent = i
        PROVE  StartComes(i)' \/ i \in missed'
    <3>1. CASE k = 1
      BY <1>5, <2>2, <3>1, BusyTaken DEF StartComes
    <3>2. CASE k # 1
      <4>1. k - 1 \in DOMAIN iopub' /\ iopub'[k - 1] = iopub[k]
        BY <1>5, <3>2, IopubTaken
      <4>2. StartOnIopub(i)'
        BY <2>2, <4>1 DEF StartOnIopub
      <4>3. QED
        BY <4>2 DEF StartComes
    <3>3. QED
      BY <3>1, <3>2
  <2>3. QED
    BY <1>1, <2>1, <2>2 DEF StartComes, StartOnIopub
<1>6. CASE ReceiveShell
  <2>1. UNCHANGED <<kernel, iopub>>
    BY <1>6 DEF ReceiveShell, TakeAnswer
  <2>2. Waits(i)' = Waits(i) /\ StartOnIopub(i)' = StartOnIopub(i)
    BY <2>1 DEF Waits, StartOnIopub, Requests
  <2>3. QED
    BY <1>1, <2>2 DEF StartComes
<1>7. QED
  BY <1>2, <1>3, <1>4, <1>5, <1>6 DEF QueueStep

\* A start that comes is there still, unless it is the result that is handled.
LEMMA StartStep ==
  ASSUME SyncInv, ViewTypeInv, [Next]_vars, NEW i, StartComes(i)
  PROVE  \/ StartComes(i)' \/ i \in missed'
         \/ HandleOutput /\ results[1].type = "execution_started" /\ results[1].id = i
<1>1. CASE QueueStep
  BY <1>1, QueueStepStart
<1>2. CASE ~QueueStep
  <2>1. UNCHANGED <<kernel, iopub>>
    BY <1>2, OtherStep DEF kernelVars
  <2>2. Waits(i)' = Waits(i) /\ StartOnIopub(i)' = StartOnIopub(i)
    BY <2>1 DEF Waits, StartOnIopub, Requests
  <2>3. CASE ~HandleOutput
    <3>1. results' = results
      BY <1>2, <2>3 DEF Next, BeginSending, Send, DeleteCell, Receive, Connect, ReadNotebook,
                        ReadVersion, ReadExecutions, SendState, BeginOutput, SendOutput,
                        vars, queueVars, viewVars, kernelVars
    <3>2. QED
      BY <2>2, <3>1 DEF StartComes, StartWaits
  <2>4. CASE HandleOutput
    <3>1. PICK r : r = Head(results)
      OBVIOUS
    <3>2. \A j \in DOMAIN results : \/ j = 1
                                    \/ j - 1 \in DOMAIN results' /\ results'[j - 1] = results[j]
      BY <2>4, <3>1, ResultTaken
    <3>3. StartWaits(i) => \/ StartWaits(i)'
                           \/ results[1].type = "execution_started" /\ results[1].id = i
      BY <3>2 DEF StartWaits
    <3>4. QED
      BY <2>2, <2>4, <3>3 DEF StartComes
  <2>5. QED
    BY <2>3, <2>4
<1>3. QED
  BY <1>1, <1>2

\* The end of a run that has been taken is that of no run which is expected.
LEMMA EndTaken ==
  ASSUME SyncInv, SyncInv', ReceiveIopub, iopub[1].type = "idle", NEW i, i = iopub[1].parent,
         NEW x, Expected(x, i)'
  PROVE  i \in missed'
<1>1. /\ QueueInv /\ iopub[1] \in IopubMessage /\ task' = task
      /\ TakeAnswer(iopub[1].type, iopub[1].parent)
  BY IopubTaken DEF SyncInv, IInv
<1>2. i \in RunId /\ TakeAnswer("idle", i)
  BY <1>1 DEF IopubMessage
<1>3. CASE missed' = missed \cup {i}
  BY <1>3
<1>4. ASSUME i[1] \in DOMAIN pending, pending[i[1]].id = {i},
             pending' = PendingAfter("idle", i[1])
      PROVE  FALSE
  <2>1. PICK y \in DOMAIN pending : y = i[1]
    BY <1>4
  <2>2. /\ DOMAIN pending' = DOMAIN pending \ {y}
        /\ \A z \in DOMAIN pending' : pending'[z].id = pending[z].id
    <3>1. pending' = PendingAfter("idle", y)
      BY <1>4, <2>1
    <3>2. QED
      BY <1>1, <3>1, PendingAfterEffect
  <2>3. ~(x \in DOMAIN pending' /\ i \in pending'[x].id)
    BY <1>1, <2>1, <2>2 DEF QueueInv, Registered
  <2>4. ASSUME NEW c \in Client, NamedFor(c, x, i)
        PROVE  FALSE
    <3>1. x = y /\ pending[x].id = None
      BY <1>1, <2>1, <2>4 DEF QueueInv, QueueTypeInv, Prepared, NamedFor, Preparing
    <3>2. QED
      BY <1>4, <2>1, <3>1 DEF None
  <2>5. \E c \in Client : NamedFor(c, x, i)
    BY <1>1, <2>3 DEF Expected, NamedFor
  <2>6. QED
    BY <2>4, <2>5
<1>5. QED
  BY <1>1, <1>2, <1>3, <1>4, AnswerEffect

LEMMA QueueStepUnderway ==
  ASSUME SyncInv, SyncInv', QueueStep, NEW x, NEW i, Underway(i), Expected(x, i)'
  PROVE  Underway(i)'
<1>1. CASE i \in missed
  <2>1. missed \subseteq missed'
    BY DEF QueueStep, Run, Register, Submit, SubmitFails, Announce, NameThen, Abort, Kernel,
       KernelBusy, KernelPrints, KernelReplies, KernelIdle, ReceiveIopub, ReceiveShell,
       TakeAnswer
  <2>2. QED
    BY <1>1, <2>1 DEF Underway
<1>2. CASE UNCHANGED <<kernel, iopub>>
  <2>1. UNCHANGED Requests /\ EndOnIopub(i)' = EndOnIopub(i)
    BY <1>2 DEF Requests, EndOnIopub
  <2>2. QED
    BY <1>1, <2>1 DEF Underway
<1>3. ASSUME NEW c \in Client, Submit(c)
      PROVE  Underway(i)'
  <2>1. UNCHANGED iopub
    BY <1>3, SubmitSends
  <2>2. \A k \in DOMAIN Requests : k \in DOMAIN Requests' /\ Requests'[k] = Requests[k]
    BY <1>3, SubmitRequests
  <2>3. Range(Requests) \subseteq Range(Requests')
    BY <2>2 DEF Range
  <2>4. EndOnIopub(i)' = EndOnIopub(i)
    BY <2>1 DEF EndOnIopub
  <2>5. QED
    BY <1>1, <2>3, <2>4 DEF Underway
<1>4. CASE Kernel
  <2>1. PICK h : h = Requests[1]
    OBVIOUS
  <2>2. /\ Requests # <<>> /\ Requests \in Seq(RunId)
        /\ \A k \in DOMAIN iopub : k \in DOMAIN iopub' /\ iopub'[k] = iopub[k]
        /\ \/ Requests' = Requests
           \/ Requests' = Tail(Requests) /\ EndOnIopub(h)'
    BY <1>4, <2>1, KernelEffect
  <2>3. EndOnIopub(i) => EndOnIopub(i)'
    BY <2>2 DEF EndOnIopub
  <2>4. Range(Requests) = Range(Tail(Requests)) \cup {h}
    BY <2>1, <2>2, TailRange
  <2>5. i \in Range(Requests) => i \in Range(Requests') \/ EndOnIopub(i)'
    BY <2>2, <2>4
  <2>6. QED
    BY <1>1, <2>3, <2>5 DEF Underway
<1>5. CASE ReceiveIopub
  <2>1. Requests' = Requests
    BY <1>5, IopubTaken DEF Requests
  <2>2. ASSUME NEW k \in DOMAIN iopub, iopub[k].type = "idle", iopub[k].parent = i
        PROVE  Underway(i)'
    <3>1. CASE k = 1
      BY <1>5, <2>2, <3>1, EndTaken DEF Underway
    <3>2. CASE k # 1
      <4>1. k - 1 \in DOMAIN iopub' /\ iopub'[k - 1] = iopub[k]
        BY <1>5, <3>2, IopubTaken
      <4>2. EndOnIopub(i)'
        BY <2>2, <4>1 DEF EndOnIopub
      <4>3. QED
        BY <4>2 DEF Underway
    <3>3. QED
      BY <3>1, <3>2
  <2>3. QED
    BY <1>1, <2>1, <2>2 DEF Underway, EndOnIopub
<1>6. QED
  BY <1>2, <1>3, <1>4, <1>5 DEF QueueStep, Run, Register, SubmitFails, Announce, NameThen,
     Abort, kernelVars, ReceiveShell, TakeAnswer

LEMMA UnderwayStep ==
  ASSUME SyncInv, SyncInv', ViewTypeInv, UnderwayInv, [Next]_vars
  PROVE  UnderwayInv'
<1>1. ASSUME NEW x, NEW i, Expected(x, i)'
      PROVE  Underway(i)'
  <2>1. CASE QueueStep
    <3>1. CASE Expected(x, i)
      <4>1. Underway(i)
        BY <3>1 DEF UnderwayInv
      <4>2. QED
        BY <1>1, <2>1, <4>1, QueueStepUnderway
    <3>2. CASE Sends(x, i)
      BY <3>2 DEF Sends, Waits, Underway, Range
    <3>3. QED
      BY <1>1, <2>1, <3>1, <3>2, QueueStepKnown
  <2>2. CASE ~QueueStep
    <3>1. /\ UNCHANGED <<pending, kernel, iopub, missed>>
          /\ \A c \in Client : NamedFor(c, x, i)' => NamedFor(c, x, i)
      BY <2>2, OtherStep DEF kernelVars
    <3>2. Underway(i)
      BY <1>1, <3>1 DEF UnderwayInv, Expected
    <3>3. QED
      BY <3>1, <3>2 DEF Underway, EndOnIopub, Requests
  <2>3. QED
    BY <2>1, <2>2
<1>2. QED
  BY <1>1 DEF UnderwayInv

LEMMA ServerStep ==
  ASSUME SyncInv, SyncInv', ViewTypeInv, ServerInv, [Next]_vars
  PROVE  ServerInv'
BY WaitingEndStep, KnownInvStep, UnderwayStep DEF ServerInv

LEMMA InitServer == Init => ServerInv
<1> SUFFICES ASSUME Init PROVE ServerInv
  OBVIOUS
<1>1. /\ DOMAIN pending = {} /\ DOMAIN results = {}
      /\ \A c \in Client : task[c].at # "naming"
      /\ \A x \in DOMAIN cell : cell[x].outputs = <<>> /\ cell[x].number = {}
  BY DEF Init, QueueInit, Idle, None
<1>2. Range(<<>>) = {}
  BY DEF Range
<1>3. \A x, i : ~Expected(x, i)
  BY <1>1 DEF Expected, NamedFor
<1>4. \A x \in DOMAIN cell : \A i : ~Known(x, i)
  BY <1>1, <1>2, <1>3 DEF Known, Held, ResultWaits
<1>5. QED
  BY <1>1, <1>3, <1>4 DEF ServerInv, WaitingEndInv, KnownInv, UnderwayInv

----------------------------------------------------------------------------
(* Where messages lead. *)

LEMMA LeadsLonger ==
  ASSUME NEW v, NEW q, NEW x, NEW w, Leads(v, q, x, w), Len(q) \in Nat,
         NEW m, NEW r, Len(r) = Len(q) + 1, \A k \in 1..Len(q) : r[k] = q[k],
         r[Len(q) + 1] = m
  PROVE  Leads(v, r, x, ViewAfter(w, m, x))
<1>1. PICK n \in Nat : n = Len(q)
  OBVIOUS
<1>2. PICK f : /\ f[0] = v /\ \A k \in 1..n : f[k] = ViewAfter(f[k - 1], q[k], x)
               /\ f[n] = w
  BY <1>1 DEF Leads
<1>3. PICK g : g = [k \in 0..n + 1 |-> IF k = n + 1 THEN ViewAfter(w, m, x) ELSE f[k]]
  OBVIOUS
<1>4. g[0] = v /\ g[n + 1] = ViewAfter(w, m, x) /\ \A k \in 0..n : g[k] = f[k]
  BY <1>2, <1>3
<1>5. ASSUME NEW k \in 1..n + 1
      PROVE  g[k] = ViewAfter(g[k - 1], r[k], x)
  <2>1. CASE k = n + 1
    <3>1. k - 1 = n
      BY <2>1
    <3>2. QED
      BY <1>1, <1>2, <1>4, <2>1, <3>1
  <2>2. CASE k \in 1..n
    <3>1. k \in 0..n /\ k - 1 \in 0..n
      BY <2>2
    <3>2. QED
      BY <1>1, <1>2, <1>4, <2>2, <3>1
  <2>3. QED
    BY <2>1, <2>2
<1>6. Len(r) = n + 1
  BY <1>1
<1>7. QED
  BY <1>4, <1>5, <1>6 DEF Leads

LEMMA LeadsShorter ==
  ASSUME NEW v, NEW q, NEW x, NEW w, Leads(v, q, x, w), Len(q) \in Nat, Len(q) > 0,
         NEW r, Len(r) = Len(q) - 1, \A k \in 1..Len(q) - 1 : r[k] = q[k + 1]
  PROVE  Leads(ViewAfter(v, q[1], x), r, x, w)
<1>1. PICK n \in Nat : n = Len(q) - 1
  OBVIOUS
<1>2. PICK f : /\ f[0] = v /\ \A k \in 1..n + 1 : f[k] = ViewAfter(f[k - 1], q[k], x)
               /\ f[n + 1] = w
  BY <1>1 DEF Leads
<1>3. PICK g : g = [k \in 0..n |-> f[k + 1]]
  OBVIOUS
<1>4. f[1] = ViewAfter(f[1 - 1], q[1], x) /\ 1 - 1 = 0
  BY <1>1, <1>2
<1>5. g[0] = ViewAfter(v, q[1], x) /\ g[n] = w /\ \A k \in 0..n : g[k] = f[k + 1]
  BY <1>2, <1>3, <1>4
<1>6. ASSUME NEW k \in 1..n
      PROVE  g[k] = ViewAfter(g[k - 1], r[k], x)
  <2>1. k + 1 \in 1..n + 1 /\ (k + 1) - 1 = k /\ (k - 1) + 1 = k /\ k - 1 \in 0..n
        /\ k \in 0..n
    OBVIOUS
  <2>2. f[k + 1] = ViewAfter(f[(k + 1) - 1], q[k + 1], x)
    BY <1>2, <2>1
  <2>3. r[k] = q[k + 1] /\ g[k] = f[k + 1] /\ g[k - 1] = f[k]
    BY <1>1, <1>5, <2>1
  <2>4. QED
    BY <2>1, <2>2, <2>3
<1>7. Len(r) = n
  BY <1>1
<1>8. QED
  BY <1>5, <1>6, <1>7 DEF Leads

LEMMA NoResultKeeps ==
  ASSUME NEW a, NEW b, NEW m, m.type \notin ResultTypes, NEW x
  PROVE  ViewAfter(<<a, b>>, m, x) = <<a, b>>
BY DEF ViewAfter, OutputsAfter, NumberAfter, ResultTypes

LEMMA LeadsCalm ==
  ASSUME NEW a, NEW b, NEW q, NEW x, Len(q) \in Nat,
         \A k \in 1..Len(q) : q[k].type \notin ResultTypes
  PROVE  Leads(<<a, b>>, q, x, <<a, b>>)
<1>1. PICK v, n : v = <<a, b>> /\ n = Len(q)
  OBVIOUS
<1>2. PICK g : g = [k \in 0..n |-> v]
  OBVIOUS
<1>3. n \in Nat /\ \A k \in 0..n : g[k] = v
  BY <1>1, <1>2
<1>4. ASSUME NEW k \in 1..n
      PROVE  g[k] = ViewAfter(g[k - 1], q[k], x)
  <2>1. g[k] = v /\ g[k - 1] = v
    BY <1>3
  <2>2. QED
    BY <1>1, <2>1, NoResultKeeps
<1>5. g[0] = v /\ g[n] = v
  BY <1>3
<1>6. Leads(v, q, x, v)
  BY <1>1, <1>4, <1>5 DEF Leads
<1>7. QED
  BY <1>1, <1>6

LEMMA LeadsNowhere ==
  ASSUME NEW v, NEW q, NEW x, NEW w, Leads(v, q, x, w), Len(q) = 0
  PROVE  w = v
BY DEF Leads

----------------------------------------------------------------------------
(* What is shown of a cell, step by step. *)

LEMMA LeadsToPair ==
  ASSUME NEW a, NEW b, NEW q, NEW x, NEW w, Leads(<<a, b>>, q, x, w), Len(q) \in Nat
  PROVE  w = <<w[1], w[2]>>
<1>1. PICK n \in Nat : n = Len(q)
  OBVIOUS
<1>2. PICK f : /\ f[0] = <<a, b>> /\ \A k \in 1..n : f[k] = ViewAfter(f[k - 1], q[k], x)
               /\ f[n] = w
  BY <1>1 DEF Leads
<1>3. CASE n = 0
  BY <1>2, <1>3
<1>4. CASE n # 0
  <2>1. w = ViewAfter(f[n - 1], q[n], x)
    BY <1>2, <1>4
  <2>2. QED
    BY <2>1 DEF ViewAfter
<1>5. QED
  BY <1>3, <1>4

EndRemains(x) == EndComes(x) => EndComes(x)'

LEMMA SameEndRemains ==
  ASSUME UNCHANGED <<pending, results>>, NEW x, cell'[x] = cell[x]
  PROVE  EndRemains(x)
BY DEF EndRemains, EndComes, Begun, RunIs, Held

LEMMA QueueStepEnds ==
  ASSUME SyncInv, QueueStep, NEW x
  PROVE  EndRemains(x)
<1>0. Held(x)' = Held(x)
  BY DEF QueueStep, viewVars, Held
<1>1. CASE results' = results /\ RunsRemain
  <2>1. Begun(x) => Begun(x)'
    BY <1>0, <1>1 DEF RunsRemain, Begun
  <2>2. QED
    BY <1>1, <2>1 DEF EndRemains, EndComes
<1>2. ASSUME NEW r, Makes(r)
      PROVE  EndRemains(x)
  <2>1. results \in Seq(ResultMessage)
    BY DEF SyncInv, IInv, QueueInv, QueueTypeInv
  <2>2. PICK n : n = Len(results)
    OBVIOUS
  <2>3. /\ DOMAIN results = 1..n /\ n \in Nat /\ DOMAIN results' = 1..n + 1
        /\ \A i \in 1..n : results'[i] = results[i]
        /\ results'[n + 1] = r
    BY <1>2, <2>1, <2>2, AppendRange DEF Makes
  <2>4. \A i : RunIs(x, i) => RunIs(x, i)' \/ IsEnd(r, x)
    BY <1>2 DEF Makes
  <2>5. Begun(x) => Begun(x)' \/ IsEnd(r, x)
    BY <1>0, <2>4 DEF Begun
  <2>6. IsEnd(r, x) => EndComes(x)'
    <3>1. n + 1 \in DOMAIN results' /\ results'[n + 1] = r
      BY <2>3
    <3>2. QED
      BY <3>1 DEF EndComes
  <2>7. ASSUME NEW j \in DOMAIN results, IsEnd(results[j], x)
        PROVE  EndComes(x)'
    <3>1. j \in DOMAIN results' /\ results'[j] = results[j]
      BY <2>3
    <3>2. QED
      BY <2>7, <3>1 DEF EndComes
  <2>8. Begun(x)' => EndComes(x)'
    BY DEF EndComes
  <2>9. QED
    BY <2>5, <2>6, <2>7, <2>8 DEF EndRemains, EndComes
<1>3. QED
  BY <1>1, <1>2, QueueStepResults

\* What is being told or sent of a result to client c remains.
OutputToKept(c) ==
  /\ OutputTo(c)' <=> OutputTo(c)
  /\ OutputTo(c) => output'.message = output.message

LEMMA OutputKeptAfter ==
  ASSUME NEW c, OutputToKept(c), NEW x, NEW w
  PROVE  AfterOutput(w, c, x)' = AfterOutput(w, c, x)
BY DEF OutputToKept, OutputTo, AfterOutput

LEMMA SameOutputKept ==
  ASSUME output' = output, NEW c
  PROVE  OutputToKept(c)
BY DEF OutputToKept, OutputTo

\* The steps that change nothing of what a client shows and of what comes to it.
LEMMA TracksKept ==
  ASSUME NEW c, NEW x, Tracks(c, x), EndRemains(x), OutputToKept(c),
         client'[c] = client[c], toClient'[c] = toClient[c], cell'[x] = cell[x]
  PROVE  Tracks(c, x)'
<1>1. Follows(c, x)'
  <2>1. PICK a, b, q : /\ a = client[c].shown[x].outputs /\ b = client[c].shown[x].number
                       /\ q = toClient[c]
    OBVIOUS
  <2>2. PICK w : Leads(<<a, b>>, q, x, w) /\ Agrees(AfterOutput(w, c, x), cell[x])
    BY <2>1 DEF Tracks, Follows
  <2>3. AfterOutput(w, c, x)' = AfterOutput(w, c, x)
    BY OutputKeptAfter
  <2>4. Agrees(AfterOutput(w, c, x)', cell'[x])
    BY <2>2, <2>3
  <2>5. a = client'[c].shown[x].outputs /\ b = client'[c].shown[x].number /\ q = toClient'[c]
    BY <2>1
  <2>6. QED
    BY <2>2, <2>4, <2>5 DEF Follows
<1>2. Ends(c, x)'
  BY DEF Tracks, Ends, RunsAt, OutputToKept, EndRemains
<1>3. QED
  BY <1>1, <1>2 DEF Tracks

\* A message that comes to d, and is no result or the one that is being sent.
LEMMA DeliverFollows ==
  ASSUME ViewTypeInv, NEW d \in Viewer, NEW m, Deliver(d, m), UNCHANGED <<client, cell>>,
         NEW c \in Viewer, NEW x, Follows(c, x),
         \/ OutputToKept(c) /\ (c = d => m.type \notin ResultTypes)
         \/ c = d /\ OutputTo(c) /\ m = output.message /\ ~OutputTo(c)'
  PROVE  Follows(c, x)'
<1>1. PICK a, b, q, r : /\ a = client[c].shown[x].outputs /\ b = client[c].shown[x].number
                        /\ q = toClient[c] /\ r = toClient'[c]
  OBVIOUS
<1>2. PICK w : Leads(<<a, b>>, q, x, w) /\ Agrees(AfterOutput(w, c, x), cell[x])
  BY <1>1 DEF Follows
<1>3. a = client'[c].shown[x].outputs /\ b = client'[c].shown[x].number
  BY <1>1
<1>4. CASE c # d
  <2>1. r = q
    BY <1>1, <1>4, DeliverEffect
  <2>2. AfterOutput(w, c, x)' = AfterOutput(w, c, x)
    BY <1>4, OutputKeptAfter
  <2>3. Agrees(AfterOutput(w, c, x)', cell'[x])
    BY <1>2, <2>2
  <2>4. QED
    BY <1>1, <1>2, <1>3, <2>1, <2>3 DEF Follows
<1>5. CASE c = d
  <2>1. /\ Len(q) \in Nat /\ Len(r) = Len(q) + 1 /\ \A k \in 1..Len(q) : r[k] = q[k]
        /\ r[Len(q) + 1] = m
    BY <1>1, <1>5, DeliverEffect
  <2>2. PICK u : u = ViewAfter(w, m, x)
    OBVIOUS
  <2>3. Leads(<<a, b>>, r, x, u)
    BY <1>2, <2>1, <2>2, LeadsLonger
  <2>4. AfterOutput(u, c, x)' = AfterOutput(w, c, x)
    <3>1. CASE OutputToKept(c) /\ m.type \notin ResultTypes
      <4>1. u = w
        BY <1>2, <2>1, <2>2, <3>1, LeadsToPair, NoResultKeeps
      <4>2. QED
        BY <3>1, <4>1, OutputKeptAfter
    <3>2. CASE OutputTo(c) /\ m = output.message /\ ~OutputTo(c)'
      BY <2>2, <3>2 DEF AfterOutput, OutputTo
    <3>3. QED
      BY <1>5, <3>1, <3>2
  <2>5. Agrees(AfterOutput(u, c, x)', cell'[x])
    BY <1>2, <2>4
  <2>6. QED
    BY <1>1, <1>3, <2>3, <2>5 DEF Follows
<1>6. QED
  BY <1>4, <1>5

LEMMA DeliverEnds ==
  ASSUME ViewTypeInv, NEW d \in Viewer, NEW m, Deliver(d, m), UNCHANGED client,
         NEW c \in Viewer, NEW x, Ends(c, x), EndRemains(x),
         \/ OutputToKept(c) /\ (c = d => m.type \notin ResultTypes)
         \/ c = d /\ OutputTo(c) /\ m = output.message /\ ~OutputTo(c)'
  PROVE  Ends(c, x)'
<1>1. CASE c # d
  <2>1. toClient'[c] = toClient[c]
    BY <1>1, DeliverEffect
  <2>2. OutputToKept(c)
    BY <1>1
  <2>3. QED
    BY <2>1, <2>2 DEF Ends, RunsAt, EndRemains, OutputToKept
<1>2. CASE c = d
  <2>1. PICK q, r, n : q = toClient[c] /\ r = toClient'[c] /\ n = Len(q)
    OBVIOUS
  <2>2. /\ n \in Nat /\ Len(r) = n + 1 /\ \A k \in 1..n : r[k] = q[k]
        /\ r[n + 1] = m
    BY <1>2, <2>1, DeliverEffect
  <2>3. OutputTo(c)' /\ IsBeginning(output'.message, x) => EndComes(x)'
    BY <1>2 DEF Ends, OutputToKept, EndRemains
  <2>4. ASSUME NEW k \in 0..n + 1, RunsAt(c, x, k)'
        PROVE  \/ EndComes(x)'
               \/ OutputTo(c)' /\ IsEnd(output'.message, x)
               \/ \E j \in 1..n + 1 : j > k /\ IsEnd(r[j], x)
    <3>1. CASE k = n + 1
      <4>1. IsBeginning(m, x)
        BY <2>1, <2>2, <2>4, <3>1 DEF RunsAt
      <4>2. OutputTo(c) /\ m = output.message
        BY <1>2, <4>1 DEF IsBeginning, Beginnings, ResultTypes
      <4>3. QED
        BY <4>1, <4>2 DEF Ends, EndRemains
    <3>2. CASE k \in 0..n
      <4>1. RunsAt(c, x, k)
        BY <2>1, <2>2, <2>4, <3>2 DEF RunsAt
      <4>2. \/ EndComes(x)
            \/ OutputTo(c) /\ IsEnd(output.message, x)
            \/ \E j \in 1..n : j > k /\ IsEnd(q[j], x)
        BY <2>1, <3>2, <4>1 DEF Ends
      <4>3. CASE EndComes(x)
        BY <4>3 DEF EndRemains
      <4>4. CASE OutputTo(c) /\ IsEnd(output.message, x)
        <5>1. CASE OutputToKept(c)
          BY <4>4, <5>1 DEF OutputToKept
        <5>2. CASE m = output.message
          <6>1. n + 1 \in 1..n + 1 /\ n + 1 > k /\ IsEnd(r[n + 1], x)
            BY <2>2, <3>2, <4>4, <5>2
          <6>2. QED
            BY <6>1
        <5>3. QED
          BY <1>2, <5>1, <5>2
      <4>5. ASSUME NEW j \in 1..n, j > k, IsEnd(q[j], x)
            PROVE  j \in 1..n + 1 /\ IsEnd(r[j], x)
        BY <2>2, <4>5
      <4>6. QED
        BY <4>2, <4>3, <4>4, <4>5
    <3>3. QED
      BY <2>2, <3>1, <3>2
  <2>5. QED
    BY <2>1, <2>2, <2>3, <2>4 DEF Ends
<1>3. QED
  BY <1>1, <1>2

LEMMA DeliverTracks ==
  ASSUME ViewTypeInv, UNCHANGED <<pending, results, client, cell>>,
         NEW d \in Viewer, NEW m, Deliver(d, m), NEW c \in Viewer, NEW x, Tracks(c, x),
         \/ OutputToKept(c) /\ (c = d => m.type \notin ResultTypes)
         \/ c = d /\ OutputTo(c) /\ m = output.message /\ ~OutputTo(c)'
  PROVE  Tracks(c, x)'
<1>1. EndRemains(x) /\ Follows(c, x) /\ Ends(c, x)
  BY SameEndRemains DEF Tracks
<1>2. Follows(c, x)'
  BY <1>1, DeliverFollows
<1>3. Ends(c, x)'
  BY <1>1, DeliverEnds
<1>4. QED
  BY <1>2, <1>3 DEF Tracks

LEMMA SendTracks ==
  ASSUME ShownCellsInv, NEW k \in Client, Send(k), NEW c \in Viewer, NEW x, Tracks(c, x)
  PROVE  Tracks(c, x)'
<1>1. PICK d, m : /\ task[k].at = "broadcast" /\ m = task[k].message
                  /\ d \in task[k].rest /\ Deliver(d, m)
  BY DEF Send
<1>2. /\ d \in Viewer
      /\ IsPending(m) \/ IsDelete(m)
  BY <1>1 DEF ShownCellsInv, ViewTypeInv, IsTask
<1>3. m.type \notin ResultTypes
  BY <1>2 DEF IsPending, IsDelete, ResultTypes
<1>4. UNCHANGED <<client, cell, output, pending, results>>
  BY DEF Send
<1>5. OutputToKept(c) /\ ViewTypeInv
  BY <1>4, SameOutputKept DEF ShownCellsInv
<1>6. QED
  BY <1>1, <1>2, <1>3, <1>4, <1>5, DeliverTracks

LEMMA SendStateTracks ==
  ASSUME ShownCellsInv, NEW u \in Viewer, SendState(u), NEW c \in Viewer, NEW x, Tracks(c, x)
  PROVE  Tracks(c, x)'
<1>1. PICK m : task[u].at = "state" /\ m = task[u].message /\ Deliver(u, m)
  BY DEF SendState
<1>2. u \in Client
  BY ViewAssumption
<1>3. IsState(m)
  BY <1>1, <1>2 DEF ShownCellsInv, ViewTypeInv, IsTask
<1>4. m.type \notin ResultTypes
  BY <1>3 DEF IsState, ResultTypes
<1>5. UNCHANGED <<client, cell, output, pending, results>>
  BY DEF SendState
<1>6. OutputToKept(c) /\ ViewTypeInv
  BY <1>5, SameOutputKept DEF ShownCellsInv
<1>7. QED
  BY <1>1, <1>4, <1>5, <1>6, DeliverTracks

LEMMA SendOutputTracks ==
  ASSUME ShownCellsInv, SendOutput, NEW c \in Viewer, NEW x, Tracks(c, x)
  PROVE  Tracks(c, x)'
<1>1. PICK d, m : /\ output.at = "broadcast" /\ m = output.message
                  /\ d \in output.rest /\ Deliver(d, m)
                  /\ output' = IF output.rest = {d} THEN Idle
                               ELSE [output EXCEPT !.rest = @ \ {d}]
  BY DEF SendOutput
<1>2. /\ {"at", "rest", "message"} \subseteq DOMAIN output
      /\ output.rest \subseteq Viewer /\ d \in Viewer /\ ViewTypeInv
  BY <1>1 DEF ShownCellsInv, ViewTypeInv, IsOutputTask, Idle
<1>3. UNCHANGED <<client, cell, pending, results>>
  BY DEF SendOutput, queueVars
<1>4. /\ output'.at = "broadcast" => output'.rest = output.rest \ {d} /\ output'.message = m
      /\ output.rest # {d} => output'.at = "broadcast"
      /\ output'.at # "telling"
  BY <1>1, <1>2 DEF Idle
<1>5. \/ OutputToKept(c) /\ (c = d => m.type \notin ResultTypes)
      \/ c = d /\ OutputTo(c) /\ m = output.message /\ ~OutputTo(c)'
  <2>1. CASE c = d
    BY <1>1, <1>4, <2>1 DEF OutputTo, Owes
  <2>2. CASE c # d
    <3>1. OutputTo(c) => OutputTo(c)' /\ output'.message = output.message
      BY <1>1, <1>4, <2>2 DEF OutputTo, Owes
    <3>2. OutputTo(c)' => OutputTo(c)
      BY <1>1, <1>4 DEF OutputTo, Owes
    <3>3. QED
      BY <2>2, <3>1, <3>2 DEF OutputToKept
  <2>3. QED
    BY <2>1, <2>2
<1>6. QED
  BY <1>1, <1>2, <1>3, <1>5, DeliverTracks

\* The reading of who is connected: a client that has joined is.
LEMMA BeginOutputTracks ==
  ASSUME ViewTypeInv, BeginOutput, NEW c \in Joiners, NEW x, Tracks(c, x)
  PROVE  Tracks(c, x)'
<1>1. c \in Viewer /\ client[c].session # "away"
  BY DEF Joiners
<1>2. UNCHANGED <<queueVars, cell, toClient, client>> /\ output.at = "telling"
  BY BeginOutputEffect
<1>3. OutputToKept(c)
  <2>1. Owes(output', c) /\ output'.message = output.message
    BY <1>1, BeginOutputEffect
  <2>2. OutputTo(c)'
    BY <2>1 DEF OutputTo
  <2>3. OutputTo(c)
    BY <1>2 DEF OutputTo, Owes
  <2>4. QED
    BY <2>1, <2>2, <2>3 DEF OutputToKept
<1>4. EndRemains(x)
  BY <1>2, SameEndRemains DEF queueVars
<1>5. QED
  BY <1>2, <1>3, <1>4, TracksKept

LEMMA AgreesAfter ==
  ASSUME NEW w, NEW s, s \in [outputs : Seq(RunId), number : SUBSET RunId], Agrees(w, s),
         NEW r \in ResultMessage
  PROVE  Agrees(ViewAfter(w, r, r.cell), CellAfter(s, r))
<1>1. DOMAIN s = {"outputs", "number"}
  OBVIOUS
<1>2. CASE r.type = "execution_started"
  <2>1. CellAfter(s, r) = [outputs |-> <<>>, number |-> None]
    BY <1>2 DEF CellAfter
  <2>2. QED
    BY <1>2, <2>1 DEF Agrees, ViewAfter, OutputsAfter
<1>3. CASE r.type = "cell_output"
  <2>1. PICK o : o = Append(s.outputs, r.id)
    OBVIOUS
  <2>2. CellAfter(s, r) = [s EXCEPT !.outputs = o]
    BY <1>3, <2>1 DEF CellAfter
  <2>3. w[1] = s.outputs /\ (s.number # None => w[2] = s.number)
    BY DEF Agrees
  <2>4. ViewAfter(w, r, r.cell) = <<o, w[2]>>
    BY <1>3, <2>1, <2>3 DEF ViewAfter, OutputsAfter, NumberAfter
  <2>5. QED
    BY <1>1, <2>2, <2>3, <2>4 DEF Agrees
<1>4. CASE r.type = "execution_finished"
  <2>1. CellAfter(s, r) = [s EXCEPT !.number = {r.id}]
    BY <1>4 DEF CellAfter
  <2>2. ViewAfter(w, r, r.cell) = <<w[1], {r.id}>>
    BY <1>4 DEF ViewAfter, OutputsAfter, NumberAfter
  <2>3. QED
    BY <1>1, <2>1, <2>2 DEF Agrees
<1>5. CASE r.type = "cell_idle"
  BY <1>5 DEF CellAfter, Agrees, ViewAfter, OutputsAfter, NumberAfter
<1>6. QED
  BY <1>2, <1>3, <1>4, <1>5 DEF ResultMessage

LEMMA OtherCellKeeps ==
  ASSUME NEW w, NEW s, Agrees(w, s), NEW r, NEW x, x # r.cell
  PROVE  Agrees(ViewAfter(w, r, x), s)
BY DEF Agrees, ViewAfter, OutputsAfter, NumberAfter

\* A result that is no end leaves nothing, or something of its own run.
LEMMA HeldOfResult ==
  ASSUME NEW s, s \in [outputs : Seq(RunId), number : SUBSET RunId], NEW r \in ResultMessage,
         r.type # "cell_idle", NEW t, t = CellAfter(s, r)
  PROVE  LET held == Range(t.outputs) \cup t.number IN held = {} \/ r.id \in held
<1>1. DOMAIN s = {"outputs", "number"} /\ r.id \in RunId /\ s.outputs \in Seq(RunId)
  BY DEF ResultMessage
<1>2. CASE r.type = "execution_started"
  <2>1. t = [outputs |-> <<>>, number |-> None]
    BY <1>2 DEF CellAfter
  <2>2. Range(<<>>) = {}
    BY DEF Range
  <2>3. QED
    BY <2>1, <2>2 DEF None
<1>3. CASE r.type = "cell_output"
  <2>1. PICK o : o = Append(s.outputs, r.id)
    OBVIOUS
  <2>2. t = [s EXCEPT !.outputs = o]
    BY <1>3, <2>1 DEF CellAfter
  <2>3. r.id \in Range(o)
    BY <1>1, <2>1, AppendRange
  <2>4. QED
    BY <1>1, <2>2, <2>3
<1>4. CASE r.type = "execution_finished"
  <2>1. t = [s EXCEPT !.number = {r.id}]
    BY <1>4 DEF CellAfter
  <2>2. QED
    BY <1>1, <2>1
<1>5. QED
  BY <1>2, <1>3, <1>4 DEF ResultMessage

\* An end that comes comes still, or it is the result that is handled; after any
\* other result of the cell there is one to come.
LEMMA HandleOutputEnds ==
  ASSUME SyncInv, WaitingEndInv, HandleOutput, NEW r, r = Head(results), NEW x \in DOMAIN cell
  PROVE  /\ EndComes(x) => EndComes(x)' \/ IsEnd(r, x)
         /\ r.cell = x /\ r.type # "cell_idle" => EndComes(x)'
<1>1. /\ \A j \in DOMAIN results :
           \/ j = 1 /\ results[j] = r
           \/ j - 1 \in DOMAIN results' /\ results'[j - 1] = results[j]
      /\ 1 \in DOMAIN results /\ DOMAIN results \subseteq Nat \ {0}
  BY ResultTaken
<1>2. /\ r \in ResultMessage /\ r = results[1] /\ UNCHANGED pending
      /\ r.cell \in DOMAIN cell => cell' = [cell EXCEPT ![r.cell] = CellAfter(@, r)]
      /\ r.cell \notin DOMAIN cell => cell' = cell
  BY HandleOutputEffect
<1>3. \A y, i : RunIs(y, i) <=> RunIs(y, i)'
  BY <1>2 DEF RunIs
<1>4. ASSUME NEW j \in DOMAIN results, IsEnd(results[j], x)
      PROVE  IsEnd(r, x) \/ EndComes(x)'
  <2>1. CASE j = 1 /\ results[j] = r
    BY <1>4, <2>1
  <2>2. CASE j - 1 \in DOMAIN results' /\ results'[j - 1] = results[j]
    BY <1>4, <2>2 DEF EndComes
  <2>3. QED
    BY <1>1, <2>1, <2>2
<1>5. ASSUME r.cell = x, r.type # "cell_idle"
      PROVE  EndComes(x)'
  <2>1. RunIs(x, r.id) \/ \E i \in DOMAIN results : IsEnd(results[i], x)
    BY <1>1, <1>2, <1>5 DEF WaitingEndInv
  <2>2. ~IsEnd(r, x)
    BY <1>5 DEF IsEnd
  <2>3. CASE RunIs(x, r.id)
    <3>1. cell[x] \in [outputs : Seq(RunId), number : SUBSET RunId]
      BY DEF SyncInv, NotebookInv, SyncTypeInv
    <3>2. PICK s, t : s = cell[x] /\ t = CellAfter(s, r)
      OBVIOUS
    <3>3. cell'[x] = t
      BY <1>2, <1>5, <3>2
    <3>4. Range(t.outputs) \cup t.number = {} \/ r.id \in Range(t.outputs) \cup t.number
      BY <1>2, <1>5, <3>1, <3>2, HeldOfResult
    <3>5. Held(x)' = {} \/ r.id \in Held(x)'
      BY <3>3, <3>4 DEF Held
    <3>6. Begun(x)'
      BY <1>3, <2>3, <3>5 DEF Begun
    <3>7. QED
      BY <3>6 DEF EndComes
  <2>4. QED
    BY <1>4, <2>1, <2>2, <2>3
<1>6. ASSUME Begun(x)
      PROVE  EndComes(x)' \/ IsEnd(r, x)
  <2>1. CASE r.cell # x
    <3>1. cell'[x] = cell[x]
      BY <1>2, <2>1
    <3>2. Held(x)' = Held(x)
      BY <3>1 DEF Held
    <3>3. Begun(x)'
      BY <1>3, <1>6, <3>2 DEF Begun
    <3>4. QED
      BY <3>3 DEF EndComes
  <2>2. CASE r.cell = x /\ r.type = "cell_idle"
    BY <2>2 DEF IsEnd
  <2>3. QED
    BY <1>5, <2>1, <2>2
<1>7. QED
  BY <1>4, <1>5, <1>6 DEF EndComes

\* What the handling of a result leaves to be sent to a client that has joined.
LEMMA HandleOutputSends ==
  ASSUME SyncInv, HandleOutput, NEW r, r = Head(results), NEW c \in Joiners
  PROVE  /\ r \in ResultMessage /\ ~OutputTo(c) /\ UNCHANGED <<toClient, client>>
         /\ OutputTo(c)' => output'.message = r
         /\ r.cell \in DOMAIN cell =>
              cell' = [cell EXCEPT ![r.cell] = CellAfter(@, r)] /\ OutputTo(c)'
         /\ r.cell \notin DOMAIN cell => cell' = cell
         /\ r.type = "cell_idle" => OutputTo(c)'
         /\ DOMAIN cell' = DOMAIN cell
<1>1. /\ r \in ResultMessage /\ output = Idle /\ UNCHANGED <<toClient, client>>
      /\ r.cell \in DOMAIN cell =>
           /\ cell' = [cell EXCEPT ![r.cell] = CellAfter(@, r)]
           /\ output' = Telling(r)
      /\ r.cell \notin DOMAIN cell =>
           /\ cell' = cell
           /\ output' = IF r.type = "cell_idle" THEN Telling(r) ELSE Idle
      /\ DOMAIN cell' = DOMAIN cell
  BY HandleOutputEffect
<1>2. Idle.at = "idle"
  BY DEF Idle
<1>3. output' = Telling(r) => OutputTo(c)' /\ output'.message = r
  BY DEF OutputTo, Owes, Telling
<1>4. output' = Telling(r) \/ output' = Idle
  BY <1>1
<1>5. ~OutputTo(c) /\ (output' = Idle => ~OutputTo(c)')
  BY <1>1, <1>2 DEF OutputTo, Owes
<1>6. QED
  BY <1>1, <1>3, <1>4, <1>5

LEMMA HandleOutputTracks ==
  ASSUME SyncInv, WaitingEndInv, HandleOutput,
         NEW c \in Joiners, NEW x \in DOMAIN cell, Tracks(c, x)
  PROVE  Tracks(c, x)'
<1>1. PICK r : r = Head(results)
  OBVIOUS
<1>2. /\ r \in ResultMessage /\ ~OutputTo(c) /\ UNCHANGED <<toClient, client>>
      /\ OutputTo(c)' => output'.message = r
      /\ r.cell \in DOMAIN cell =>
           cell' = [cell EXCEPT ![r.cell] = CellAfter(@, r)] /\ OutputTo(c)'
      /\ r.cell \notin DOMAIN cell => cell' = cell
      /\ r.type = "cell_idle" => OutputTo(c)'
  BY <1>1, HandleOutputSends
<1>3. Follows(c, x)'
  <2>1. PICK a, b, q : /\ a = client[c].shown[x].outputs /\ b = client[c].shown[x].number
                       /\ q = toClient[c]
    OBVIOUS
  <2>2. PICK w : Leads(<<a, b>>, q, x, w) /\ Agrees(AfterOutput(w, c, x), cell[x])
    BY <2>1 DEF Tracks, Follows
  <2>3. Agrees(w, cell[x])
    BY <1>2, <2>2 DEF AfterOutput, OutputTo
  <2>4. AfterOutput(w, c, x)' = ViewAfter(w, r, x) \/ AfterOutput(w, c, x)' = w
    BY <1>2 DEF AfterOutput, OutputTo
  <2>5. r.cell \in DOMAIN cell => AfterOutput(w, c, x)' = ViewAfter(w, r, x)
    BY <1>2 DEF AfterOutput, OutputTo
  <2>6. Agrees(AfterOutput(w, c, x)', cell'[x])
    <3>1. CASE x = r.cell
      <4>1. cell'[x] = CellAfter(cell[x], r)
        BY <1>2, <3>1
      <4>2. cell[x] \in [outputs : Seq(RunId), number : SUBSET RunId]
        BY DEF SyncInv, NotebookInv, SyncTypeInv
      <4>3. Agrees(ViewAfter(w, r, x), CellAfter(cell[x], r))
        BY <1>2, <2>3, <3>1, <4>2, AgreesAfter
      <4>4. QED
        BY <2>5, <3>1, <4>1, <4>3
    <3>2. CASE x # r.cell
      <4>1. cell'[x] = cell[x]
        BY <1>2, <3>2
      <4>2. Agrees(ViewAfter(w, r, x), cell[x])
        BY <2>3, <3>2, OtherCellKeeps
      <4>3. QED
        BY <2>3, <2>4, <4>1, <4>2
    <3>3. QED
      BY <3>1, <3>2
  <2>7. a = client'[c].shown[x].outputs /\ b = client'[c].shown[x].number /\ q = toClient'[c]
    BY <1>2, <2>1
  <2>8. QED
    BY <2>2, <2>6, <2>7 DEF Follows
<1>4. Ends(c, x)'
  <2>1. /\ EndComes(x) => EndComes(x)' \/ IsEnd(r, x)
        /\ r.cell = x /\ r.type # "cell_idle" => EndComes(x)'
    BY <1>1, HandleOutputEnds
  <2>2. IsEnd(r, x) => OutputTo(c)' /\ IsEnd(output'.message, x)
    BY <1>2 DEF IsEnd
  <2>3. OutputTo(c)' /\ IsBeginning(output'.message, x) => EndComes(x)'
    BY <1>2, <2>1 DEF IsBeginning, Beginnings
  <2>4. \A k : RunsAt(c, x, k)' <=> RunsAt(c, x, k)
    BY <1>2 DEF RunsAt
  <2>5. \A k \in 0..Len(toClient[c]) : RunsAt(c, x, k) =>
           \/ EndComes(x)
           \/ \E j \in 1..Len(toClient[c]) : j > k /\ IsEnd(toClient[c][j], x)
    BY <1>2 DEF Tracks, Ends
  <2>6. QED
    BY <1>2, <2>1, <2>2, <2>3, <2>4, <2>5 DEF Ends
<1>5. QED
  BY <1>3, <1>4 DEF Tracks

\* Messages lead somewhere.
LEMMA LeadsSomewhere ==
  ASSUME NEW v, NEW q, NEW x, Len(q) \in Nat
  PROVE  \E w : Leads(v, q, x, w)
<1> DEFINE Reaches(n) ==
      \E f : f[0] = v /\ \A k \in 1..n : f[k] = ViewAfter(f[k - 1], q[k], x)
           bad == {n \in Nat : ~Reaches(n)}
<1>1. bad = {}
  <2> SUFFICES ASSUME bad # {} PROVE FALSE
    OBVIOUS
  <2>1. PICK n \in bad : \A m \in bad : ~ (<<m, n>> \in OpToRel(<, Nat))
    BY WFMin, NatLessThanWellFounded
  <2>2. n \in Nat /\ ~Reaches(n)
    OBVIOUS
  <2>3. CASE n = 0
    <3>1. PICK f : f = [k \in {0} |-> v]
      OBVIOUS
    <3>2. f[0] = v /\ \A k \in 1..0 : f[k] = ViewAfter(f[k - 1], q[k], x)
      BY <3>1
    <3>3. QED
      BY <2>2, <2>3, <3>2
  <2>4. CASE n # 0
    <3>1. n - 1 \in Nat /\ n - 1 < n
      BY <2>2, <2>4
    <3>2. Reaches(n - 1)
      BY <2>1, <2>2, <3>1 DEF OpToRel
    <3>3. PICK f : f[0] = v /\ \A k \in 1..n - 1 : f[k] = ViewAfter(f[k - 1], q[k], x)
      BY <3>2
    <3>4. PICK g : g = [k \in 0..n |-> IF k = n THEN ViewAfter(f[n - 1], q[n], x) ELSE f[k]]
      OBVIOUS
    <3>5. g[0] = v /\ g[n] = ViewAfter(f[n - 1], q[n], x) /\ \A k \in 0..n - 1 : g[k] = f[k]
      BY <2>2, <2>4, <3>3, <3>4
    <3>6. \A k \in 1..n : g[k] = ViewAfter(g[k - 1], q[k], x)
      <4>1. ASSUME NEW k \in 1..n
            PROVE  g[k] = ViewAfter(g[k - 1], q[k], x)
        <5>1. k - 1 \in 0..n - 1
          BY <2>2
        <5>2. CASE k = n
          BY <3>5, <5>1, <5>2
        <5>3. CASE k # n
          <6>1. k \in 1..n - 1 /\ k \in 0..n - 1
            BY <2>2, <5>3
          <6>2. QED
            BY <3>3, <3>5, <5>1, <6>1
        <5>4. QED
          BY <5>2, <5>3
      <4>2. QED
        BY <4>1
    <3>7. QED
      BY <2>2, <3>5, <3>6
  <2>5. QED
    BY <2>3, <2>4
<1>2. Reaches(Len(q))
  BY <1>1
<1>3. QED
  BY <1>2 DEF Leads

\* A start that is handled brings every client that has joined up with the notebook,
\* whatever it shows.
LEMMA StartTracks ==
  ASSUME SyncInv, ViewTypeInv, WaitingEndInv, HandleOutput,
         NEW c \in Joiners, NEW x \in DOMAIN cell,
         results[1].type = "execution_started", results[1].cell = x
  PROVE  Tracks(c, x)'
<1>1. PICK r : r = Head(results)
  OBVIOUS
<1>2. r = results[1] /\ r \in ResultMessage
  BY <1>1, HandleOutputEffect
<1>3. /\ UNCHANGED <<toClient, client>> /\ OutputTo(c)' /\ output'.message = r
      /\ cell' = [cell EXCEPT ![x] = CellAfter(@, r)]
  BY <1>1, <1>2, HandleOutputSends
<1>4. EndComes(x)'
  BY <1>1, <1>2, HandleOutputEnds
<1>5. Follows(c, x)'
  <2>1. PICK a, b, q : /\ a = client[c].shown[x].outputs /\ b = client[c].shown[x].number
                       /\ q = toClient[c]
    OBVIOUS
  <2>2. Len(q) \in Nat
    BY <2>1 DEF Joiners, ViewTypeInv, IsSequence
  <2>3. PICK w : Leads(<<a, b>>, q, x, w)
    BY <2>2, LeadsSomewhere
  <2>4. cell'[x] = [outputs |-> <<>>, number |-> None]
    BY <1>2, <1>3 DEF CellAfter
  <2>5. AfterOutput(w, c, x)' = ViewAfter(w, r, x)
    BY <1>3 DEF AfterOutput, OutputTo
  <2>6. ViewAfter(w, r, x)[1] = <<>>
    BY <1>2 DEF ViewAfter, OutputsAfter
  <2>7. Agrees(AfterOutput(w, c, x)', cell'[x])
    BY <2>4, <2>5, <2>6 DEF Agrees
  <2>8. a = client'[c].shown[x].outputs /\ b = client'[c].shown[x].number /\ q = toClient'[c]
    BY <1>3, <2>1
  <2>9. QED
    BY <2>3, <2>7, <2>8 DEF Follows
<1>6. Ends(c, x)'
  BY <1>4 DEF Ends
<1>7. QED
  BY <1>5, <1>6 DEF Tracks

LEMMA ReceiveFollows ==
  ASSUME ViewTypeInv, NEW u \in Viewer, Receive(u), UNCHANGED <<cell, output>>,
         NEW x, Follows(u, x), NEW a, NEW b,
         a = client[u].shown[x].outputs, b = client[u].shown[x].number,
         <<client'[u].shown[x].outputs, client'[u].shown[x].number>>
           = ViewAfter(<<a, b>>, toClient[u][1], x)
  PROVE  Follows(u, x)'
<1>1. PICK q, r : q = toClient[u] /\ r = toClient'[u]
  OBVIOUS
<1>2. PICK w : Leads(<<a, b>>, q, x, w) /\ Agrees(AfterOutput(w, u, x), cell[x])
  BY <1>1 DEF Follows
<1>3. /\ Len(q) \in Nat /\ Len(q) > 0 /\ Len(r) = Len(q) - 1
      /\ \A k \in 1..Len(q) - 1 : r[k] = q[k + 1]
  BY <1>1, ReceiveEffect
<1>4. Leads(ViewAfter(<<a, b>>, q[1], x), r, x, w)
  BY <1>2, <1>3, LeadsShorter
<1>5. AfterOutput(w, u, x)' = AfterOutput(w, u, x)
  BY DEF AfterOutput
<1>6. Agrees(AfterOutput(w, u, x)', cell'[x])
  BY <1>2, <1>5
<1>7. Leads(<<client'[u].shown[x].outputs, client'[u].shown[x].number>>, toClient'[u], x, w)
  BY <1>1, <1>4
<1>8. QED
  BY <1>6, <1>7 DEF Follows

LEMMA ReceiveEnds ==
  ASSUME ViewTypeInv, NEW u \in Viewer, Receive(u),
         NEW x, Ends(u, x), NEW m, m = toClient[u][1],
         RunsAt(u, x, 0)' => IsBeginning(m, x) \/ (RunsAt(u, x, 0) /\ ~IsEnd(m, x))
  PROVE  Ends(u, x)'
<1>1. PICK q, r, n : q = toClient[u] /\ r = toClient'[u] /\ n = Len(q)
  OBVIOUS
<1>2. /\ n \in Nat /\ n > 0 /\ Len(r) = n - 1 /\ m = q[1]
      /\ \A k \in 1..n - 1 : r[k] = q[k + 1]
  BY <1>1, ReceiveEffect
<1>3. UNCHANGED <<pending, results, output, cell>>
  BY DEF Receive, queueVars
<1>4. EndComes(x)' = EndComes(x) /\ OutputTo(u)' = OutputTo(u)
  BY <1>3 DEF EndComes, Begun, RunIs, Held, OutputTo
<1>5. ASSUME NEW k \in 0..n - 1, RunsAt(u, x, k)'
      PROVE  \/ EndComes(x)'
             \/ OutputTo(u)' /\ IsEnd(output'.message, x)
             \/ \E j \in 1..n - 1 : j > k /\ IsEnd(r[j], x)
  <2>1. \E i \in 0..n : /\ i = k + 1 \/ (i = 0 /\ k = 0 /\ ~IsEnd(m, x))
                        /\ RunsAt(u, x, i)
    <3>1. CASE k = 0
      <4>1. CASE IsBeginning(m, x)
        <5>1. RunsAt(u, x, 1)
          BY <1>1, <1>2, <4>1 DEF RunsAt
        <5>2. 1 \in 0..n
          BY <1>2
        <5>3. QED
          BY <3>1, <5>1, <5>2
      <4>2. CASE RunsAt(u, x, 0) /\ ~IsEnd(m, x)
        BY <1>2, <3>1, <4>2
      <4>3. QED
        BY <1>5, <3>1, <4>1, <4>2
    <3>2. CASE k > 0
      <4>1. k \in 1..n - 1 /\ k + 1 \in 0..n /\ k + 1 > 0
        BY <1>2, <3>2
      <4>2. IsBeginning(q[k + 1], x)
        BY <1>1, <1>2, <1>5, <3>2, <4>1 DEF RunsAt
      <4>3. RunsAt(u, x, k + 1)
        BY <1>1, <4>1, <4>2 DEF RunsAt
      <4>4. QED
        BY <4>1, <4>3
    <3>3. QED
      BY <3>1, <3>2
  <2>2. PICK i \in 0..n : /\ i = k + 1 \/ (i = 0 /\ k = 0 /\ ~IsEnd(m, x))
                          /\ RunsAt(u, x, i)
    BY <2>1
  <2>3. \/ EndComes(x)
        \/ OutputTo(u) /\ IsEnd(output.message, x)
        \/ \E j \in 1..n : j > i /\ IsEnd(q[j], x)
    BY <1>1, <2>2 DEF Ends
  <2>4. ASSUME NEW j \in 1..n, j > i, IsEnd(q[j], x)
        PROVE  j - 1 \in 1..n - 1 /\ j - 1 > k /\ IsEnd(r[j - 1], x)
    <3>1. j # 1
      BY <1>2, <2>2, <2>4
    <3>2. j - 1 \in 1..n - 1 /\ j - 1 > k /\ (j - 1) + 1 = j
      BY <1>2, <2>2, <2>4, <3>1
    <3>3. QED
      BY <1>2, <2>4, <3>2
  <2>5. QED
    BY <1>3, <1>4, <2>3, <2>4
<1>6. OutputTo(u)' /\ IsBeginning(output'.message, x) => EndComes(x)'
  BY <1>3, <1>4 DEF Ends
<1>7. QED
  BY <1>1, <1>2, <1>5, <1>6 DEF Ends

\* The state that a client gets before anything is sent to the kernel.
LEMMA JoinedTracks ==
  ASSUME SyncInv, ShownCellsInv, BlankInv, NEW u \in Viewer, Receive(u),
         NEW m, m = toClient[u][1], IsState(m), client'[u] = Joined(u, m),
         client'[u].since = 0, NEW x \in DOMAIN cell, x \in DOMAIN client'[u].shown
  PROVE  Tracks(u, x)'
<1>1. kernel.sent \in Nat /\ UNCHANGED <<queueVars, output, cell>>
  BY DEF Receive, SyncInv, IInv, QueueInv, QueueTypeInv
<1>2. PICK t : t = client'[u]
  OBVIOUS
<1>3. /\ t.since = kernel.sent /\ DOMAIN t.shown \subseteq DOMAIN m.notebook
      /\ t.shown[x].outputs = m.notebook[x].outputs
      /\ t.shown[x].number = m.notebook[x].number
      /\ t.shown[x].state = StateOf(m, x)
  <2>1. t = Joined(u, m)
    BY <1>2
  <2>2. x \in DOMAIN t.shown
    BY <1>2
  <2>3. QED
    BY <1>1, <2>1, <2>2, JoinedEffect
<1>4. /\ BlankServer
      /\ \A k \in 1..Len(toClient[u]) : IsCalm(toClient[u][k])
  BY <1>2, <1>3 DEF BlankInv, BlankViewer
<1>5. PICK q, r, n : q = toClient[u] /\ r = toClient'[u] /\ n = Len(q)
  OBVIOUS
<1>6. /\ n \in Nat /\ n > 0 /\ Len(r) = n - 1 /\ m = q[1]
      /\ \A k \in 1..n - 1 : r[k] = q[k + 1]
      /\ \A k \in 1..n : IsCalm(q[k])
  BY <1>4, <1>5, ReceiveEffect DEF ShownCellsInv
<1>7. \A k \in 1..n - 1 : r[k].type \notin ResultTypes
  BY <1>6 DEF IsCalm
<1>8. IsBlankState(m)
  <2>1. IsCalm(m) /\ m.type = "full_state"
    BY <1>6 DEF IsState
  <2>2. QED
    BY <2>1 DEF IsCalm
<1>9. /\ t.shown[x].outputs = <<>> /\ t.shown[x].number = None
      /\ t.shown[x].state \notin {"running", "finishing"}
  <2>1. x \in DOMAIN m.notebook
    BY <1>2, <1>3
  <2>2. StateOf(m, x) \notin {"running", "finishing"}
    BY <1>8 DEF StateOf, IsBlankState, IsState
  <2>3. QED
    BY <1>3, <1>8, <2>1, <2>2 DEF IsBlankState, IsBlank
<1>10. cell'[x].outputs = <<>> /\ cell'[x].number = None /\ output'.at = "idle"
  BY <1>1, <1>4 DEF BlankServer, IsBlank, Idle
<1>11. Follows(u, x)'
  <2>1. PICK a, b : a = t.shown[x].outputs /\ b = t.shown[x].number
    OBVIOUS
  <2>2. Len(r) \in Nat /\ \A k \in 1..Len(r) : r[k].type \notin ResultTypes
    BY <1>6, <1>7
  <2>3. Leads(<<a, b>>, r, x, <<a, b>>)
    BY <2>2, LeadsCalm
  <2>4. AfterOutput(<<a, b>>, u, x)' = <<a, b>>
    BY <1>10 DEF AfterOutput, Owes
  <2>5. Agrees(<<a, b>>, cell'[x])
    BY <1>9, <1>10, <2>1 DEF Agrees
  <2>6. QED
    BY <1>2, <1>5, <2>1, <2>3, <2>4, <2>5 DEF Follows
<1>12. Ends(u, x)'
  <2>1. ~OutputTo(u)'
    BY <1>10 DEF OutputTo, Owes
  <2>2. \A k \in 0..n - 1 : ~RunsAt(u, x, k)'
    BY <1>2, <1>5, <1>6, <1>7, <1>9 DEF RunsAt, IsBeginning, Beginnings, ResultTypes
  <2>3. QED
    BY <1>5, <1>6, <2>1, <2>2 DEF Ends
<1>13. QED
  BY <1>11, <1>12 DEF Tracks

\* A message that a client that had joined receives.
LEMMA ReceiveTracks ==
  ASSUME SyncInv, ShownCellsInv, ShownCellsInv', NEW u \in Joiners, Receive(u),
         NEW x \in DOMAIN cell, Tracks(u, x)
  PROVE  Tracks(u, x)'
<1>1. /\ ViewTypeInv /\ CoverInv(u)' /\ IsStore(client[u]) /\ JoinInv(u)
      /\ UNCHANGED <<output, cell>> /\ u \in Viewer
      /\ client[u].session = "joined"
  BY DEF ShownCellsInv, ViewTypeInv, Receive, Joiners
<1>2. PICK m : m = toClient[u][1]
  OBVIOUS
<1>3. PICK s, t : s = client[u] /\ t = client'[u]
  OBVIOUS
<1>4. ~IsState(m)
  <2>1. m.type = "full_state" => 1 \in StatesSent(u)
    BY <1>1, <1>2, ReceiveSent
  <2>2. StatesSent(u) = {}
    BY <1>1 DEF JoinInv
  <2>3. QED
    BY <2>1, <2>2 DEF IsState
<1>5. t.session = "joined" => x \in DOMAIN t.shown
  BY <1>1, <1>3 DEF CoverInv, Covers
<1>6. ASSUME NEW a, NEW b, a = s.shown[x].outputs, b = s.shown[x].number,
             <<t.shown[x].outputs, t.shown[x].number>> = ViewAfter(<<a, b>>, m, x),
             t.shown[x].state \in {"running", "finishing"} =>
               \/ IsBeginning(m, x)
               \/ s.shown[x].state \in {"running", "finishing"} /\ ~IsEnd(m, x)
      PROVE  Tracks(u, x)'
  <2>1. Follows(u, x) /\ Ends(u, x)
    BY DEF Tracks
  <2>2. Follows(u, x)'
    BY <1>1, <1>2, <1>3, <1>6, <2>1, ReceiveFollows
  <2>3. RunsAt(u, x, 0)' => IsBeginning(m, x) \/ (RunsAt(u, x, 0) /\ ~IsEnd(m, x))
    BY <1>3, <1>6 DEF RunsAt
  <2>4. Ends(u, x)'
    BY <1>1, <1>2, <2>1, <2>3, ReceiveEnds
  <2>5. QED
    BY <2>2, <2>4 DEF Tracks
<1>7. CASE IsDelete(m) /\ t = Deleted(s, m)
  <2>1. DeletesTo(s, m, t)
    BY <1>1, <1>3, <1>7, DeletedEffect
  <2>2. t.shown[x] = s.shown[x]
    BY <1>1, <1>3, <1>5, <2>1 DEF DeletesTo
  <2>3. PICK a, b : a = s.shown[x].outputs /\ b = s.shown[x].number
    OBVIOUS
  <2>4. m.type \notin ResultTypes
    BY <1>7 DEF IsDelete, ResultTypes
  <2>5. ViewAfter(<<a, b>>, m, x) = <<a, b>>
    BY <2>4, NoResultKeeps
  <2>6. ~IsEnd(m, x)
    BY <1>7 DEF IsDelete, IsEnd
  <2>7. QED
    BY <1>6, <2>2, <2>3, <2>5, <2>6
<1>8. CASE (IsPending(m) \/ m \in ResultMessage) /\ t = Showing(s, m)
  <2>0. t.session = "joined"
    BY <1>1, <1>3, <1>8, ShowingEffect
  <2>1. /\ DOMAIN t.shown = DOMAIN s.shown
        /\ t.shown[x] = IF x = m.cell THEN ShownAfter(s.shown[x], m) ELSE s.shown[x]
    BY <1>1, <1>3, <1>5, <1>8, <2>0, ShowingEffect
  <2>2. PICK e, a, b : e = s.shown[x] /\ a = s.shown[x].outputs /\ b = s.shown[x].number
    OBVIOUS
  <2>3. CASE x = m.cell
    <3>1. e \in StoreCell
      BY <1>1, <1>3, <1>5, <2>0, <2>1, <2>2 DEF IsStore, StoreCell
    <3>2. /\ ShownAfter(e, m).outputs = OutputsAfter(e.outputs, m, m.cell)
          /\ ShownAfter(e, m).number = NumberAfter(e.number, m, m.cell)
          /\ ShownAfter(e, m).state \in {"running", "finishing"} =>
               \/ m.type \in Beginnings
               \/ m.type = "cell_output" /\ e.state \in {"running", "finishing"}
      BY <1>8, <3>1, ShownAfterEffect
    <3>3. t.shown[x] = ShownAfter(e, m)
      BY <2>1, <2>2, <2>3
    <3>4. <<t.shown[x].outputs, t.shown[x].number>> = ViewAfter(<<a, b>>, m, x)
      BY <2>2, <2>3, <3>2, <3>3 DEF ViewAfter
    <3>5. t.shown[x].state \in {"running", "finishing"} =>
            \/ IsBeginning(m, x)
            \/ s.shown[x].state \in {"running", "finishing"} /\ ~IsEnd(m, x)
      BY <2>2, <2>3, <3>2, <3>3 DEF IsBeginning, IsEnd
    <3>6. QED
      BY <1>6, <2>2, <3>4, <3>5
  <2>4. CASE x # m.cell
    <3>1. ViewAfter(<<a, b>>, m, x) = <<a, b>>
      BY <2>4 DEF ViewAfter, OutputsAfter, NumberAfter
    <3>2. ~IsEnd(m, x)
      BY <2>4 DEF IsEnd
    <3>3. t.shown[x] = s.shown[x]
      BY <2>1, <2>4
    <3>4. QED
      BY <1>6, <2>2, <3>1, <3>2, <3>3
  <2>5. QED
    BY <2>3, <2>4
<1>9. \/ IsDelete(m) /\ t = Deleted(s, m)
      \/ (IsPending(m) \/ m \in ResultMessage) /\ t = Showing(s, m)
  BY <1>1, <1>2, <1>3, <1>4, ReceiveCases
<1>10. QED
  BY <1>7, <1>8, <1>9

LEMMA ShownCellsStep ==
  ASSUME SyncInv, ShownCellsInv, [Next]_vars
  PROVE  ShownCellsInv'
<1>1. CASE QueueStep
  <2>1. /\ UNCHANGED <<output, cell, toClient, client>>
        /\ IsOutputTask(output)
    BY <1>1 DEF QueueStep, viewVars, ShownCellsInv, ViewTypeInv
  <2>2. \A k \in Client : \/ task'[k] = task[k]
                          \/ IsAside(task[k]) /\ (IsAside(task'[k]) \/ TellsRun(task'[k]))
    BY <1>1, QueueStepTasks
  <2>3. QED
    BY <2>1, <2>2, ServerStepShown
<1>2. CASE UNCHANGED vars
  <2>1. UNCHANGED <<task, output, cell, toClient, client>>
    BY <1>2 DEF vars, queueVars, viewVars
  <2>2. IsOutputTask(output')
    BY <2>1 DEF ShownCellsInv, ViewTypeInv
  <2>3. QED
    BY <2>1, <2>2, ServerStepShown
<1>3. ASSUME NEW c \in Deleter, NEW x \in DOMAIN cell, DeleteCell(c, x)
      PROVE  ShownCellsInv'
  <2>1. c \in Client
    BY ViewAssumption
  <2>2. QED
    BY <1>3, <2>1, DeleteCellShown
<1>4. QED
  BY <1>1, <1>2, <1>3, BeginSendingShown, SendShown, ReceiveShown, ConnectShown,
     ReadNotebookShown, ReadVersionShown, ReadExecutionsShown, SendStateShown,
     HandleOutputShown, BeginOutputShown, SendOutputShown DEF Next

----------------------------------------------------------------------------
(* Every step. *)

\* No step brings a cell back, and only the handling of a result changes one.
LEMMA CellsGo ==
  ASSUME [Next]_vars
  PROVE  \/ HandleOutput
         \/ DOMAIN cell' \subseteq DOMAIN cell /\ \A x \in DOMAIN cell' : cell'[x] = cell[x]
<1>1. CASE QueueStep \/ UNCHANGED vars
  BY <1>1 DEF QueueStep, viewVars, vars
<1>2. ASSUME NEW c \in Client, BeginSending(c) \/ Send(c)
      PROVE  cell' = cell
  BY <1>2 DEF BeginSending, Send, viewVars
<1>3. ASSUME NEW c \in Deleter, NEW y \in DOMAIN cell, DeleteCell(c, y)
      PROVE  DOMAIN cell' \subseteq DOMAIN cell /\ \A x \in DOMAIN cell' : cell'[x] = cell[x]
  BY <1>3 DEF DeleteCell, Without
<1>4. ASSUME NEW c \in Viewer,
             \/ Receive(c) \/ Connect(c) \/ ReadNotebook(c) \/ ReadVersion(c)
             \/ ReadExecutions(c) \/ SendState(c)
      PROVE  cell' = cell
  BY <1>4 DEF Receive, Connect, ReadNotebook, ReadVersion, ReadExecutions, viewVars, SendState
<1>5. BeginOutput \/ SendOutput => cell' = cell
  BY DEF BeginOutput, SendOutput
<1>6. QED
  BY <1>1, <1>2, <1>3, <1>4, <1>5 DEF Next

\* A client that has joined had joined before with the same runs sent, or receives
\* its state.
LEMMA JoinedBefore ==
  ASSUME SyncInv, ShownCellsInv, [Next]_vars, NEW c \in Joiners'
  PROVE  \/ c \in Joiners /\ client'[c].since = client[c].since
         \/ /\ Receive(c) /\ IsState(toClient[c][1])
            /\ client'[c] = Joined(c, toClient[c][1])
<1>0. c \in Viewer /\ client'[c].session = "joined"
  BY DEF Joiners
<1>1. CASE client'[c] = client[c]
  BY <1>0, <1>1 DEF Joiners
<1>2. ASSUME NEW u \in Viewer, Connect(u), client'[c] # client[c]
      PROVE  FALSE
  <2>1. /\ DOMAIN client = Viewer /\ client' = [client EXCEPT ![u].session = "joining"]
        /\ "session" \in DOMAIN client[u]
    BY <1>2 DEF Connect, ShownCellsInv, ViewTypeInv, IsStore
  <2>2. u = c
    BY <1>0, <1>2, <2>1
  <2>3. client'[c].session = "joining"
    BY <2>1, <2>2
  <2>4. QED
    BY <1>0, <2>3
<1>3. CASE Receive(c)
  <2>1. PICK m, s, t : m = toClient[c][1] /\ s = client[c] /\ t = client'[c]
    OBVIOUS
  <2>2. ViewTypeInv /\ IsStore(s)
    BY <1>0, <2>1 DEF ShownCellsInv, ViewTypeInv
  <2>3. CASE IsDelete(m) /\ t = Deleted(s, m)
    <3>1. DeletesTo(s, m, t)
      BY <2>2, <2>3, DeletedEffect
    <3>2. QED
      BY <1>0, <2>1, <3>1 DEF DeletesTo, Joiners
  <2>4. CASE (IsPending(m) \/ m \in ResultMessage) /\ t = Showing(s, m)
    <3>1. t.session = s.session /\ t.since = s.since
      BY <2>2, <2>4, ShowingEffect
    <3>2. QED
      BY <1>0, <2>1, <3>1 DEF Joiners
  <2>5. \/ IsState(m) /\ t = Joined(c, m)
        \/ IsDelete(m) /\ t = Deleted(s, m)
        \/ (IsPending(m) \/ m \in ResultMessage) /\ t = Showing(s, m)
    BY <1>0, <1>3, <2>1, <2>2, ReceiveCases
  <2>6. QED
    BY <1>3, <2>1, <2>3, <2>4, <2>5
<1>4. ASSUME NEW u \in Viewer, Receive(u), u # c
      PROVE  client'[c] = client[c]
  BY <1>0, <1>4, ReceiveEffect DEF ShownCellsInv
<1>5. QueueStep \/ UNCHANGED vars => client' = client
  BY DEF QueueStep, viewVars, vars
<1>6. \A k \in Client : BeginSending(k) \/ Send(k) => client' = client
  BY DEF BeginSending, Send, viewVars
<1>7. \A k \in Deleter, y \in DOMAIN cell : DeleteCell(k, y) => client' = client
  BY DEF DeleteCell
<1>8. \A u \in Viewer :
        ReadNotebook(u) \/ ReadVersion(u) \/ ReadExecutions(u) \/ SendState(u)
          => client' = client
  BY DEF ReadNotebook, ReadVersion, ReadExecutions, viewVars, SendState
<1>9. HandleOutput \/ BeginOutput \/ SendOutput => client' = client
  BY DEF HandleOutput, BeginOutput, SendOutput
<1>10. QED
  BY <1>1, <1>2, <1>3, <1>4, <1>5, <1>6, <1>7, <1>8, <1>9 DEF Next

\* A client that is behind with a cell remains so until the start of a run is
\* handled.
LEMMA BehindRemains ==
  ASSUME SyncInv, ViewTypeInv, KnownInv, [Next]_vars, NEW c, NEW x \in DOMAIN cell',
         Behind(c, x), client'[c].since = client[c].since
  PROVE  \/ Behind(c, x)'
         \/ HandleOutput /\ results[1].type = "execution_started" /\ results[1].cell = x
<1> DEFINE Starts ==
      HandleOutput /\ results[1].type = "execution_started" /\ results[1].cell = x
<1>1. ASSUME NEW i, Known(x, i)', ~Starts
      PROVE  i[2] <= client'[c].since \/ i \in missed' \/ StartComes(i)'
  <2>1. x \in DOMAIN cell /\ (Known(x, i) \/ Sends(x, i))
    BY <1>1, KnownStep
  <2>2. CASE Sends(x, i)
    BY <2>2 DEF Sends, StartComes
  <2>3. CASE Known(x, i)
    <3>1. i[1] = x
      BY <2>1, <2>3 DEF KnownInv
    <3>2. i[2] <= client[c].since \/ i \in missed \/ StartComes(i)
      BY <2>3 DEF Behind
    <3>3. i \in missed => i \in missed'
      BY MissedGrows
    <3>4. ASSUME StartComes(i)
          PROVE  StartComes(i)' \/ i \in missed'
      <4>1. CASE HandleOutput /\ results[1].type = "execution_started" /\ results[1].id = i
        <5>1. PICK r : r = Head(results)
          OBVIOUS
        <5>2. 1 \in DOMAIN results
          BY <4>1, <5>1, ResultTaken
        <5>3. results[1].cell = results[1].id[1]
          BY <5>2 DEF SyncInv, NotebookInv, SyncTypeInv
        <5>4. QED
          BY <1>1, <3>1, <4>1, <5>3
      <4>2. QED
        BY <3>4, <4>1, StartStep
    <3>5. QED
      BY <3>2, <3>3, <3>4
  <2>4. QED
    BY <2>1, <2>2, <2>3
<1>2. QED
  BY <1>1 DEF Behind

\* A client that joins when runs were sent is behind with every cell.
LEMMA JoinedIsBehind ==
  ASSUME SyncInv, KnownInv', NEW u \in Viewer, Receive(u), NEW m, IsState(m),
         client'[u] = Joined(u, m), client'[u].since # 0, NEW x \in DOMAIN cell'
  PROVE  Behind(u, x)'
<1>1. kernel.sent \in Nat /\ kernel' = kernel
  BY DEF Receive, queueVars, kernelVars, SyncInv, IInv, QueueInv, QueueTypeInv
<1>2. client'[u].since = kernel.sent
  BY <1>1, JoinedEffect
<1>3. \A i : Known(x, i)' => i[2] \in 0..kernel'.sent
  BY DEF KnownInv
<1>4. \A i : Known(x, i)' => i[2] <= client'[u].since
  BY <1>1, <1>2, <1>3
<1>5. QED
  BY <1>4 DEF Behind

LEMMA StepTracks ==
  ASSUME SyncInv, ShownCellsInv, ShownCellsInv', WaitingEndInv, [Next]_vars,
         NEW c \in Joiners, NEW x \in DOMAIN cell, x \in DOMAIN cell', Tracks(c, x)
  PROVE  Tracks(c, x)'
<1>0. ViewTypeInv /\ c \in Viewer
  BY DEF ShownCellsInv, Joiners
<1>1. CASE QueueStep
  <2>1. UNCHANGED <<output, cell, toClient, client>>
    BY <1>1 DEF QueueStep, viewVars
  <2>2. EndRemains(x)
    BY <1>1, QueueStepEnds
  <2>3. QED
    BY <2>1, <2>2, SameOutputKept, TracksKept
<1>2. ASSUME UNCHANGED <<pending, results, output, toClient>>, cell'[x] = cell[x],
             client'[c] = client[c]
      PROVE  Tracks(c, x)'
  <2>1. EndRemains(x)
    BY <1>2, SameEndRemains
  <2>2. QED
    BY <1>2, <2>1, SameOutputKept, TracksKept
<1>3. CASE UNCHANGED vars
  BY <1>2, <1>3 DEF vars, queueVars, viewVars
<1>4. ASSUME NEW k \in Deleter, NEW y \in DOMAIN cell, DeleteCell(k, y)
      PROVE  Tracks(c, x)'
  <2>1. UNCHANGED <<pending, results, output, toClient, client>>
    BY <1>4 DEF DeleteCell
  <2>2. cell'[x] = cell[x]
    BY <1>4 DEF DeleteCell, Without
  <2>3. QED
    BY <1>2, <2>1, <2>2
<1>5. ASSUME NEW u \in Viewer, Connect(u)
      PROVE  Tracks(c, x)'
  <2>1. /\ UNCHANGED <<pending, results, output, cell, toClient>>
        /\ client[u].session = "away" /\ DOMAIN client = Viewer
        /\ client' = [client EXCEPT ![u].session = "joining"]
    BY <1>0, <1>5 DEF Connect, ViewTypeInv
  <2>2. c # u
    BY <2>1 DEF Joiners
  <2>3. client'[c] = client[c]
    BY <1>0, <2>1, <2>2
  <2>4. QED
    BY <1>2, <2>1, <2>3
<1>6. ASSUME NEW u \in Viewer, ReadNotebook(u) \/ ReadVersion(u) \/ ReadExecutions(u)
      PROVE  Tracks(c, x)'
  BY <1>2, <1>6 DEF ReadNotebook, ReadVersion, ReadExecutions, viewVars
<1>7. ASSUME NEW u \in Viewer, Receive(u)
      PROVE  Tracks(c, x)'
  <2>1. CASE c = u
    BY <1>7, <2>1, ReceiveTracks
  <2>2. CASE c # u
    <3>1. toClient'[c] = toClient[c] /\ client'[c] = client[c]
      BY <1>0, <1>7, <2>2, ReceiveEffect
    <3>2. UNCHANGED <<pending, results, output, cell>>
      BY <1>7 DEF Receive, queueVars
    <3>3. EndRemains(x)
      BY <3>2, SameEndRemains
    <3>4. QED
      BY <3>1, <3>2, <3>3, SameOutputKept, TracksKept
  <2>3. QED
    BY <2>1, <2>2
<1>8. \A k \in Client : Send(k) => Tracks(c, x)'
  BY <1>0, SendTracks
<1>9. \A u \in Viewer : SendState(u) => Tracks(c, x)'
  BY <1>0, SendStateTracks
<1>10. SendOutput => Tracks(c, x)'
  BY <1>0, SendOutputTracks
<1>11. HandleOutput => Tracks(c, x)'
  BY HandleOutputTracks
<1>12. ASSUME NEW k \in Client, BeginSending(k)
       PROVE  Tracks(c, x)'
  BY <1>2, <1>12 DEF BeginSending, viewVars
<1>13. BeginOutput => Tracks(c, x)'
  BY <1>0, BeginOutputTracks
<1>14. QED
  BY <1>1, <1>3, <1>4, <1>5, <1>6, <1>7, <1>8, <1>9, <1>10, <1>11, <1>12, <1>13 DEF Next

LEMMA ShowsStep ==
  ASSUME SyncInv, ShownCellsInv, ShownCellsInv', BlankInv, ServerInv, ServerInv', ShowsInv,
         [Next]_vars
  PROVE  ShowsInv'
<1>0. ViewTypeInv /\ WaitingEndInv /\ KnownInv /\ KnownInv'
  BY DEF ShownCellsInv, ServerInv
<1>1. DOMAIN cell' \subseteq DOMAIN cell
  <2>1. CASE HandleOutput
    <3>1. PICK r : r = Head(results)
      OBVIOUS
    <3>2. DOMAIN cell' = DOMAIN cell
      BY <2>1, <3>1, HandleOutputEffect
    <3>3. QED
      BY <3>2
  <2>2. QED
    BY <2>1, CellsGo
<1>2. ASSUME NEW c \in Joiners', NEW x \in DOMAIN cell'
      PROVE  Tracks(c, x)' \/ Behind(c, x)'
  <2>1. x \in DOMAIN cell /\ c \in Viewer
    BY <1>1, <1>2 DEF Joiners
  <2>2. CASE c \in Joiners /\ client'[c].since = client[c].since
    <3>1. CASE Tracks(c, x)
      BY <1>0, <1>2, <2>1, <2>2, <3>1, StepTracks
    <3>2. CASE Behind(c, x)
      BY <1>0, <1>2, <2>1, <2>2, <3>2, BehindRemains, StartTracks
    <3>3. QED
      BY <2>1, <2>2, <3>1, <3>2 DEF ShowsInv
  <2>3. CASE /\ Receive(c) /\ IsState(toClient[c][1])
             /\ client'[c] = Joined(c, toClient[c][1])
    <3>1. PICK m : m = toClient[c][1] /\ IsState(m) /\ client'[c] = Joined(c, m)
      BY <2>3
    <3>2. CASE client'[c].since = 0
      <4>1. client'[c].session = "joined" /\ CoverInv(c)'
        BY <1>2, <2>1 DEF Joiners, ShownCellsInv
      <4>2. x \in DOMAIN client'[c].shown
        BY <1>2, <4>1 DEF CoverInv, Covers
      <4>3. QED
        BY <2>1, <2>3, <3>1, <3>2, <4>2, JoinedTracks
    <3>3. CASE client'[c].since # 0
      BY <1>0, <1>2, <2>1, <2>3, <3>1, <3>3, JoinedIsBehind
    <3>4. QED
      BY <3>2, <3>3
  <2>4. QED
    BY <1>2, <2>2, <2>3, JoinedBefore
<1>3. QED
  BY <1>2 DEF ShowsInv

LEMMA InitShows == Init => BlankInv /\ ShowsInv
<1> SUFFICES ASSUME Init PROVE BlankInv /\ ShowsInv
  OBVIOUS
<1>1. /\ \A c \in Client : task[c] = Idle
      /\ output = Idle /\ cell = [x \in Cell |-> [outputs |-> <<>>, number |-> None]]
      /\ \A c \in Viewer : toClient[c] = <<>>
      /\ DOMAIN pending = {} /\ Requests = <<>> /\ kernel.phase = "idle"
      /\ iopub = <<>> /\ shell = <<>> /\ results = <<>>
  BY DEF Init, QueueInit, Requests
<1>2. Idle.at = "idle" /\ Len(<<>>) = 0
  BY DEF Idle
<1>3. BlankInv
  <2>1. BlankServer
    BY <1>1 DEF BlankServer, IsBlank
  <2>2. \A c \in Viewer : BlankViewer(c)
    BY <1>1, <1>2, ViewAssumption DEF BlankViewer
  <2>3. QED
    BY <2>1, <2>2 DEF BlankInv
<1>5. ASSUME NEW c \in Viewer, NEW x \in DOMAIN cell
      PROVE  Tracks(c, x)
  <2>1. x \in Cell /\ cell[x].outputs = <<>> /\ cell[x].number = None
    BY <1>1
  <2>2. client[c].shown[x] = [outputs |-> <<>>, number |-> None, state |-> "idle"]
    BY <2>1 DEF Init
  <2>3. Leads(<<<<>>, None>>, toClient[c], x, <<<<>>, None>>)
    BY <1>1, <1>2, LeadsCalm
  <2>4. AfterOutput(<<<<>>, None>>, c, x) = <<<<>>, None>>
    BY <1>1, <1>2 DEF AfterOutput, Owes
  <2>5. Follows(c, x)
    BY <2>1, <2>2, <2>3, <2>4 DEF Follows, Agrees
  <2>6. ~OutputTo(c)
    BY <1>1, <1>2 DEF OutputTo, Owes
  <2>7. \A k \in 0..0 : ~RunsAt(c, x, k)
    BY <2>2 DEF RunsAt
  <2>8. Ends(c, x)
    BY <1>1, <1>2, <2>6, <2>7 DEF Ends
  <2>9. QED
    BY <2>5, <2>8 DEF Tracks
<1>6. ShowsInv
  BY <1>5 DEF ShowsInv, Joiners
<1>7. QED
  BY <1>3, <1>6

LEMMA ViewSpecInv == Spec => [](SyncInv /\ ViewInv)
<1>1. Init => ViewInv
  BY InitShown, InitShows, InitServer DEF ViewInv
<1>2. ASSUME SyncInv, SyncInv', ViewInv, [Next]_vars
      PROVE  ViewInv'
  <2>1. ShownCellsInv /\ ViewTypeInv /\ BlankInv /\ ServerInv /\ WaitingEndInv /\ ShowsInv
    BY <1>2 DEF ViewInv, ShownCellsInv, ServerInv
  <2>2. ShownCellsInv' /\ BlankInv' /\ ServerInv'
    BY <1>2, <2>1, ShownCellsStep, BlankStep, ServerStep
  <2>3. ShowsInv'
    BY <1>2, <2>1, <2>2, ShowsStep
  <2>4. QED
    BY <2>2, <2>3 DEF ViewInv
<1>3. QED
  BY <1>1, <1>2, SpecInv, PTL DEF Spec

\* What a client that tracks a cell shows of it when nothing is under way.
LEMMA TracksQuiet ==
  ASSUME ViewInv, Quiet, NEW c \in Joiners, NEW x \in DOMAIN cell, Tracks(c, x)
  PROVE  /\ client[c].shown[x].outputs = cell[x].outputs
         /\ cell[x].number # None => client[c].shown[x].number = cell[x].number
         /\ Begun(x) \/ client[c].shown[x].state \in {"idle", "pending"}
<1>1. /\ toClient[c] = <<>> /\ output = Idle /\ results = <<>> /\ DOMAIN results = {}
      /\ Idle.at = "idle" /\ Len(<<>>) = 0
  BY DEF Quiet, Joiners, Idle
<1>2. PICK a, b : a = client[c].shown[x].outputs /\ b = client[c].shown[x].number
  OBVIOUS
<1>3. PICK w : Leads(<<a, b>>, toClient[c], x, w) /\ Agrees(AfterOutput(w, c, x), cell[x])
  BY <1>2 DEF Tracks, Follows
<1>4. w = <<a, b>>
  BY <1>1, <1>3, LeadsNowhere
<1>5. AfterOutput(w, c, x) = w
  BY <1>1 DEF AfterOutput, Owes
<1>6. ASSUME ~Begun(x)
      PROVE  client[c].shown[x].state \in {"idle", "pending"}
  <2>1. ~EndComes(x) /\ ~OutputTo(c)
    BY <1>1, <1>6 DEF EndComes, OutputTo, Owes
  <2>2. ~RunsAt(c, x, 0)
    BY <1>1, <2>1 DEF Tracks, Ends
  <2>3. IsStore(client[c]) /\ CoverInv(c) /\ client[c].session = "joined"
    BY DEF ViewInv, ShownCellsInv, ViewTypeInv, Joiners
  <2>4. x \in DOMAIN client[c].shown
    BY <2>3 DEF CoverInv, Covers
  <2>5. client[c].shown[x].state \in CellStates
    BY <2>3, <2>4 DEF IsStore
  <2>6. QED
    BY <2>2, <2>5 DEF RunsAt, CellStates
<1>7. QED
  BY <1>2, <1>3, <1>4, <1>5, <1>6 DEF Agrees

LEMMA ViewInvQuiet ==
  ASSUME SyncInv, ViewInv, Quiet, NEW c \in FromTheStart
  PROVE  /\ DOMAIN client[c].shown = DOMAIN cell \cup client[c].stale
         /\ \A x \in DOMAIN cell :
              /\ client[c].shown[x].outputs = cell[x].outputs
              /\ cell[x].number # None => client[c].shown[x].number = cell[x].number
              /\ x \notin DOMAIN pending => client[c].shown[x].state \in {"idle", "pending"}
<1>1. /\ ViewTypeInv /\ JoinInv(c) /\ CoverInv(c) /\ IsStore(client[c])
      /\ client[c].session = "joined" /\ client[c].since = 0
  BY DEF ViewInv, ShownCellsInv, ViewTypeInv, FromTheStart
<1>2. /\ \A k \in Client : task[k].at \in {"idle", "gone"}
      /\ toClient[c] = <<>>
  BY DEF Quiet, FromTheStart
<1>3. Idle.at = "idle" /\ Len(<<>>) = 0
  BY DEF Idle
<1>4. Owed(c) = {} /\ Sent(c) = {} /\ client[c].deletions = {}
  BY <1>1, <1>2, <1>3 DEF Owed, Owes, Sent, JoinInv
<1>5. Deletions(c) = {}
  BY <1>4 DEF Deletions
<1>6. DOMAIN client[c].shown = DOMAIN cell \cup client[c].stale
  BY <1>1, <1>5 DEF CoverInv, Covers
<1>7. c \in Joiners
  BY DEF FromTheStart, Joiners
<1>8. \A x \in DOMAIN cell : Tracks(c, x)
  BY <1>1, <1>7 DEF ViewInv, ShowsInv, Behind
<1>9. \A x : x \notin DOMAIN pending => ~Begun(x)
  BY DEF Begun, RunIs
<1>10. QED
  BY <1>6, <1>7, <1>8, <1>9, TracksQuiet

LEMMA ViewInvRecovers ==
  ASSUME SyncInv, ViewInv, Quiet, NEW c \in Joiners, NEW x \in DOMAIN cell,
         Held(x) # {}, \A i \in Held(x) : i[2] > client[c].since, Held(x) \cap missed = {}
  PROVE  /\ client[c].shown[x].outputs = cell[x].outputs
         /\ client[c].shown[x].state \in {"idle", "pending"}
<1>1. DOMAIN results = {} /\ DOMAIN iopub = {} /\ Requests = <<>> /\ DOMAIN Requests = {}
  BY DEF Quiet, Requests
<1>2. \A i : ~StartComes(i)
  BY <1>1 DEF StartComes, Waits, StartOnIopub, StartWaits
<1>3. PICK i : i \in Held(x)
  OBVIOUS
<1>4. ~Behind(c, x)
  <2>1. Known(x, i) /\ i \notin missed /\ i[2] > client[c].since
    BY <1>3 DEF Known
  <2>2. i[2] \in Nat /\ client[c].since \in Nat
    <3>1. i[2] \in 0..kernel.sent
      BY <2>1 DEF ViewInv, ServerInv, KnownInv
    <3>2. IsStore(client[c])
      BY DEF ViewInv, ShownCellsInv, ViewTypeInv, Joiners
    <3>3. QED
      BY <3>1, <3>2 DEF IsStore
  <2>3. ~(i[2] <= client[c].since)
    BY <2>1, <2>2
  <2>4. QED
    BY <1>2, <2>1, <2>3 DEF Behind
<1>5. Tracks(c, x)
  BY <1>4 DEF ViewInv, ShowsInv
<1>6. ~Begun(x)
  <2> SUFFICES ASSUME Begun(x) PROVE FALSE
    OBVIOUS
  <2>1. PICK j : RunIs(x, j) /\ (Held(x) \subseteq {j} \/ j \in Held(x))
    BY DEF Begun
  <2>2. Underway(j)
    BY <2>1 DEF ViewInv, ServerInv, UnderwayInv, Expected, RunIs
  <2>3. j \notin Range(Requests)
    BY <1>1 DEF Range
  <2>4. j \in missed
    BY <1>1, <2>2, <2>3 DEF Underway, EndOnIopub
  <2>5. QED
    BY <2>1, <2>4
<1>7. QED
  BY <1>5, <1>6, TracksQuiet

\* When nothing is under way, a client that was there before anything was sent to
\* the kernel shows the cells of the notebook and what they have there: through
\* runs, deletions while a cell runs, answers that were missed, and states that
\* were read while cells were deleted (handler/execution.rs, broadcast.rs,
\* notebookStore.ts).
THEOREM ClientsShowOutputsAlways == Spec => []ClientsShowOutputs
<1>1. SyncInv /\ ViewInv => ClientsShowOutputs
  BY ViewInvQuiet DEF ClientsShowOutputs
<1>2. QED
  BY <1>1, ViewSpecInv, PTL

\* Nor does it show a cell as running or finishing of which the run has ended,
\* although the reply of the kernel may come after the end: the result of a reply
\* is made while the run is pending, so that the end follows it on the same way
\* (useNotebookSync.ts, execution_queue.rs).
THEOREM NotShownRunningAlways == Spec => []NotShownRunning
<1>1. SyncInv /\ ViewInv => NotShownRunning
  BY ViewInvQuiet DEF NotShownRunning
<1>2. QED
  BY <1>1, ViewSpecInv, PTL

\* A client that joined while runs were under way, and so has missed results or
\* got them twice, shows what the notebook has of a cell once that is of a run
\* sent after it had joined, all of whose answers came: the start of the run
\* reaches it and clears what it had (broadcast.rs, useNotebookSync.ts,
\* notebookStore.ts).
THEOREM JoinersRecoverAlways == Spec => []JoinersRecover
<1>1. ASSUME SyncInv, ViewInv
      PROVE  JoinersRecover
  <2>1. ASSUME Quiet, NEW c \in Viewer, NEW x \in DOMAIN cell,
               client[c].session = "joined", Held(x) # {},
               \A i \in Held(x) : i[2] > client[c].since, Held(x) \cap missed = {}
        PROVE  /\ client[c].shown[x].outputs = cell[x].outputs
               /\ client[c].shown[x].state \in {"idle", "pending"}
    <3>1. c \in Joiners
      BY <2>1 DEF Joiners
    <3>2. QED
      BY <1>1, <2>1, <3>1, ViewInvRecovers
  <2>2. QED
    BY <2>1 DEF JoinersRecover, Held
<1>2. QED
  BY <1>1, ViewSpecInv, PTL

================================================================================

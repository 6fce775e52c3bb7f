------------------------------- MODULE CursorSync -------------------------------
(***************************************************************************)
(* How the cursor of a user comes to the others: TextSync with the cursor  *)
(* a client notes, holds back and reports (CellEditor.tsx, useTextSync.ts, *)
(* useFocusSync.ts), and handle_change_focus (server/src/handler/user.rs). *)
(*                                                                         *)
(* A cursor that moved because of an edit is noted, and reported at the    *)
(* next attempt to flush the edits; one that was moved by hand is reported *)
(* at once.  Typing sets the timer of such an attempt, an attempt that     *)
(* comes too soon sets it again.  The editor also puts the cursor back     *)
(* after the edit of another has changed the text: that cursor is noted    *)
(* too, and no timer is set for it.                                        *)
(* A report waits for a timer, which a newer report replaces, and then     *)
(* until no edit of the client is pending.  The server handles it in turn  *)
(* with the edits of that client.  What the server makes of a position is  *)
(* in FocusState; here a position tells two cursors apart, no more.        *)
(*                                                                         *)
(* serial, edit and restored in a cursor and misled are history: how many  *)
(* cursors the user has had, the request that carries its last edit, that  *)
(* the editor put the cursor back, and the clients that report another     *)
(* cursor than their last one.                                             *)
(***************************************************************************)
EXTENDS TextSync, Functions

CONSTANTS
  Position,
  Mover,    \* bound: the clients whose cursor moves without typing
  MaxMoved  \* bound: how often cursors move so

ASSUME CursorBoundsAssumption == MaxMoved \in Nat /\ Mover \subseteq Client

VARIABLES
  cursor,  \* per client: noted (pendingCursorPositions), waiting (timerRef),
           \* sent (lastSent), and how many there have been
  timer,   \* the clients with a timer set to flush (idle, burst or retry)
  restore, \* the clients of which the editor has yet to put the cursor back
  shown,   \* per client: the cursors of the others that it shows
  moved,   \* cursors moved by hand or put back so far
  misled

editorVars == <<timer, restore>>
cursorVars == <<cursor, editorVars, shown, moved, misled>>

\* The request that carries the last edit of c, sent or still to be sent.
LastEdit(c) == client[c].sent + IF client[c].buffer = None THEN 0 ELSE 1

\* The cursor is moved to p, by the user or by the editor.
MovedTo(c, p, restored) ==
  [serial |-> cursor[c].count + 1, position |-> p, edit |-> LastEdit(c)',
   restored |-> restored]

\* What a resync has dropped does not come any more.
ChangeFocus(c, m) ==
  [type |-> "change_focus", author |-> c, serial |-> m.serial,
   edit |-> IF m.edit > LastEdit(c) THEN LastEdit(c) ELSE m.edit]

----------------------------------------------------------------------------
(* The client.                                                             *)

\* A slip: the timer of an older cursor stays, and with it that cursor.
ReportedBehind(s, m) ==
  IF s.sent = <<m.position>> \/ s.waiting # None THEN s
  ELSE [s EXCEPT !.waiting = <<m>>]

\* sendFocusChange: a cursor where the last one sent was is not reported, and
\* leaves the timer alone.
Reported(s, m) ==
  IF s.sent = <<m.position>> THEN s ELSE [s EXCEPT !.waiting = <<m>>]

\* A slip: what was noted stays noted.
NotedReportedAgain(s) == IF s.noted = None THEN s ELSE Reported(s, s.noted[1])

\* flushCursorIfPending.
NotedReported(s) ==
  IF s.noted = None THEN s
  ELSE Reported([s EXCEPT !.noted = None], s.noted[1])

\* Events after which the others do not get the last cursor of a client: one that
\* was noted before it is reported after it; or it is where the last one sent was
\* and is not reported, though another may be waiting, and edits may have moved
\* that one.
Misleads(s, m) == (m.serial = s.count) <=> (s.sent = <<m.position>>)

MisledBy(c, s, m) ==
  misled' = CASE Misleads(s, m)                         -> misled \cup {c}
              [] ~Misleads(s, m) /\ m.serial = s.count -> misled \ {c}
              [] OTHER                                 -> misled

FlushNoted(c) ==
  /\ cursor' = [cursor EXCEPT ![c] = NotedReported(@)]
  /\ IF cursor[c].noted = None THEN UNCHANGED misled
     ELSE MisledBy(c, cursor[c], cursor[c].noted[1])
  /\ UNCHANGED <<shown, moved>>

\* noteCursorPosition: the cursor waits for the next attempt to flush.
Note(c, p, restored) ==
  /\ cursor' = [cursor EXCEPT ![c].noted = <<MovedTo(c, p, restored)>>,
                              ![c].count = @ + 1]
  /\ UNCHANGED <<shown, misled>>

\* The user types: a timer is set and the cursor is noted.
TypeAndNote(c) ==
  /\ Type(c)
  /\ timer' = timer \cup {c}
  /\ \E p \in Position : Note(c, p, FALSE)
  /\ UNCHANGED <<restore, moved>>

\* The text was changed by others and the editor puts the cursor back where the
\* client has it since it reported one.  Where it is already, nothing is noted.
Restore(c) ==
  /\ c \in restore /\ restore' = restore \ {c}
  /\ UNCHANGED <<vars, timer>>
  /\ \/ /\ cursor[c].sent # None \/ cursor[c].waiting # None
        /\ moved < MaxMoved /\ moved' = moved + 1
        /\ \E p \in Position : Note(c, p, TRUE)
     \/ UNCHANGED <<cursor, shown, moved, misled>>

\* The user moves the cursor by hand.
Move(c) ==
  /\ c \in Mover /\ moved < MaxMoved /\ moved' = moved + 1
  /\ UNCHANGED <<vars, editorVars>>
  /\ \E p \in Position :
       LET m == MovedTo(c, p, FALSE)
           s == [cursor[c] EXCEPT !.count = @ + 1]
       IN  /\ cursor' = [cursor EXCEPT ![c] = Reported(s, m)]
           /\ MisledBy(c, s, m)
  /\ UNCHANGED shown

\* attemptFlush, by a timer: the edits are sent; another timer may be left ...
FlushBoth(c) ==
  /\ c \in timer /\ timer' \in {timer, timer \ {c}}
  /\ Flush(c)
  /\ FlushNoted(c)
  /\ UNCHANGED restore

\* A slip: an attempt that comes too soon is the last one.
TimersLeft(c) == {timer, timer \ {c}}

\* ... or there is nothing to send yet, or it is too soon and the timer is set
\* again: the cursor alone is reported.
TimersAfterAttempt(c) ==
  IF MayFlush(client[c]) THEN {timer} ELSE {timer, timer \ {c}}

FlushCursor(c) ==
  /\ c \in timer /\ timer' \in TimersAfterAttempt(c)
  /\ UNCHANGED <<vars, restore>>
  /\ FlushNoted(c)

\* A slip: only a request in flight counts.
HasRequestInFlight(s) == s.unconfirmed # None

HasPendingTextOp(s) == s.unconfirmed # None \/ s.buffer # None

\* trySend, when nothing is pending: until then it sets its timer again.
SendReport(c) ==
  /\ cursor[c].waiting # None /\ ~HasPendingTextOp(client[c])
  /\ LET m == cursor[c].waiting[1]
     IN  /\ toServer' = [toServer EXCEPT ![c] = Append(@, ChangeFocus(c, m))]
         /\ cursor' = [cursor EXCEPT ![c].waiting = None, ![c].sent = <<m.position>>]
  /\ UNCHANGED <<serverVars, toClient, client, typed, astray, editorVars, shown, moved,
                 misled>>

\* The message at the head of toClient[c] makes c try to flush.
Unblocks(c) ==
  LET m == Head(toClient[c])
  IN  m.type = "text_edit" => m.version > client[c].version /\ IsAck(c, client[c], m)

\* handleAckFlush attempts to flush at once: too soon, it sets a timer.
TimersAfterReceipt(c) ==
  IF toServer'[c] # toServer[c] THEN {timer}
  ELSE IF MayFlush(client'[c]) THEN {timer \cup {c}}
  ELSE {timer, timer \cup {c}}

ReceiveForText(c) ==
  /\ Receive(c)
  /\ restore' = IF c \notin Mover \/ client'[c].content = client[c].content THEN restore
                ELSE restore \cup {c}
  /\ IF Unblocks(c) THEN FlushNoted(c) /\ timer' \in TimersAfterReceipt(c)
     ELSE UNCHANGED <<cursor, timer, shown, moved, misled>>

ReceiveChangeFocus(c) ==
  /\ toClient[c] # <<>> /\ Head(toClient[c]).type = "change_focus"
  /\ LET m == Head(toClient[c])
     IN  shown' = [shown EXCEPT ![c][m.author] = m.serial]
  /\ toClient' = [toClient EXCEPT ![c] = Tail(@)]
  /\ UNCHANGED <<serverVars, toServer, client, typed, astray, cursor, editorVars, moved,
                 misled>>

----------------------------------------------------------------------------
(* The server.                                                             *)

\* handle_change_focus: to everybody else.
TakeReport(c) ==
  /\ task[c] = Idle
  /\ toServer[c] # <<>> /\ Head(toServer[c]).type = "change_focus"
  /\ toServer' = [toServer EXCEPT ![c] = Tail(@)]
  /\ SetTask(c, Broadcasting(Head(toServer[c]), Client \ {c}))
  /\ UNCHANGED <<cell, log, toClient, client, typed, astray, cursorVars>>

HandleText(c) == Handle(c) /\ UNCHANGED cursorVars

----------------------------------------------------------------------------

CursorInit ==
  /\ Init
  /\ cursor = [c \in Client |-> [noted |-> None, waiting |-> None, sent |-> None,
                                 count |-> 0]]
  /\ shown = [c \in Client |-> [d \in Client \ {c} |-> 0]]
  /\ timer = {} /\ restore = {}
  /\ moved = 0 /\ misled = {}

Typing(c) == TypeAndNote(c) \/ Move(c) \/ Restore(c)

Timers(c) == FlushBoth(c) \/ FlushCursor(c) \/ SendReport(c)

Receiving(c) == ReceiveForText(c) \/ ReceiveChangeFocus(c)

Handling(c) == HandleText(c) \/ TakeReport(c)

CursorNext ==
  \E c \in Client : Typing(c) \/ Timers(c) \/ Receiving(c) \/ Handling(c)

\* Something that timers, channels and tasks can still do is done: every timer fires,
\* every message arrives and every task goes on, and what a user does leads to
\* finitely many steps.
Progress == \E c \in Client : Timers(c) \/ Receiving(c) \/ Handling(c)

CursorSpec ==
  /\ CursorInit /\ [][CursorNext]_<<vars, cursorVars>>
  /\ WF_<<vars, cursorVars>>(Progress)

----------------------------------------------------------------------------
(* Properties.                                                             *)

EditsIn(messages) == {m.id : m \in {m \in messages : m.type = "text_edit"}}

\* The edits of c that are still to come to d, but for the first n messages
\* that are on their way to it.
StillToCome(c, d, n) ==
  UNION {EditsIn(Range(toServer[c])),
         EditsIn(IF task[c].at = "broadcast" /\ d \in task[c].rest
                 THEN {task[c].message} ELSE {}),
         EditsIn({toClient[d][i] : i \in {i \in n + 1..Len(toClient[d]) :
                                            /\ toClient[d][i].type = "text_edit"
                                            /\ toClient[d][i].author = c}}),
         IF client[c].buffer = None THEN {} ELSE {LastEdit(c)}}

\* useTextSync.ts:19, "so they never reach other clients ahead of the text_edit that
\* produced them": when a cursor is on its way to another client, the edit it was
\* moved by, or over, is not behind it.
CursorAfterItsEdit ==
  \A d \in Client : \A n \in DOMAIN toClient[d] :
    LET m == toClient[d][n]
    IN  m.type = "change_focus" => m.edit \notin StillToCome(m.author, d, n)

\* Once nothing is on its way, everybody shows the last cursor of a user, however
\* noting, timers and edits were interleaved: no older one overtakes it and none
\* is held back for good, but for the clients that are misled and those that have
\* a cursor noted which nothing makes them report.
LastCursorShown ==
  Quiet => \A c \in Client \ misled : \A d \in Client \ {c} :
    cursor[c].noted = None /\ cursor[c].waiting = None =>
      shown[d][c] = cursor[c].count

\* The editor put the cursor back, and until the user types nothing will report it.
Stranded(c) ==
  cursor[c].noted # None /\ cursor[c].noted[1].restored /\ c \notin timer

\* A cursor that a client has noted, or that waits for its edits, is reported in
\* the end, or replaced: the timers do not run out before and the retries come to
\* an end.  The code keeps this but for one that the editor put back.
ReportsAreSent ==
  <>[](\A c \in Client :
        \/ c \in astray
        \/ cursor[c].waiting = None /\ (cursor[c].noted = None \/ Stranded(c)))

===============================================================================

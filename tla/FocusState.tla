------------------------------- MODULE FocusState -------------------------------
(***************************************************************************)
(* Who is in which cell and where, as the server knows it: FocusState      *)
(* (server/src/state/focus.rs) with the handlers that change it            *)
(* (handler/user.rs, handler/notebook.rs, the end of websocket_connection) *)
(* and the snapshot a joiner gets.                                         *)
(*                                                                         *)
(* An index says which cell a user is in and which bucket holds the        *)
(* positions of a cell; it is locked while somebody moves.  Edits change   *)
(* positions with the lock of the bucket alone, after they were committed  *)
(* at the holder of the notebook (CellState), and a snapshot reads one     *)
(* bucket after the other.  A mover that waits for a bucket can be         *)
(* aborted.                                                                *)
(*                                                                         *)
(* report, raced, late and cut are history variables, and so are the       *)
(* versions in the tasks and moved in the snapshot.                        *)
(***************************************************************************)
EXTENDS CellState, Maps

CONSTANTS
  User,
  Cell,
  Present,      \* the cells there are at first
  InitialText,  \* their content, and that of a new cell
  MaxText,      \* bound: the length of a text
  MaxRequests   \* bound: what the users do, leaving included

ASSUME PresentAssumption == Present \subseteq Cell
ASSUME TextAssumption    == InitialText \in Text /\ MaxText \in Nat

VARIABLES
  cells,     \* the cells of the notebook
  deleted,   \* the cells that were deleted: an id is not used again
  byUser,    \* by_user
  byCell,    \* by_cell: the bucket of a cell
  buckets,   \* every bucket ever made; tasks keep those that by_cell has lost
  task,      \* per user: what the receiving task of the connection is doing
  session,   \* per user: here, leaving (until the focus is cleared) or left
  snapshot,  \* what users_snapshot has found
  requests,  \* what the users have done so far
  report,    \* per user: the position as set, and for which version
  raced,     \* the users whose position an edit may have missed or met twice
  late,      \* who was set in which cell after it, or the user, had gone, or
             \* was in it when its deletion was aborted
  cut        \* the users that an aborted change has left half done

focusVars == <<byUser, byCell, buckets>>
ghostVars == <<report, raced, late, cut>>
vars == <<cells, deleted, focusVars, task, session, snapshot, requests, ghostVars>>

Idle == [at |-> "idle"]

SetTask(u, t) == task' = [task EXCEPT ![u] = t]

Counted ==
  /\ requests < MaxRequests
  /\ requests' = requests + 1

\* A message of u is handled.
Handles(u) == session[u] = "here" /\ task[u] = Idle

PositionsOf(x) == buckets[byCell[x]]

UsersIn(x) == IF x \in DOMAIN byCell THEN DOMAIN PositionsOf(x) ELSE {}

\* The edits of a cell of which the shift is still to come.
Unshifted(x) ==
  {task[w].version : w \in {w \in User : /\ task[w].at \in {"shifting", "holding"}
                                         /\ task[w].cell = x}}

\* The users of S have changed cells.
Moves(S) ==
  snapshot' = IF snapshot.at = "none" THEN snapshot
              ELSE [snapshot EXCEPT !.moved = @ \cup S]

----------------------------------------------------------------------------
(* handle_text_edit: an edit is committed, then transforms the positions.  *)

\* One character is typed or deleted.
Edits(text) ==
  {InsertTextAt(Len(text), p, <<ch>>) : p \in 0..Len(text), ch \in Char}
    \cup {DeleteRange(Len(text), p, p + 1) : p \in 0..Len(text) - 1}

CommitEdit(u, x, operation) ==
  /\ Handles(u) /\ Counted
  /\ LET c == cells[x]
         e == Edited(c, c.version, operation, u)
     IN  /\ Len(e.content) <= MaxText
         /\ cells' = [cells EXCEPT ![x] = e]
         /\ SetTask(u, [at |-> "shifting", cell |-> x, version |-> e.version,
                        operation |-> operation])
  /\ UNCHANGED <<deleted, focusVars, session, snapshot, ghostVars>>

\* The bucket is looked up, if the cell has one ...
TakeBucket(u) ==
  /\ task[u].at = "shifting"
  /\ LET x == task[u].cell
     IN  SetTask(u, IF x \notin DOMAIN byCell THEN Idle
                    ELSE [at |-> "holding", cell |-> x, bucket |-> byCell[x],
                          version |-> task[u].version,
                          operation |-> task[u].operation])
  /\ UNCHANGED <<cells, deleted, focusVars, session, snapshot, requests, ghostVars>>

\* A slip: nobody counts as the author of the edit.
ShiftedForNobody(positions, operation, author) ==
  [w \in DOMAIN positions |-> TransformPosition(positions[w], operation, FALSE)]

Shifted(positions, operation, author) ==
  [w \in DOMAIN positions |->
     TransformPosition(positions[w], operation, w = author)]

\* ... and its positions are changed, although it may have lost the cell.
Shift(u) ==
  /\ task[u].at = "holding"
  /\ LET t == task[u]
     IN  /\ buckets' = [buckets EXCEPT ![t.bucket] = Shifted(@, t.operation, u)]
         /\ raced' = IF \E v \in Unshifted(t.cell) : v < t.version
                     THEN raced \cup DOMAIN buckets[t.bucket] ELSE raced
  /\ SetTask(u, Idle)
  /\ UNCHANGED <<cells, deleted, byUser, byCell, session, snapshot, requests, report,
                 late, cut>>

----------------------------------------------------------------------------
(* handle_change_focus and handle_insert_cell: a position is set.          *)

Setting(x, position, version) ==
  [at |-> "setting", cell |-> x, position |-> position, version |-> version]

\* How long the text of a version was; one that is forgotten may have had any
\* length.
LengthAt(c, v) ==
  IF v < c.base THEN MaxText
  ELSE IF v = c.version THEN Len(c.content)
  ELSE BaseLen(c.history[v - c.base + 1].operation)

\* A cursor in the text of version base is brought up to date; in a cell that is
\* gone it is ignored.
ReportCursor(u, x, base, position) ==
  /\ Handles(u) /\ Counted
  /\ position \in 0..LengthAt(cells[x], base)
  /\ SetTask(u, Setting(x, RebasePosition(cells[x], base, position, u),
                        cells[x].version))
  /\ UNCHANGED <<cells, deleted, focusVars, session, snapshot, ghostVars>>

\* Who inserts a cell is at its start.
InsertCell(u, x) ==
  /\ Handles(u) /\ Counted
  /\ cells' = With(cells, x, NewCell(InitialText))
  /\ SetTask(u, Setting(x, 0, 0))
  /\ UNCHANGED <<deleted, focusVars, session, snapshot, ghostVars>>

\* A slip: the positions of the cell that is left stay as they are.
LeavingNothing(u, x) == buckets

\* The buckets when u has left the cell it was in, unless that is x.
Leaving(u, x) ==
  IF u \in DOMAIN byUser /\ byUser[u] # x /\ byUser[u] \in DOMAIN byCell
  THEN [buckets EXCEPT ![byCell[byUser[u]]] = Without(@, u)]
  ELSE buckets

\* Moves when the index says something else of u than x.
Departs(u, x) == Moves(IF u \in DOMAIN byUser /\ byUser[u] = x THEN {} ELSE {u})

\* Edits the position has missed, or will meet although it has seen them.
Races(x, version) ==
  \/ \E v \in Unshifted(x) : v <= version
  \/ x \in DOMAIN cells
       /\ \E v \in version + 1..cells[x].version : v \notin Unshifted(x)

SetFocus(u) ==
  /\ task[u].at = "setting"
  /\ LET x == task[u].cell
         bs == Leaving(u, x)
     IN  /\ byUser' = With(byUser, u, x)
         /\ IF x \in DOMAIN byCell
            THEN /\ buckets' = [bs EXCEPT ![byCell[x]] = With(@, u, task[u].position)]
                 /\ UNCHANGED byCell
            ELSE /\ buckets' = Append(bs, With(<<>>, u, task[u].position))
                 /\ byCell' = With(byCell, x, Len(buckets'))
         /\ Departs(u, x)
         /\ report' = With(report, u, [version |-> task[u].version,
                                       position |-> task[u].position])
         /\ raced' = IF Races(x, task[u].version) THEN raced \cup {u} ELSE raced \ {u}
         /\ late' = IF x \in deleted \/ session[u] = "left"
                    THEN late \cup {<<u, x>>} ELSE late
  /\ SetTask(u, Idle)
  /\ UNCHANGED <<cells, deleted, session, requests, cut>>

----------------------------------------------------------------------------
(* handle_delete_cell.  Who deletes a cell that is gone clears its focus    *)
(* again.                                                                  *)

\* A slip: only the order forgets the cell.
RemovedFromOrder(x) == cells

Removed(x) == Without(cells, x)

DeleteCell(u, x) ==
  /\ Handles(u) /\ Counted
  /\ cells' = Removed(x)
  /\ deleted' = deleted \cup {x}
  /\ SetTask(u, [at |-> "clearing", cell |-> x])
  /\ UNCHANGED <<focusVars, session, snapshot, ghostVars>>

\* A slip: everybody in the cell loses the bucket, and the index keeps them.
RemainingAll(x) == byUser

\* by_user without those who are in the bucket of x.
Remaining(x) ==
  [w \in {w \in DOMAIN byUser : ~(w \in UsersIn(x) /\ byUser[w] = x)} |-> byUser[w]]

ClearCell(u) ==
  /\ task[u].at = "clearing"
  /\ LET x == task[u].cell
     IN  IF x \notin DOMAIN byCell
         THEN UNCHANGED <<focusVars, snapshot>>
         ELSE /\ byCell' = Without(byCell, x)
              /\ buckets' = [buckets EXCEPT ![byCell[x]] = <<>>]
              /\ byUser' = Remaining(x)
              /\ Moves(UsersIn(x))
  /\ SetTask(u, Idle)
  /\ UNCHANGED <<cells, deleted, session, requests, ghostVars>>

----------------------------------------------------------------------------
(* The end of a connection.  Its receiving task is idle or is aborted, which *)
(* takes effect where it next waits, perhaps never.                        *)

Disconnect(u) ==
  /\ session[u] = "here" /\ Counted
  /\ session' = [session EXCEPT ![u] = "leaving"]
  /\ UNCHANGED <<cells, deleted, focusVars, task, snapshot, ghostVars>>

\* A slip: the position goes and the index stays.
ClearedKept(u) == byUser

Cleared(u) == Without(byUser, u)

ClearUser(u) ==
  /\ session[u] = "leaving"
  /\ session' = [session EXCEPT ![u] = "left"]
  /\ byUser' = Cleared(u)
  /\ buckets' = IF u \in DOMAIN byUser /\ byUser[u] \in DOMAIN byCell
                THEN [buckets EXCEPT ![byCell[byUser[u]]] = Without(@, u)]
                ELSE buckets
  /\ Moves({u})
  /\ UNCHANGED <<cells, deleted, byCell, task, requests, ghostVars>>

\* The task waits for the index, or an edit for its bucket: what it was about
\* to do is not done.
Aborted(u) ==
  /\ session[u] # "here" /\ task[u] # Idle
  /\ raced' = IF task[u].at \in {"shifting", "holding"}
              THEN raced \cup UsersIn(task[u].cell) ELSE raced
  /\ late' = IF task[u].at = "clearing"
             THEN late \cup {<<w, task[u].cell>> : w \in UsersIn(task[u].cell)}
             ELSE late
  /\ SetTask(u, Idle)
  /\ UNCHANGED <<cells, deleted, focusVars, session, snapshot, requests, report, cut>>

\* set_focus waits for the bucket that is left, or for the one that is entered.
SetFocusCut(u) ==
  /\ session[u] # "here" /\ task[u].at = "setting"
  /\ LET x == task[u].cell
     IN  /\ byUser' = With(byUser, u, x)
         /\ \/ UNCHANGED <<buckets, byCell>>
            \/ buckets' = Leaving(u, x) /\ UNCHANGED byCell
            \/ /\ x \notin DOMAIN byCell
               /\ buckets' = Append(Leaving(u, x), <<>>)
               /\ byCell' = With(byCell, x, Len(buckets'))
         /\ Departs(u, x)
         /\ late' = IF x \in deleted \/ session[u] = "left"
                    THEN late \cup {<<u, x>>} ELSE late
  /\ cut' = cut \cup {u}
  /\ SetTask(u, Idle)
  /\ UNCHANGED <<cells, deleted, session, requests, report, raced>>

\* clear_cell_focus waits for the bucket.
ClearCellCut(u) ==
  /\ session[u] # "here" /\ task[u].at = "clearing" /\ task[u].cell \in DOMAIN byCell
  /\ byCell' = Without(byCell, task[u].cell)
  /\ Moves(UsersIn(task[u].cell))
  /\ cut' = cut \cup UsersIn(task[u].cell)
  /\ SetTask(u, Idle)
  /\ UNCHANGED <<cells, deleted, byUser, buckets, session, requests, report, raced, late>>

----------------------------------------------------------------------------
(* users_snapshot.                                                         *)

BeginSnapshot ==
  /\ snapshot.at = "none"
  /\ snapshot' = [at |-> "reading", found |-> <<>>, moved |-> {},
                  rest |-> {<<x, byCell[x]>> : x \in DOMAIN byCell}]
  /\ UNCHANGED <<cells, deleted, focusVars, task, session, requests, ghostVars>>

\* A slip: a bucket replaces what was found in the others.
FoundAfterOnly(found, x, positions) == [u \in DOMAIN positions |-> <<x, positions[u]>>]

FoundAfter(found, x, positions) ==
  Overridden(found, [u \in DOMAIN positions |-> <<x, positions[u]>>])

\* The buckets are read in any order.
ReadBucket ==
  /\ snapshot.at = "reading"
  /\ \E b \in snapshot.rest :
       snapshot' = [snapshot EXCEPT !.rest = @ \ {b},
                                    !.found = FoundAfter(@, b[1], buckets[b[2]])]
  /\ UNCHANGED <<cells, deleted, focusVars, task, session, requests, ghostVars>>

----------------------------------------------------------------------------

Init ==
  /\ cells = [x \in Present |-> NewCell(InitialText)]
  /\ deleted = {}
  /\ byUser = <<>> /\ byCell = <<>> /\ buckets = <<>>
  /\ task = [u \in User |-> Idle]
  /\ session = [u \in User |-> "here"]
  /\ snapshot = [at |-> "none"]
  /\ requests = 0
  /\ report = <<>> /\ raced = {} /\ late = {} /\ cut = {}

Handling(u) ==
  \/ \E x \in DOMAIN cells :
       \/ \E operation \in Edits(cells[x].content) : CommitEdit(u, x, operation)
       \/ \E base \in 0..cells[x].version, position \in 0..MaxText :
            ReportCursor(u, x, base, position)
  \/ \E x \in Cell \ (DOMAIN cells \cup deleted) : InsertCell(u, x)
  \/ \E x \in DOMAIN cells \cup deleted : DeleteCell(u, x)
  \/ TakeBucket(u) \/ Shift(u) \/ SetFocus(u) \/ ClearCell(u)

Ending(u) ==
  \/ Disconnect(u) \/ ClearUser(u)
  \/ Aborted(u) \/ SetFocusCut(u) \/ ClearCellCut(u)

Next ==
  \/ \E u \in User : Handling(u) \/ Ending(u)
  \/ BeginSnapshot \/ ReadBucket

Spec == Init /\ [][Next]_vars

----------------------------------------------------------------------------
(* Properties.                                                             *)

FocusTypeOK ==
  /\ DOMAIN cells \subseteq Cell \ deleted
  /\ DOMAIN byUser \subseteq User /\ DOMAIN byCell \subseteq Cell
  /\ \A x \in DOMAIN byCell :
       /\ byCell[x] \in DOMAIN buckets
       /\ \A u \in UsersIn(x) : PositionsOf(x)[u] \in Nat
  /\ \A x, y \in DOMAIN byCell : byCell[x] = byCell[y] => x = y

\* focus.rs:15-19, "a user's cell membership change ... is atomic": the index
\* and the buckets agree on who is in which cell, whatever is going on, but for
\* a change that was aborted.
Membership ==
  \A u \in User \ cut :
    /\ u \in DOMAIN byUser => byUser[u] \in DOMAIN byCell
    /\ \A x \in DOMAIN byCell :
         u \in UsersIn(x) <=> u \in DOMAIN byUser /\ byUser[u] = x

\* When the edits of a cell have all been taken into account, a position is
\* what the holder would make of the report, while it remembers the edits since,
\* unless an edit was between the holder and the focus when it was set or
\* overtook another edit there.
CursorsExact ==
  \A x \in DOMAIN cells \cap DOMAIN byCell :
    Unshifted(x) = {} =>
      \A u \in UsersIn(x) \ raced :
        report[u].version >= cells[x].base =>
          PositionsOf(x)[u]
            = RebasePosition(cells[x], report[u].version, report[u].position, u)

\* A snapshot, although taken bucket by bucket, has everybody who did not move
\* meanwhile, in the cell the index says, and in no cell who is in none.
SnapshotHasThoseWhoStay ==
  snapshot.at = "reading" /\ snapshot.rest = {} =>
    \A u \in User \ (snapshot.moved \cup cut) :
      /\ u \in DOMAIN snapshot.found <=> u \in DOMAIN byUser
      /\ u \in DOMAIN byUser => snapshot.found[u][1] = byUser[u]

\* Nobody is left in a cell that was deleted, and nobody who has left is left in
\* any, once nothing is under way, but by a report that was handled before and
\* set after that, or by a deletion or a change that was aborted.
OnlyLateReportsStay ==
  (\A w \in User : task[w] = Idle) =>
    \A u \in DOMAIN byUser \ cut :
      byUser[u] \in deleted \/ session[u] = "left" => <<u, byUser[u]>> \in late

===============================================================================

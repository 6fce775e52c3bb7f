------------------------------ MODULE NaiveHolder ------------------------------
(***************************************************************************)
(* The other holder of a notebook, NaiveStateHolder of naive_resolver.rs,  *)
(* seen from one cell: one lock around everything, every edit of the cell  *)
(* kept for good, and a version only for a cell that has been edited.  It  *)
(* is the simple account of what NotebookStateHolder promises about a      *)
(* cell; HolderRefinement shows that the holder the server runs keeps it.  *)
(***************************************************************************)
EXTENDS Naturals, Sequences

\* What the text crate does, and the edits of a text there can be: both holders
\* use the same (CellState, CellHistory).
CONSTANTS
  User,                \* the origin of an edit
  Edits(_),
  RebaseOver(_, _),
  PositionOver(_, _, _),
  Applicable(_, _),
  Apply(_, _)

VARIABLES
  naive,  \* what cells, cell_versions and text_operation_history have of it
  texts   \* a history variable: what the cell said at every version so far

naiveVars == <<naive, texts>>

\* apply_insert makes no entry for the cell in cell_versions and none in
\* text_operation_history: no version is <<>>, and no entry for the history is
\* the empty one (an entry is made with its first edit).
NaiveNewCell(text) == [content |-> text, version |-> <<>>, history |-> <<>>]

\* get_cell_version.
NaiveVersion(n) == IF n.version = <<>> THEN 0 ELSE n.version[1]

\* A slip: the first edit the sender has not seen is left out.
NaiveUnseenAfterNext(n, baseVersion) ==
  SubSeq(n.history, baseVersion + 2, Len(n.history))

\* operations[base_cell_version..].
NaiveUnseen(n, baseVersion) == SubSeq(n.history, baseVersion + 1, Len(n.history))

NaiveRebased(n, baseVersion, operation) ==
  RebaseOver(NaiveUnseen(n, baseVersion), operation)

NaiveAccepts(n, baseVersion, operation) ==
  LET r == NaiveRebased(n, baseVersion, operation)
  IN  r # <<>> /\ Applicable(r[1], n.content)

\* The cell after an edit that came out as real.
NaiveEdited(n, real, origin) ==
  LET next == NaiveVersion(n) + 1
  IN  [content |-> Apply(real, n.content),
       version |-> <<next>>,
       history |-> Append(n.history, [version |-> next, operation |-> real,
                                      origin |-> origin])]

\* rebase_position: <<>>, CellNotFound, for a cell without a history.
NaiveRebasePosition(n, baseVersion, position, origin) ==
  IF n.history = <<>> THEN <<>>
  ELSE <<PositionOver(NaiveUnseen(n, baseVersion), position, origin)>>

----------------------------------------------------------------------------

NaiveInit ==
  /\ naive = NaiveNewCell(<<>>)
  /\ texts = <<naive.content>>

\* apply_text_operation: an edit that names baseVersion.
NaiveApplyTextOperation(baseVersion, operation) ==
  LET r == NaiveRebased(naive, baseVersion, operation)
  IN  /\ r # <<>> /\ Applicable(r[1], naive.content)
      /\ \E origin \in User : naive' = NaiveEdited(naive, r[1], origin)
      /\ texts' = Append(texts, naive'.content)

NaiveNext ==
  \E operation \in UNION {Edits(texts[v]) : v \in DOMAIN texts},
     baseVersion \in 0..NaiveVersion(naive) :
    NaiveApplyTextOperation(baseVersion, operation)

NaiveSpec == NaiveInit /\ [][NaiveNext]_naiveVars

===============================================================================

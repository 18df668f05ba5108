----------------------------- MODULE CellIterator -----------------------------
(***************************************************************************)
(* From one cell to the next that can be edited (cell-iterator.js and      *)
(* editCellByIteratorMethod of the inline editing plugin).  The editors'   *)
(* keys and buttons are locked while the iterator moves cell by cell, and  *)
(* page by page, each page being fetched: behind the last page comes the   *)
(* first, so that it ends, at the latest, where it began.                  *)
(*                                                                         *)
(* The page is turned in the collection's state before it is fetched, and  *)
(* stays turned when it does not come: page and shown are then apart.      *)
(* Others may delete records, the last ones here, so that a page that is   *)
(* asked for has none left: isEditable then gets no cell and raises an     *)
(* error, which ends the walk with the lock on (jQuery's then passes       *)
(* errors on; none of the callbacks behind it runs).                       *)
(***************************************************************************)
EXTENDS Naturals, FiniteSets

CONSTANTS
    Records,    \* number of records when the page came
    PageSize,
    Columns     \* number of columns

CellIteratorAssumption == {Records, PageSize, Columns} \subseteq Nat \ {0}

Methods == {"next", "nextRow", "prev", "prevRow"}
Cells   == (1..Records) \X (1..Columns)

VARIABLES
    visible,    \* renderable columns
    editable,   \* cells isEditable says yes to, where they are visible
    records,    \* number of records the server has
    total,      \* rows.state.totalRecords
    page,       \* rows.state.currentPage
    shown,      \* the page whose rows are there
    current,    \* the iterator's cell, or the one that is edited
    from,       \* the cell it started from
    method,     \* the iterator's method
    fetching,   \* the page that is being fetched, or 0
    lock,       \* lockUserActions
    raised,     \* the page that had no rows and ended the walk in an error, or 0
    straight    \* ghost: the walk started on the page of the state

vars == <<visible, editable, records, total, page, shown, current, from, method, fetching,
          lock, raised, straight>>

LastPage(n)  == (n + PageSize - 1) \div PageSize
PageOf(row)  == (row - 1) \div PageSize + 1
RowsOf(p, n) == {row \in 1..n : PageOf(row) = p}
FirstOf(S)   == CHOOSE i \in S : \A j \in S : i <= j
LastOf(S)    == CHOOSE i \in S : \A j \in S : i >= j
Forward(m)   == m \in {"next", "nextRow"}

IsEditable(cell) == cell \in editable /\ cell[2] \in visible

\* findCellByIndexOrNext: rows have cells for visible columns only.
FindNext(row, column, m) ==
    <<row, IF Forward(m) THEN FirstOf({c \in visible : c >= column})
           ELSE LastOf({c \in visible : c <= column})>>

EdgeColumn(m) ==
    CASE m = "next" -> LastOf(visible)
      [] m = "prev" -> FirstOf(visible)
      [] OTHER      -> current[2]

EdgeRow(m) == IF Forward(m) THEN LastOf(RowsOf(shown, total)) ELSE FirstOf(RowsOf(shown, total))

StartColumnKept(m) == current[2]

\* The column to look from in the next row, on whatever page it is.
StartColumn(m) ==
    CASE m = "next" -> 1
      [] m = "prev" -> Columns
      [] OTHER      -> current[2]

NextPageNotRound(p, m) ==
    IF Forward(m) THEN IF p < LastPage(total) THEN p + 1 ELSE p
    ELSE IF p > 1 THEN p - 1 ELSE p

\* getNextPage and getPreviousPage
NextPage(p, m) ==
    IF Forward(m) THEN IF p < LastPage(total) THEN p + 1 ELSE 1
    ELSE IF p > 1 THEN p - 1 ELSE LastPage(total)

Init ==
    /\ visible \in SUBSET (1..Columns) \ {{}}
    /\ editable \in SUBSET Cells
    /\ current \in {cell \in editable : cell[2] \in visible}
    /\ records = Records /\ total = Records
    /\ page = PageOf(current[1])
    /\ shown = page
    /\ from = current
    /\ method = "next"
    /\ fetching = 0
    /\ lock = FALSE /\ raised = 0
    /\ straight = TRUE

\* The cell to go on from on the page p of n records, once it is shown.
Turned(p, n, m) ==
    FindNext(IF Forward(m) THEN FirstOf(RowsOf(p, n)) ELSE LastOf(RowsOf(p, n)), StartColumn(m), m)

\* One call of the iterator's method.  getPage changes the state's page and asks
\* for it; getNextPage resolves at once when there is one page only.
Move(m) ==
    IF current[2] # EdgeColumn(m)
    THEN /\ current' = FindNext(current[1],
                                IF Forward(m) THEN current[2] + 1 ELSE current[2] - 1, m)
         /\ UNCHANGED <<page, fetching>>
    ELSE IF current[1] # EdgeRow(m)
    THEN /\ current' = FindNext(IF Forward(m) THEN current[1] + 1 ELSE current[1] - 1,
                                StartColumn(m), m)
         /\ UNCHANGED <<page, fetching>>
    ELSE IF NextPage(page, m) = page
    THEN current' = Turned(shown, total, m) /\ UNCHANGED <<page, fetching>>
    ELSE /\ page' = NextPage(page, m) /\ fetching' = NextPage(page, m)
         /\ UNCHANGED current

\* editCellByIteratorMethod
Start(m) ==
    /\ ~lock
    /\ current[1] \in RowsOf(shown, total) /\ IsEditable(current)
    /\ lock' = TRUE
    /\ method' = m
    /\ from' = current
    /\ straight' = (page = shown)
    /\ Move(m)
    /\ UNCHANGED <<visible, editable, records, total, shown, raised>>

\* checkEditable
Continue ==
    /\ lock /\ fetching = 0 /\ raised = 0
    /\ ~IsEditable(current)
    /\ Move(method)
    /\ UNCHANGED <<visible, editable, records, total, shown, from, method, lock, raised, straight>>

\* checkEditable, enterEditMode
Enter ==
    /\ lock /\ fetching = 0 /\ raised = 0
    /\ IsEditable(current)
    /\ lock' = FALSE
    /\ UNCHANGED <<visible, editable, records, total, page, shown, current, from, method,
                   fetching, raised, straight>>

\* The page comes: parse and _checkState, which takes a page behind the last one
\* for the last, then the iterator, which finds no cell where there are no rows.
Answer ==
    /\ fetching # 0
    /\ fetching' = 0
    /\ total' = records
    /\ IF (fetching - 1) * PageSize < records
       THEN /\ shown' = fetching
            /\ current' = Turned(fetching, records, method)
            /\ UNCHANGED <<page, raised>>
       ELSE /\ shown' = 0 /\ raised' = fetching
            /\ page' = IF records = 0 THEN 1 ELSE LastPage(records)
            /\ UNCHANGED current
    /\ UNCHANGED <<visible, editable, records, from, method, lock, straight>>

\* It does not come: the state's page stays turned.
Fail ==
    /\ fetching # 0
    /\ fetching' = 0
    /\ lock' = FALSE
    /\ UNCHANGED <<visible, editable, records, total, page, shown, current, from, method, raised,
                   straight>>

\* The user edits another cell of the rows there are, or of a page that is turned
\* to; or the page that is turned to does not come.
OpenCell(cell) ==
    /\ ~lock
    /\ cell # current /\ IsEditable(cell)
    /\ current' = cell
    /\ \/ cell[1] \in RowsOf(shown, total) /\ UNCHANGED <<total, page, shown>>
       \/ /\ cell[1] <= records
          /\ total' = records
          /\ page' = PageOf(cell[1])
          /\ shown' = page'
    /\ UNCHANGED <<visible, editable, records, from, method, fetching, lock, raised, straight>>

MissPage(p) ==
    /\ ~lock
    /\ page' = p
    /\ UNCHANGED <<visible, editable, records, total, shown, current, from, method, fetching,
                   lock, raised, straight>>

\* Other users delete records.
DeleteDown(n) ==
    /\ n < records
    /\ records' = n
    /\ UNCHANGED <<visible, editable, total, page, shown, current, from, method, fetching,
                   lock, raised, straight>>

Next ==
    \/ \E m \in Methods : Start(m)
    \/ Continue
    \/ Enter
    \/ Answer
    \/ Fail
    \/ \E cell \in Cells : OpenCell(cell)
    \/ \E p \in 1..LastPage(total) : MissPage(p)
    \/ \E n \in 0..Records : DeleteDown(n)

Spec ==
    /\ Init /\ [][Next]_vars
    /\ WF_vars(Continue) /\ WF_vars(Enter) /\ WF_vars(Answer)

-----------------------------------------------------------------------------
\* The place of a cell in the order the method goes through, from where it
\* started: how many cells further on, round the grid.
Distance(cell, m) ==
    LET n      == IF m \in {"next", "prev"} THEN Records * Columns ELSE Records
        At(c)  == IF m \in {"next", "prev"} THEN (c[1] - 1) * Columns + c[2] - 1 ELSE c[1] - 1
        d      == IF Forward(m) THEN (At(cell) + n - At(from)) % n
                  ELSE (At(from) + n - At(cell)) % n
    IN  IF d = 0 THEN n ELSE d

\* The cell that is edited next is the next editable one, in reading order or in
\* its column, over all pages and round to the first: none is skipped, and the
\* start is found again when there is no other (next, nextRow, prev, prevRow).  So
\* it is as long as no record is deleted, unless the walk started on a page that
\* another failed to replace: it then goes on behind the page that did not come.
EditsTheNext ==
    [][(lock /\ ~lock' /\ fetching = 0 /\ straight /\ records = Records) =>
          /\ IsEditable(current')
          /\ method \in {"nextRow", "prevRow"} => current'[2] = from[2]
          /\ \A cell \in Cells :
                /\ IsEditable(cell)
                /\ method \in {"nextRow", "prevRow"} => cell[2] = from[2]
                => Distance(cell, method) >= Distance(current', method)]_vars

\* The records that are left have a cell that the walk would stop at.
StopsSomewhere ==
    \E cell \in editable :
        /\ cell[1] <= records /\ IsEditable(cell)
        /\ method \in {"nextRow", "prevRow"} => cell[2] = from[2]

\* The user's actions are not locked for ever (editCellByIteratorMethod), but for
\* two cases: the page that was asked for has lost its last record meanwhile, or
\* no record is left with a cell to stop at, when the walk goes round for ever.
LockIsReleased ==
    /\ lock ~> (~lock \/ raised # 0 \/ ~StopsSomewhere)
    /\ [](raised # 0 => (raised - 1) * PageSize >= records)

=============================================================================

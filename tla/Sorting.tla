------------------------------- MODULE Sorting -------------------------------
(***************************************************************************)
(* How a grid is sorted.  The sorters are in collection.state, in order of *)
(* priority; the header cells show a direction of their own column         *)
(* (header-cell.js), the dropdown of the toolbar a column and a direction  *)
(* that it keeps itself (sorting/dropdown.js), and the rows are sorted as  *)
(* the server was asked to when they were fetched (body.js sort).  The     *)
(* dropdown is not disabled with the toolbar, so a request may be sent     *)
(* while another is in flight.                                             *)
(***************************************************************************)
EXTENDS Naturals, Sequences, SequencesExt

CONSTANTS
    Columns,         \* sortable columns, in the order of their sorters
    ToggleColumns,   \* those of sortType "toggle"
    Defaults,        \* default sorters of the configuration
    Views,           \* sorters of saved views
    None,
    MaxRequests      \* bound on the requests in flight

Directions == {"ascending", "descending"}
Names      == ToSet(Columns)
Sorters    == UNION {[1..n -> Names \X Directions] : n \in 0..Len(Columns)}

SortingAssumption ==
    /\ Columns \in Seq(Names) /\ Len(Columns) > 0
    /\ \A i, j \in DOMAIN Columns : Columns[i] = Columns[j] => i = j
    /\ None \notin Names \cup Directions
    /\ ToggleColumns \subseteq Names
    /\ Defaults \in Sorters
    /\ Views \subseteq Sorters

VARIABLES
    setup,      \* multiple_sorting; the dropdown has a button for the direction
    sorters,    \* collection.state.sorters: <<column, direction>> by priority
    direction,  \* of each column, as its header cell shows
    current,    \* the dropdown's currentColumn and currentDirection
    rows,       \* sorters the rows shown were fetched with
    requests,   \* in flight: the sorters sent, and whether none was sent since
    fresh,      \* the last answer is to the last request
    smooth      \* since the dropdown's last rendering all requests were
                \* answered, one at a time

vars == <<setup, sorters, direction, current, rows, requests, fresh, smooth>>

-----------------------------------------------------------------------------
\* getSortBy: what the server sorts by when it is sent these sorters.
Served(s) ==
    IF s # <<>> THEN s
    ELSE IF Defaults # <<>> THEN Defaults
    ELSE << <<Columns[1], "ascending">> >>

\* setSorting: the sorter is added with the lowest priority; when several are
\* allowed the only one cannot be removed.
SetSorting(s, c, d) ==
    LET rest  == IF setup.multiple THEN SelectSeq(s, LAMBDA e : e[1] # c) ELSE <<>>
        order == IF setup.multiple /\ Len(s) <= 1 /\ d = None THEN "ascending" ELSE d
    IN  IF order = None THEN rest ELSE Append(rest, <<c, order>>)

DirectionOf(s, c) ==
    IF \E e \in ToSet(s) : e[1] = c THEN (CHOOSE e \in ToSet(s) : e[1] = c)[2] ELSE None

CellDirectionsKept(s, old) ==
    [c \in Names |-> IF DirectionOf(s, c) = None THEN old[c] ELSE DirectionOf(s, c)]

\* _initCellDirection of every header cell, when the collection is reset.
CellDirections(s, old) ==
    [c \in Names |-> DirectionOf(s, c)]

\* _selectCurrentSortableColumn, for the columns whose direction changes: they
\* are notified in their order, and the last one stays.
Followed(old, new, cur) ==
    LET changed == {i \in DOMAIN Columns : /\ new[Columns[i]] # old[Columns[i]]
                                          /\ new[Columns[i]] # None}
        c       == Columns[Max(changed)]
    IN  IF changed = {} THEN cur ELSE [column |-> c, direction |-> new[c]]

\* _initCurrentSortableColumn: nothing when there are no sorters.
Rendered(s, cur) ==
    IF s = <<>> THEN cur ELSE [column |-> s[1][1], direction |-> s[1][2]]

\* The page comes with its rows and its state.
Init ==
    /\ setup \in [multiple : BOOLEAN, button : BOOLEAN]
    /\ sorters = Served(<<>>)
    /\ rows = Served(<<>>)
    /\ direction = CellDirections(sorters, [c \in Names |-> None])
    /\ current = Rendered(sorters, [column |-> None, direction |-> None])
    /\ requests = <<>>
    /\ fresh = TRUE
    /\ smooth = TRUE

Fetch ==
    /\ Len(requests) < MaxRequests
    /\ requests' = Append([i \in DOMAIN requests |-> [requests[i] EXCEPT !.last = FALSE]],
                          [sent |-> sorters', last |-> TRUE])
    /\ fresh' = FALSE
    /\ UNCHANGED <<setup, rows>>

\* body.sort, with the dropdown as it is when the event is triggered.
Sort(c, d, cur) ==
    /\ sorters' = SetSorting(sorters, c, d)
    /\ direction' = [direction EXCEPT ![c] = d]
    /\ current' = Followed(direction, direction', cur)
    /\ smooth' = (smooth /\ requests = <<>>)
    /\ Fetch

\* onClick of a header cell, which the loading mask covers: cycleSort or toggleSort.
ClickHeader(c) ==
    /\ requests = <<>>
    /\ Sort(c, IF direction[c] = "ascending" THEN "descending"
               ELSE IF /\ direction[c] = "descending"
                       /\ setup.multiple /\ c \notin ToggleColumns THEN None
               ELSE "ascending", current)

\* onDirectionToggle.
ToggleDirection ==
    LET d == IF current.direction = "descending" THEN "ascending" ELSE "descending"
    IN  /\ ~setup.multiple /\ setup.button
        /\ IF current.column # None
           THEN Sort(current.column, d, [current EXCEPT !.direction = d])
           ELSE /\ current' = [current EXCEPT !.direction = d]
                /\ UNCHANGED <<setup, sorters, direction, rows, requests, fresh, smooth>>

\* onChangeSorting: another column, with the direction there is, or any column
\* and direction.
ChooseColumn(c, d) ==
    /\ ~setup.multiple
    /\ smooth => [column |-> c, direction |-> d] # current
    /\ setup.button => /\ smooth => c # current.column
                       /\ d = IF current.direction = None THEN "ascending" ELSE current.direction
    /\ Sort(c, d, [current EXCEPT !.direction = d])

\* onChangeSorting: no column.
ChooseNone ==
    /\ ~setup.multiple
    /\ current.column # None
    /\ sorters' = <<>>
    /\ current' = [column |-> None, direction |-> None]
    /\ smooth' = (smooth /\ requests = <<>>)
    /\ UNCHANGED direction
    /\ Fetch

\* updateState by a saved view or the reset action, and the fetch after it.  The
\* Views are whatever the sorters of views and of the initial state have become,
\* which share them (ViewState).
ApplyState(s) ==
    /\ setup.multiple \/ Len(s) <= 1
    /\ sorters' = s
    /\ current' = Rendered(s, current)
    /\ smooth' = (s # <<>> /\ requests = <<>>)
    /\ UNCHANGED direction
    /\ Fetch

\* _columnRenderableChanged: the dropdown is rendered.
ShowOrHideColumn ==
    /\ current' = Rendered(sorters, current)
    /\ current' # current
    /\ smooth' = (fresh /\ requests = <<>>)
    /\ UNCHANGED <<setup, sorters, direction, rows, requests, fresh>>

\* The rows come: the collection is reset.
Answer(i) ==
    /\ requests' = RemoveAt(requests, i)
    /\ rows' = Served(requests[i].sent)
    /\ fresh' = requests[i].last
    /\ direction' = CellDirections(sorters, direction)
    /\ current' = Followed(direction, direction', current)
    /\ UNCHANGED <<setup, sorters, smooth>>

Fail(i) ==
    /\ requests' = RemoveAt(requests, i)
    /\ UNCHANGED fresh
    /\ smooth' = FALSE
    /\ UNCHANGED <<setup, sorters, direction, current, rows>>

Next ==
    \/ \E c \in Names : ClickHeader(c)
    \/ ToggleDirection
    \/ \E c \in Names, d \in Directions : ChooseColumn(c, d)
    \/ ChooseNone
    \/ \E s \in Views : ApplyState(s)
    \/ ShowOrHideColumn
    \/ \E i \in DOMAIN requests : Answer(i)
    \/ \E i \in DOMAIN requests : Fail(i)

Spec == Init /\ [][Next]_vars

-----------------------------------------------------------------------------
TypeOK ==
    /\ sorters \in Sorters /\ rows \in Sorters
    /\ direction \in [Names -> Directions \cup {None}]
    /\ current \in [column : Names \cup {None}, direction : Directions \cup {None}]
    /\ \A i \in DOMAIN requests : requests[i].sent \in Sorters

\* After the answer to the last request the headers show the sorters and the
\* rows are sorted by them; and the dropdown shows the first, whatever was
\* clicked where, unless requests failed or crossed (_initCellDirection,
\* body.sort, _selectCurrentSortableColumn).
SortedAsShown ==
    /\ fresh => /\ \A c \in Names : direction[c] = DirectionOf(sorters, c)
                /\ rows = Served(sorters)
    /\ (smooth /\ ~setup.multiple /\ sorters # <<>>)
          => current = [column |-> sorters[1][1], direction |-> sorters[1][2]]

=============================================================================

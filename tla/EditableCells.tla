---------------------------- MODULE EditableCells ----------------------------
(***************************************************************************)
(* A grid inside an entity form whose cells are edited in place            *)
(* (datagrid/listener/change-editable-cell-listener.js and its base        *)
(* classes, restoreChangeset of grid.js): the edits are kept in one        *)
(* changeset, copied to the form's hidden input and put back into the rows *)
(* after every load of the grid, of whatever page.                         *)
(*                                                                         *)
(* The loading mask keeps the user from the rows while requests are in     *)
(* flight (module GridPaging); the page has one listener of this kind.     *)
(***************************************************************************)
EXTENDS Naturals, FiniteSets

CONSTANTS
    Pages,         \* the grid's pages, as sets of row ids
    Columns,       \* columns the listener is configured for; others stay out
    Values,        \* values of a cell
    MaxRequests    \* bound on fetches in flight

Records    == UNION Pages
Cells      == Records \X Columns
NoChange   == "none"      \* the cell has no entry in the changeset

EditableCellsAssumption ==
    /\ \A p, q \in Pages : p = q \/ p \cap q = {}
    /\ NoChange \notin Values

Changesets == [Cells -> Values \cup {NoChange}]
Empty      == [cell \in Cells |-> NoChange]

VARIABLES
    stored,      \* values in the database
    page,        \* ids of the collection's models
    shown,       \* attributes of the models, on the page and off it
    read,        \* ghost: what the server last said of the cells shown
    changeset,   \* the listener's
    field,       \* the hidden input
    requests,    \* pages of the fetches in flight, with their order
    asking,      \* a refresh or reset waits for its confirmation
    lost         \* ghost: a fetch failed after the changes were dropped

vars == <<stored, page, shown, read, changeset, field, requests, asking, lost>>

TypeOK ==
    /\ stored \in [Cells -> Values] /\ shown \in [Cells -> Values] /\ read \in [Cells -> Values]
    /\ page \in Pages
    /\ changeset \in Changesets /\ field \in Changesets
    /\ requests \subseteq [page : Pages, n : 1..MaxRequests, cleared : BOOLEAN]
    /\ asking \in BOOLEAN /\ lost \in BOOLEAN

HasChanges == changeset # Empty

\* restoreChangeset: every model of the page takes the values of its entry.
Overlay(values, p, changes) ==
    [cell \in Cells |->
        IF cell[1] \in p /\ changes[cell] # NoChange THEN changes[cell] ELSE values[cell]]

(***************************************************************************)
(* The form is shown, with the input filled if it is shown again; the      *)
(* listener clears its changeset and restores it from the input.           *)
(***************************************************************************)
Init ==
    /\ stored \in [Cells -> Values]
    /\ page \in Pages
    /\ field \in {c \in Changesets : \A i, j \in Cells :
                     c[i] # NoChange /\ c[j] # NoChange => i = j}
    /\ changeset = field
    /\ read = stored
    /\ shown = Overlay(stored, page, field)
    /\ requests = {} /\ asking = FALSE /\ lost = FALSE

(***************************************************************************)
(* Actions.                                                                *)
(***************************************************************************)
Free == requests = {} /\ ~asking

\* _onModelEdited and _processValue: the row's entry is extended, and the
\* changeset is written to the input.
\* (Definitions named for a mistake are mutants of the one that follows.)
ProcessValueReplaces(cell, value) ==
    [i \in Cells |->
        IF i = cell THEN value
        ELSE IF i[1] = cell[1] THEN NoChange ELSE changeset[i]]

ProcessValue(cell, value) == [changeset EXCEPT ![cell] = value]

Edit(cell, value) ==
    /\ Free
    /\ cell[1] \in page /\ shown[cell] # value
    /\ shown' = [shown EXCEPT ![cell] = value]
    /\ changeset' = ProcessValue(cell, value)
    /\ field' = changeset'
    /\ UNCHANGED <<stored, page, read, requests, asking, lost>>

Fetch(p, cleared) ==
    /\ Cardinality(requests) < MaxRequests
    /\ requests' = requests \cup
          {[page |-> p, cleared |-> cleared,
            n |-> CHOOSE k \in 1..MaxRequests : \A r \in requests : r.n # k]}

\* Pages, sorting and filters, which nobody asks about; the sorting can be
\* changed while another request is in flight.
Load(p) ==
    /\ ~asking
    /\ Fetch(p, FALSE)
    /\ UNCHANGED <<stored, page, shown, read, changeset, field, asking, lost>>

\* _onExecuteRefreshAction and _onExecuteResetAction: _confirmAction.
Button(p) ==
    /\ Free
    /\ IF HasChanges
       THEN asking' = TRUE /\ UNCHANGED requests
       ELSE Fetch(p, FALSE) /\ UNCHANGED asking
    /\ UNCHANGED <<stored, page, shown, read, changeset, field, lost>>

Confirm(p) ==
    /\ asking
    /\ asking' = FALSE
    /\ changeset' = Empty /\ field' = Empty
    /\ Fetch(p, TRUE)
    /\ UNCHANGED <<stored, page, shown, read, lost>>

Decline ==
    /\ asking
    /\ asking' = FALSE
    /\ UNCHANGED <<stored, page, shown, read, changeset, field, requests, lost>>

\* _restoreState on "grid_load:complete", which comes when the last request
\* is done; each value that is set is processed like an edit of the user's.
RestoreState(values, p) ==
    /\ changeset' = field
    /\ shown' = Overlay(values, p, field)
    /\ UNCHANGED field

Answer(r) ==
    /\ r \in requests
    /\ requests' = requests \ {r}
    /\ page' = r.page
    /\ read' = stored
    /\ lost' = (lost /\ ~r.cleared)
    /\ IF requests' = {}
       THEN RestoreState(stored, r.page)
       ELSE shown' = stored /\ UNCHANGED <<changeset, field>>
    /\ UNCHANGED <<stored, asking>>

Fail(r) ==
    /\ r \in requests
    /\ requests' = requests \ {r}
    /\ lost' = (lost \/ r.cleared)
    /\ IF requests' = {}
       THEN RestoreState(shown, page)
       ELSE UNCHANGED <<shown, changeset, field>>
    /\ UNCHANGED <<stored, page, read, asking>>

\* "grid_load:complete" of another grid of the page.
OtherGridLoads ==
    /\ RestoreState(shown, page)
    /\ UNCHANGED <<stored, page, read, requests, asking, lost>>

OthersStore(cell, value) ==
    /\ stored' = [stored EXCEPT ![cell] = value]
    /\ UNCHANGED <<page, shown, read, changeset, field, requests, asking, lost>>

Next ==
    \/ \E cell \in Cells, value \in Values : Edit(cell, value) \/ OthersStore(cell, value)
    \/ \E p \in Pages : Load(p) \/ Button(p) \/ Confirm(p)
    \/ Decline
    \/ \E r \in requests : Answer(r) \/ Fail(r)
    \/ OtherGridLoads

Spec == Init /\ [][Next]_vars

(***************************************************************************)
(* Properties.                                                             *)
(***************************************************************************)
\* What the form will submit for the cells of the page is what they show,
\* and what it will not submit they show as the server sent it, through any
\* edits, pages, overlapping and failing requests and loads of other grids -
\* unless a fetch failed after the changes were dropped.
EditsAreSubmitted ==
    requests = {} /\ ~lost =>
        \A cell \in page \X Columns : shown[cell] = Overlay(read, page, field)[cell]

=============================================================================

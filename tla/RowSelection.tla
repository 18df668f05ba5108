---------------------------- MODULE RowSelection ----------------------------
(***************************************************************************)
(* The rows' checkboxes, the header's checkbox and the select state behind *)
(* them (datagrid/grid.js, cell/select-row-cell.js, row.js,                *)
(* header-cell/select-all-header-cell.js): the selection is kept as a rule *)
(* and its exceptions, spread over the select state, the DOM of the rows   *)
(* and a debounced view of the header, and survives page changes.          *)
(***************************************************************************)
EXTENDS SelectState

CONSTANTS
    Records,       \* ids of the records
    TemplateRows   \* the theme gives rows a template with its own checkbox

ASSUME TemplateRowsAssumption == TemplateRows \in BOOLEAN

VARIABLES
    existing,      \* records on the server that match the grid's query
    page,          \* ids of the collection's models
    sel,           \* grid.selectState
    checked,       \* models whose row shows a checked checkbox
    header,        \* the header's checkbox
    pending,       \* the header's debounced update is scheduled
    updated        \* the collection's state was updated and no answer came since

vars == <<existing, page, sel, checked, header, pending, updated>>

HeaderOf(s) == [checked |-> ~s.inset, indeterminate |-> s.ids # {}]

TypeOK ==
    /\ existing \subseteq Records
    /\ page \subseteq Records
    /\ sel \in SelectionsOver(Records)
    /\ checked \subseteq page
    /\ header \in [checked : BOOLEAN, indeterminate : BOOLEAN]
    /\ pending \in BOOLEAN
    /\ updated \in BOOLEAN

Init ==
    /\ existing \in SUBSET Records
    /\ page \in SUBSET existing
    /\ sel = Reset(TRUE)
    /\ checked = {}
    /\ header = HeaderOf(sel)
    /\ pending = FALSE
    /\ updated = FALSE

\* The select state's "change" event schedules the header's update.
\* (Definitions named for a mistake are mutants of the one that follows.)
SetSelectionListensToInset(s) ==
    /\ sel' = s
    /\ pending' = (pending \/ s.inset # sel.inset)

SetSelection(s) ==
    /\ sel' = s
    /\ pending' = (pending \/ s # sel)

(***************************************************************************)
(* Clicks on rows and on the header.                                       *)
(***************************************************************************)
ClickRow(m) ==
    LET status == m \notin checked
    IN  /\ m \in page
        /\ checked' = IF status THEN checked \cup {m} ELSE checked \ {m}
        /\ SetSelection(OnSelectRow(sel, {m}, status))
        /\ UNCHANGED <<existing, page, header, updated>>

\* "backgrid:select": SelectRowCell sets its checkbox and triggers its change
\* handler; the checkbox of a template row is set silently.
BackgridSelect(s, models, status) ==
    IF TemplateRows THEN s ELSE OnSelectRow(s, models, status)

\* grid.selectAll and grid.selectNone tell the rows first and reset after;
\* grid.selectAllVisible has to do it the other way round.
SelectAll ==
    /\ checked' = page
    /\ SetSelection(Reset(FALSE))
    /\ UNCHANGED <<existing, page, updated>>

SelectNone ==
    /\ checked' = {}
    /\ SetSelection(Reset(TRUE))
    /\ UNCHANGED <<existing, page, updated>>

SelectAllVisibleWithoutReset ==
    /\ checked' = page
    /\ SetSelection(BackgridSelect(sel, page, TRUE))
    /\ UNCHANGED <<existing, page, header, updated>>

SelectAllVisible ==
    /\ checked' = page
    /\ SetSelection(BackgridSelect(Reset(TRUE), page, TRUE))
    /\ UNCHANGED <<existing, page, header, updated>>

\* The browser toggles the header's checkbox before onCheckboxClick runs.
ClickHeader ==
    /\ header' = [checked |-> ~header.checked, indeterminate |-> FALSE]
    /\ IF NothingSelected(sel) THEN SelectAll ELSE SelectNone

DropdownSelectAll  == SelectAll /\ UNCHANGED header
DropdownSelectNone == SelectNone /\ UNCHANGED header

UpdateHeader ==
    /\ pending
    /\ header' = HeaderOf(sel)
    /\ pending' = FALSE
    /\ UNCHANGED <<existing, page, sel, checked, updated>>

(***************************************************************************)
(* The collection: another page, a removed model, an updated state.        *)
(***************************************************************************)
\* An answer resets the models and every row is rendered anew; a template
\* is given the model's attributes only.
ReloadRendersUnchecked(p) ==
    /\ page' = p
    /\ checked' = {}
    /\ updated' = FALSE
    /\ UNCHANGED <<existing, sel, header, pending>>

Reload(p) ==
    /\ page' = p
    /\ checked' = IF TemplateRows THEN {} ELSE SelectedAmong(sel, p)
    /\ updated' = FALSE
    /\ UNCHANGED <<existing, sel, header, pending>>

\* A destroyed model leaves the collection, and the selection with it.
ModelRemoved(m) ==
    /\ m \in page
    /\ existing' = existing \ {m}
    /\ page' = page \ {m}
    /\ checked' = checked \ {m}
    /\ SetSelection(RemoveRows(sel, {m}))
    /\ UNCHANGED <<header, updated>>

\* collection.updateState: a grid view, the reset action, an appearance (which
\* fetch next) or the columns manager (which does not).
UpdateState ==
    /\ SetSelection(Reset(TRUE))
    /\ updated' = TRUE
    /\ UNCHANGED <<existing, page, checked, header>>

\* Others delete and add records.
Vanish(m) ==
    /\ m \in existing
    /\ existing' = existing \ {m}
    /\ UNCHANGED <<page, sel, checked, header, pending, updated>>

Arrive(m) ==
    /\ m \in Records \ existing
    /\ existing' = existing \cup {m}
    /\ UNCHANGED <<page, sel, checked, header, pending, updated>>

UserStep ==
    \/ \E m \in Records : ClickRow(m)
    \/ ClickHeader
    \/ DropdownSelectAll
    \/ DropdownSelectNone
    \/ SelectAllVisible

CollectionStep ==
    \/ \E p \in SUBSET existing : Reload(p)
    \/ \E m \in Records : ModelRemoved(m) \/ Vanish(m) \/ Arrive(m)
    \/ UpdateState

Next == UserStep \/ UpdateHeader \/ CollectionStep

Spec == Init /\ [][Next]_vars

(***************************************************************************)
(* Properties.                                                             *)
(***************************************************************************)
\* A mass action never takes a row of the page that is not shown as checked,
\* whatever mix of clicks, header choices, page changes, removals and state
\* updates came before.
SelectedRowsAreChecked == SelectedAmong(sel, page) \subseteq checked

\* Nor does it miss one that is, except after a state update that has not
\* been followed by an answer: updateState empties the selection and leaves
\* the checkboxes alone.
CheckedRowsAreSelected == ~updated => checked \subseteq SelectedAmong(sel, page)

\* What is checked on the page is what a mass action takes of it.
CheckboxesAgree == SelectedRowsAreChecked /\ CheckedRowsAreSelected

\* The header's three-valued checkbox, which the browser toggles by itself and
\* a debounced handler sets, shows what the select state says whenever no
\* update of it is scheduled.
HeaderAgrees == ~pending => header = HeaderOf(sel)

\* The select state, checkboxes and header together keep a set of chosen
\* records as module Selection says.
Chosen == SelectedAmong(sel, existing)
Abstract == INSTANCE Selection WITH chosen <- Chosen
ImplementsSelection == Abstract!Spec

=============================================================================

----------------------------- MODULE SelectState -----------------------------
(***************************************************************************)
(* SelectStateModel (datagrid/select-state-model.js) and the grid handlers *)
(* that drive it.  The model keeps a set of ids and whether they are the   *)
(* rows that are selected (inset) or the only ones that are not.           *)
(***************************************************************************)

SelectionsOver(S) == [inset : BOOLEAN, ids : SUBSET S]

\* reset: `inset` unless the options say it is false.
Reset(inset) == [inset |-> inset, ids |-> {}]

AddRows(sel, models)    == [sel EXCEPT !.ids = @ \cup models]
RemoveRows(sel, models) == [sel EXCEPT !.ids = @ \ models]

\* grid.onSelectRow for the rows of models, one after the other: an id is
\* kept for the rows whose status is the exception to the rule.
OnSelectRow(sel, models, status) ==
    IF status = sel.inset THEN AddRows(sel, models) ELSE RemoveRows(sel, models)

\* grid.isSelected.
IsSelected(sel, m) == (m \in sel.ids) = sel.inset

SelectedAmong(sel, models) == { m \in models : IsSelected(sel, m) }

\* mass-action.checkSelectionState.
NothingSelected(sel) == sel.inset /\ sel.ids = {}

=============================================================================

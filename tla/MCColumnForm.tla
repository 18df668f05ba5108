---------------------------- MODULE MCColumnForm ----------------------------
(***************************************************************************)
(* Grids inside entity forms, in two parts that share no state: one with a *)
(* column of checkboxes, one with cells edited in place.  A behaviour      *)
(* takes the steps of one part.                                            *)
(***************************************************************************)
EXTENDS ColumnForm, TLC

CONSTANTS r1, r2, r3, c1, c2, v1, v2
CONSTANTS CellPages, Columns, Values, MaxRequests    \* of the grid with cells

VARIABLES part, stored, formPage, shown, read, changeset, field, requests, asked, dropped

cellVars == <<stored, formPage, shown, read, changeset, field, requests, asked, dropped>>

First    == {r1, r2}
TwoPages == {First, {r3}}

Editable == INSTANCE EditableCells WITH
    Pages <- CellPages, page <- formPage, asking <- asked, lost <- dropped

ASSUME EditableAssumption == Editable!EditableCellsAssumption

MCInit ==
    /\ part \in {"checkboxes", "cells"}
    /\ Init /\ Editable!Init
    /\ part = "cells" => assigned = {} /\ fields = [in |-> {}, notIn |-> {}]
    /\ part = "checkboxes" => /\ \E v \in Values : stored = [cell \in Editable!Cells |-> v]
                              /\ formPage \in CellPages /\ r1 \in formPage
                              /\ field = Editable!Empty

MCNext ==
    \/ part = "checkboxes" /\ Next /\ UNCHANGED <<part, cellVars>>
    \/ part = "cells" /\ Editable!Next /\ UNCHANGED <<part, vars>>

MCSpec == MCInit /\ [][MCNext]_<<part, vars, cellVars>>

\* Columns and values differ by nothing but their names.
Symmetry == Permutations({c1, c2}) \cup Permutations({v1, v2})

\* The form submits what the cells show; stated in EditableCells.
EditsAreSubmitted == Editable!EditsAreSubmitted

=============================================================================

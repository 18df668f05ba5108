------------------------ MODULE RowSelection_proofs ------------------------
(***************************************************************************)
(* Safety of RowSelection for any set of records and any page size, and    *)
(* its refinement of Selection.  The agreement of checkboxes and select    *)
(* state is inductive together with the types; it needs rows that render   *)
(* their own checkboxes, because a template does not see the select state. *)
(*                                                                         *)
(* Then RowActions for any cells and number of requests: what a row runs   *)
(* was clicked for, and confirmed once.  Its invariant follows a press     *)
(* from the button going down, over the click, to the timer.               *)
(***************************************************************************)
EXTENDS MCRowSelection, Naturals, TLAPS

BoxesOK == ~TemplateRows => SelectedRowsAreChecked /\ CheckedRowsAreSelected

IInv == TypeOK /\ BoxesOK /\ HeaderAgrees

(***************************************************************************)
(* The operators of SelectState.                                           *)
(***************************************************************************)
LEMMA ResetType == \A b \in BOOLEAN : Reset(b) \in SelectionsOver(Records)
BY DEF Reset, SelectionsOver

LEMMA OnSelectRowType ==
    ASSUME NEW s \in SelectionsOver(Records), NEW models \in SUBSET Records,
           NEW status \in BOOLEAN
    PROVE  OnSelectRow(s, models, status) \in SelectionsOver(Records)
BY DEF OnSelectRow, AddRows, RemoveRows, SelectionsOver

\* Selecting rows makes exactly those rows selected, dropping them exactly
\* those not, in either mode.
LEMMA OnSelectRowEffect ==
    ASSUME NEW s \in SelectionsOver(Records), NEW models \in SUBSET Records,
           NEW status \in BOOLEAN, NEW m
    PROVE  IsSelected(OnSelectRow(s, models, status), m)
             <=> IF m \in models THEN status ELSE IsSelected(s, m)
BY DEF OnSelectRow, AddRows, RemoveRows, IsSelected, SelectionsOver

LEMMA ResetEffect ==
    ASSUME NEW m
    PROVE  ~IsSelected(Reset(TRUE), m) /\ IsSelected(Reset(FALSE), m)
<1>1. \A b : Reset(b).inset = b /\ Reset(b).ids = {}
  BY DEF Reset
<1>2. (m \in {}) = FALSE
  BY SMT
<1>. QED  BY <1>1, <1>2, Zenon DEF IsSelected

LEMMA BackgridSelectType ==
    ASSUME NEW s \in SelectionsOver(Records), NEW models \in SUBSET Records
    PROVE  BackgridSelect(s, models, TRUE) \in SelectionsOver(Records)
BY OnSelectRowType DEF BackgridSelect

(***************************************************************************)
(* The invariant.                                                          *)
(***************************************************************************)
LEMMA InitIInv == Init => IInv
<1>. SUFFICES ASSUME Init PROVE IInv
  OBVIOUS
<1>1. TypeOK
  BY ResetType DEF Init, TypeOK, HeaderOf, Reset
<1>2. SelectedRowsAreChecked /\ CheckedRowsAreSelected
  BY ResetEffect DEF Init, SelectedRowsAreChecked, CheckedRowsAreSelected, SelectedAmong
<1>. QED  BY <1>1, <1>2 DEF Init, IInv, BoxesOK, HeaderAgrees

\* A select state that changes schedules the header's update.
LEMMA HeaderKept ==
    ASSUME HeaderAgrees, pending \in BOOLEAN, NEW s, SetSelection(s), UNCHANGED header
    PROVE  HeaderAgrees'
BY DEF HeaderAgrees, SetSelection

LEMMA UserStepIInv == IInv /\ UserStep => IInv'
<1>. SUFFICES ASSUME IInv, UserStep PROVE IInv'
  OBVIOUS
<1>. USE DEF IInv
<1>1. ASSUME NEW m \in Records, ClickRow(m) PROVE IInv'
  <2>. DEFINE status == m \notin checked
  <2>1. /\ m \in page /\ UNCHANGED <<existing, page, header, updated>>
        /\ checked' = IF status THEN checked \cup {m} ELSE checked \ {m}
        /\ SetSelection(OnSelectRow(sel, {m}, status))
    BY <1>1 DEF ClickRow
  <2>2. sel' = OnSelectRow(sel, {m}, status) /\ pending' \in BOOLEAN
    BY <2>1 DEF SetSelection
  <2>3. sel' \in SelectionsOver(Records)
    BY <2>2, OnSelectRowType DEF TypeOK
  <2>4. TypeOK'
    BY <2>1, <2>2, <2>3 DEF TypeOK
  <2>5. \A r : IsSelected(sel', r) <=> IF r = m THEN status ELSE IsSelected(sel, r)
    <3>1. {m} \in SUBSET Records /\ status \in BOOLEAN /\ sel \in SelectionsOver(Records)
      BY DEF TypeOK
    <3>. QED  BY <2>2, <3>1, OnSelectRowEffect
  <2>6. BoxesOK'
    BY <2>1, <2>5 DEF BoxesOK, SelectedRowsAreChecked, CheckedRowsAreSelected, SelectedAmong
  <2>. QED  BY <2>1, <2>4, <2>6, HeaderKept DEF TypeOK
<1>2. ASSUME NEW b \in BOOLEAN, checked' = (IF b THEN {} ELSE page),
             SetSelection(Reset(b)), UNCHANGED <<existing, page, updated>>
      PROVE  /\ header' \in [checked : BOOLEAN, indeterminate : BOOLEAN] => TypeOK'
             /\ BoxesOK'
  <2>1. sel' = Reset(b) /\ pending' \in BOOLEAN /\ sel' \in SelectionsOver(Records)
    BY <1>2, ResetType DEF SetSelection
  <2>2. header' \in [checked : BOOLEAN, indeterminate : BOOLEAN] => TypeOK'
    BY <1>2, <2>1 DEF TypeOK
  <2>3. \A m : IsSelected(sel', m) <=> ~b
    BY <2>1, ResetEffect
  <2>4. BoxesOK'
    BY <1>2, <2>3 DEF BoxesOK, SelectedRowsAreChecked, CheckedRowsAreSelected, SelectedAmong
  <2>. QED  BY <2>2, <2>4
<1>3. CASE ClickHeader
  <2>1. header' \in [checked : BOOLEAN, indeterminate : BOOLEAN]
    BY <1>3 DEF ClickHeader, TypeOK
  <2>2. CASE NothingSelected(sel)
    <3>1. SelectAll
      BY <1>3, <2>2 DEF ClickHeader
    <3>2. TypeOK' /\ BoxesOK'
      BY <1>2, <2>1, <3>1 DEF SelectAll
    <3>3. sel # Reset(FALSE)
      BY <2>2 DEF NothingSelected, Reset
    <3>. QED  BY <3>1, <3>2, <3>3 DEF SelectAll, SetSelection, HeaderAgrees
  <2>3. CASE ~NothingSelected(sel)
    <3>1. SelectNone
      BY <1>3, <2>3 DEF ClickHeader
    <3>2. TypeOK' /\ BoxesOK'
      BY <1>2, <2>1, <3>1 DEF SelectNone
    <3>3. sel # Reset(TRUE)
      BY <2>3 DEF NothingSelected, Reset
    <3>. QED  BY <3>1, <3>2, <3>3 DEF SelectNone, SetSelection, HeaderAgrees
  <2>. QED  BY <2>2, <2>3
<1>4. CASE DropdownSelectAll
  BY <1>2, <1>4, HeaderKept DEF DropdownSelectAll, SelectAll, TypeOK
<1>5. CASE DropdownSelectNone
  BY <1>2, <1>5, HeaderKept DEF DropdownSelectNone, SelectNone, TypeOK
<1>6. CASE SelectAllVisible
  <2>1. /\ checked' = page /\ SetSelection(BackgridSelect(Reset(TRUE), page, TRUE))
        /\ UNCHANGED <<existing, page, header, updated>>
    BY <1>6 DEF SelectAllVisible
  <2>2. sel' = BackgridSelect(Reset(TRUE), page, TRUE) /\ pending' \in BOOLEAN
    BY <2>1 DEF SetSelection
  <2>3. sel' \in SelectionsOver(Records)
    BY <2>2, ResetType, BackgridSelectType DEF TypeOK
  <2>4. TypeOK'
    BY <2>1, <2>2, <2>3 DEF TypeOK
  <2>5. ~TemplateRows => \A m : IsSelected(sel', m) <=> m \in page
    BY <2>2, ResetType, ResetEffect, OnSelectRowEffect DEF BackgridSelect, TypeOK
  <2>6. BoxesOK'
    BY <2>1, <2>5 DEF BoxesOK, SelectedRowsAreChecked, CheckedRowsAreSelected, SelectedAmong
  <2>. QED  BY <2>1, <2>4, <2>6, HeaderKept DEF TypeOK
<1>. QED  BY <1>1, <1>3, <1>4, <1>5, <1>6 DEF UserStep

LEMMA CollectionStepIInv == IInv /\ CollectionStep => IInv'
<1>. SUFFICES ASSUME IInv, CollectionStep PROVE IInv'
  OBVIOUS
<1>. USE DEF IInv
<1>1. ASSUME NEW p \in SUBSET existing, Reload(p) PROVE IInv'
  <2>1. checked' \subseteq p /\ p \subseteq Records
    BY <1>1 DEF Reload, SelectedAmong, TypeOK
  <2>2. TypeOK' /\ HeaderAgrees'
    BY <1>1, <2>1 DEF Reload, TypeOK, HeaderAgrees, HeaderOf
  <2>3. BoxesOK'
    BY <1>1 DEF Reload, BoxesOK, SelectedRowsAreChecked, CheckedRowsAreSelected
  <2>. QED  BY <2>2, <2>3
<1>2. ASSUME NEW m \in Records, ModelRemoved(m) PROVE IInv'
  <2>1. /\ existing' = existing \ {m} /\ page' = page \ {m} /\ checked' = checked \ {m}
        /\ SetSelection(RemoveRows(sel, {m})) /\ UNCHANGED <<header, updated>>
    BY <1>2 DEF ModelRemoved
  <2>2. sel' = RemoveRows(sel, {m}) /\ pending' \in BOOLEAN
    BY <2>1 DEF SetSelection
  <2>3. sel' \in SelectionsOver(Records)
    BY <2>2 DEF TypeOK, RemoveRows, SelectionsOver
  <2>4. TypeOK'
    BY <2>1, <2>2, <2>3 DEF TypeOK
  <2>5. \A r : r # m => (IsSelected(sel', r) <=> IsSelected(sel, r))
    BY <2>2 DEF IsSelected, RemoveRows, TypeOK, SelectionsOver
  <2>6. BoxesOK'
    BY <2>1, <2>5 DEF BoxesOK, SelectedRowsAreChecked, CheckedRowsAreSelected, SelectedAmong
  <2>. QED  BY <2>1, <2>4, <2>6, HeaderKept DEF TypeOK
<1>3. ASSUME NEW m \in Records, Vanish(m) \/ Arrive(m) PROVE IInv'
  <2>1. /\ existing' \subseteq Records
        /\ UNCHANGED <<page, sel, checked, header, pending, updated>>
    BY <1>3 DEF Vanish, Arrive, TypeOK
  <2>. QED
    BY <2>1 DEF TypeOK, BoxesOK, SelectedRowsAreChecked, CheckedRowsAreSelected,
                SelectedAmong, HeaderAgrees, HeaderOf
<1>4. CASE UpdateState
  <2>1. /\ SetSelection(Reset(TRUE)) /\ updated' = TRUE
        /\ UNCHANGED <<existing, page, checked, header>>
    BY <1>4 DEF UpdateState
  <2>2. sel' = Reset(TRUE) /\ pending' \in BOOLEAN /\ sel' \in SelectionsOver(Records)
    BY <2>1, ResetType DEF SetSelection
  <2>3. TypeOK'
    BY <2>1, <2>2 DEF TypeOK
  <2>4. BoxesOK'
    BY <2>1, <2>2, ResetEffect DEF BoxesOK, SelectedRowsAreChecked, CheckedRowsAreSelected,
                                   SelectedAmong
  <2>. QED  BY <2>1, <2>3, <2>4, HeaderKept DEF TypeOK
<1>. QED  BY <1>1, <1>2, <1>3, <1>4 DEF CollectionStep

LEMMA NextIInv == IInv /\ [Next]_vars => IInv'
<1>. SUFFICES ASSUME IInv, [Next]_vars PROVE IInv'
  OBVIOUS
<1>1. CASE UpdateHeader
  <2>1. /\ header' = HeaderOf(sel) /\ pending' = FALSE
        /\ UNCHANGED <<existing, page, sel, checked, updated>>
    BY <1>1 DEF UpdateHeader
  <2>2. header' \in [checked : BOOLEAN, indeterminate : BOOLEAN]
    BY <2>1 DEF HeaderOf, IInv, TypeOK, SelectionsOver
  <2>. QED
    BY <2>1, <2>2 DEF IInv, TypeOK, BoxesOK, SelectedRowsAreChecked, CheckedRowsAreSelected,
                      SelectedAmong, HeaderAgrees, HeaderOf
<1>2. CASE UNCHANGED vars
  BY <1>2 DEF vars, IInv, TypeOK, BoxesOK, SelectedRowsAreChecked, CheckedRowsAreSelected,
              SelectedAmong, HeaderAgrees, HeaderOf
<1>. QED  BY <1>1, <1>2, UserStepIInv, CollectionStepIInv DEF Next

\* Types, checkboxes and header, all together.
THEOREM Invariance == Spec => []IInv
<1>. QED  BY InitIInv, NextIInv, PTL DEF Spec

\* No visible row is selected without being shown as checked, and a checked row
\* is part of the selection unless the collection's state was updated without
\* an answer since.
THEOREM CheckboxesCorrect == ~TemplateRows => (Spec => []CheckboxesAgree)
<1>. SUFFICES ASSUME ~TemplateRows PROVE Spec => []CheckboxesAgree
  OBVIOUS
<1>1. IInv => CheckboxesAgree
  BY DEF IInv, BoxesOK, CheckboxesAgree
<1>. QED  BY <1>1, Invariance, PTL

\* The header's checkbox agrees with the select state between updates.
THEOREM HeaderCorrect == Spec => []HeaderAgrees
<1>1. IInv => HeaderAgrees
  BY DEF IInv
<1>. QED  BY <1>1, Invariance, PTL

(***************************************************************************)
(* Refinement: what each step does to the set of chosen records.           *)
(***************************************************************************)
LEMMA StepRefines == IInv /\ [Next]_vars => [Abstract!Next]_(Abstract!vars)
<1>. SUFFICES ASSUME IInv, [Next]_vars PROVE Abstract!Next \/ UNCHANGED Abstract!vars
  OBVIOUS
<1>. USE DEF Abstract!Next, Abstract!vars
<1>. TypeOK
  BY DEF IInv
<1>1. ASSUME NEW m \in Records, ClickRow(m)
      PROVE  Abstract!Next
  <2>. DEFINE status == m \notin checked
  <2>1. m \in page /\ UNCHANGED <<existing, page>>
    BY <1>1 DEF ClickRow
  <2>2. \A r : IsSelected(sel', r) <=> IF r = m THEN status ELSE IsSelected(sel, r)
    <3>1. {m} \in SUBSET Records /\ status \in BOOLEAN /\ sel \in SelectionsOver(Records)
      BY DEF TypeOK
    <3>2. sel' = OnSelectRow(sel, {m}, status)
      BY <1>1 DEF ClickRow, SetSelection
    <3>. QED  BY <3>1, <3>2, OnSelectRowEffect
  <2>3. Chosen' \in {Chosen \cup ({m} \cap existing), Chosen \ {m}}
    BY <2>1, <2>2 DEF Chosen, SelectedAmong
  <2>. QED  BY <2>1, <2>3 DEF Abstract!Pick
<1>2. ASSUME NEW b \in BOOLEAN, SetSelection(Reset(b)), UNCHANGED <<existing, page>>
      PROVE  Abstract!Next
  <2>1. \A m : IsSelected(sel', m) <=> ~b
    BY <1>2, ResetEffect DEF SetSelection
  <2>2. Chosen' = IF b THEN {} ELSE existing
    BY <1>2, <2>1 DEF Chosen, SelectedAmong
  <2>. QED  BY <1>2, <2>2 DEF Abstract!PickAll, Abstract!PickNone
<1>3. CASE ClickHeader
  BY <1>2, <1>3 DEF ClickHeader, SelectAll, SelectNone
<1>4. CASE DropdownSelectAll \/ DropdownSelectNone \/ UpdateState
  BY <1>2, <1>4 DEF DropdownSelectAll, DropdownSelectNone, SelectAll, SelectNone, UpdateState
<1>5. CASE SelectAllVisible
  <2>1. sel' = BackgridSelect(Reset(TRUE), page, TRUE) /\ UNCHANGED <<existing, page>>
    BY <1>5 DEF SelectAllVisible, SetSelection
  <2>2. CASE TemplateRows
    <3>1. \A m : ~IsSelected(sel', m)
      BY <2>1, <2>2, ResetEffect DEF BackgridSelect
    <3>. QED  BY <2>1, <3>1 DEF Chosen, SelectedAmong, Abstract!PickNone
  <2>3. CASE ~TemplateRows
    <3>1. \A m : IsSelected(sel', m) <=> m \in page
      BY <2>1, <2>3, ResetType, ResetEffect, OnSelectRowEffect DEF BackgridSelect, TypeOK
    <3>. QED  BY <2>1, <3>1 DEF Chosen, SelectedAmong, Abstract!PickVisible
  <2>. QED  BY <2>2, <2>3
<1>6. CASE UpdateHeader
  BY <1>6 DEF UpdateHeader, Chosen, SelectedAmong
<1>7. ASSUME NEW p \in SUBSET existing, Reload(p) PROVE Abstract!Next
  BY <1>7 DEF Reload, Chosen, SelectedAmong, Abstract!Turn
<1>8. ASSUME NEW m \in Records, ModelRemoved(m) PROVE Abstract!Next
  <2>1. /\ existing' = existing \ {m} /\ page' = page \ {m}
        /\ sel' = RemoveRows(sel, {m})
    BY <1>8 DEF ModelRemoved, SetSelection
  <2>2. \A r : r # m => (IsSelected(sel', r) <=> IsSelected(sel, r))
    BY <2>1 DEF IsSelected, RemoveRows, TypeOK, SelectionsOver
  <2>3. Chosen' = Chosen \ {m}
    BY <2>1, <2>2 DEF Chosen, SelectedAmong
  <2>. QED  BY <2>1, <2>3 DEF Abstract!Vanish
<1>9. ASSUME NEW m \in Records, Vanish(m) PROVE Abstract!Next
  BY <1>9 DEF Vanish, Chosen, SelectedAmong, Abstract!Vanish
<1>10. ASSUME NEW m \in Records, Arrive(m) PROVE Abstract!Next
  <2>1. m \in Records \ existing /\ existing' = existing \cup {m} /\ UNCHANGED <<page, sel>>
    BY <1>10 DEF Arrive
  <2>2. Chosen' \in {Chosen, Chosen \cup {m}}
    BY <2>1 DEF Chosen, SelectedAmong
  <2>. QED  BY <2>1, <2>2 DEF Abstract!Arrive
<1>11. CASE UNCHANGED vars
  BY <1>11 DEF vars, Chosen, SelectedAmong
<1>. QED
  BY <1>1, <1>3, <1>4, <1>5, <1>6, <1>7, <1>8, <1>9, <1>10, <1>11
  DEF Next, UserStep, CollectionStep

\* The select state, its rows and its header together are one set of chosen
\* records that only the user's choices and vanishing records change.
THEOREM Refinement == Spec => ImplementsSelection
<1>1. Init => Abstract!Init
  BY ResetEffect DEF Init, Abstract!Init, Chosen, SelectedAmong
<1>. QED
  BY <1>1, StepRefines, Invariance, PTL DEF Spec, Abstract!Spec, ImplementsSelection

-----------------------------------------------------------------------------
(* What a click on a row runs. *)

\* The press that is half of a double click is forgotten, any other one is
\* remembered as it was.
PressKnown ==
    pointer = "down" =>
        /\ ~gesture.whole
        /\ press = IF gesture.second THEN Row!Untouched
                   ELSE [cell |-> gesture.cell, text |-> gesture.text]

\* The row lets the coming click through exactly when it ends a first whole one.
PermitRight ==
    pointer = "clicking" => (permit /\ at \notin Own <=> gesture.whole /\ ~gesture.second)

\* The timer runs exactly while a first whole click may become a double one.
TimerRight ==
    timer <=> pointer = "up" /\ gesture.whole /\ ~gesture.second

\* The menu's dialog, once made, listens to "ok" once.
DialogRight == "menu" \in dialogs /\ Confirmation => listeners = 1

RowInv == Row!TypeOK /\ PressKnown /\ PermitRight /\ TimerRight /\ DialogRight

\* The work of a row leaves its mouse, and dialogs and requests to their types.
WorkOK ==
    /\ cell \in {"empty", "list", "dropdown"}
    /\ launchers \in BOOLEAN /\ menu \in BOOLEAN
    /\ listeners \in Nat
    /\ dialogs \subseteq Row!Actions
    /\ requests \in [Row!Actions \cup {"gone"} -> Nat]
    /\ fetching \in BOOLEAN /\ mask \in BOOLEAN
    /\ DialogRight

MouseOK ==
    /\ pointer \in {"up", "down", "clicking"}
    /\ at \in Row!Targets
    /\ text \in {"none", "some"}
    /\ press \in [cell : Row!Targets, text : {"none", "some"}] \cup {Row!Untouched}
    /\ permit \in BOOLEAN /\ timer \in BOOLEAN
    /\ gesture \in [cell : Row!Targets, text : {"none", "some"},
                    whole : BOOLEAN, second : BOOLEAN]
    /\ PressKnown /\ PermitRight /\ TimerRight

LEMMA RowInvParts == RowInv <=> MouseOK /\ WorkOK
BY DEF RowInv, Row!TypeOK, MouseOK, WorkOK

LEMMA MouseKept == MouseOK /\ UNCHANGED Row!mouse => MouseOK'
BY DEF MouseOK, Row!mouse, PressKnown, PermitRight, TimerRight

LEMMA WorkKept == WorkOK /\ UNCHANGED Row!acts => WorkOK'
BY DEF WorkOK, Row!acts, Row!work, DialogRight

\* Executing adds to one action's requests.
LEMMA ExecuteAdds ==
    ASSUME WorkOK, NEW a \in Row!Actions, NEW n \in Nat, Row!Execute(a, n)
    PROVE  /\ requests' \in [Row!Actions \cup {"gone"} -> Nat]
           /\ \A b \in Row!Actions :
                 requests'[b] = IF b = a THEN requests[b] + n ELSE requests[b]
           /\ mask' = TRUE
BY DEF WorkOK, Row!Execute

\* Running makes a dialog or, where the actions do not ask, a request, of the
\* action that is run.
LEMMA RunEffect ==
    ASSUME WorkOK, NEW a \in Row!Actions, Row!Run(a)
    PROVE  /\ WorkOK' /\ dialogs' \subseteq dialogs \cup {a}
           /\ \A b \in Row!Actions : b # a => requests'[b] = requests[b]
           /\ Confirmation => requests' = requests
<1>. USE DEF Row!Actions
<1>1. CASE Confirmation
  <2>1. /\ dialogs' = dialogs \cup {a}
        /\ listeners' = IF a = "menu" THEN 1 ELSE listeners
        /\ UNCHANGED <<cell, launchers, requests, mask, fetching>> /\ menu' = (a # "menu" /\ menu)
    BY <1>1 DEF Row!Run, Row!ConfirmDialog
  <2>. QED  BY <2>1 DEF WorkOK, DialogRight
<1>2. CASE ~Confirmation
  <2>1. /\ Row!Execute(a, 1) /\ UNCHANGED <<cell, launchers, dialogs, listeners, fetching>>
        /\ menu' = (a # "menu" /\ menu)
    BY <1>2 DEF Row!Run
  <2>. QED  BY <1>2, <2>1, ExecuteAdds DEF WorkOK, DialogRight
<1>. QED  BY <1>1, <1>2

LEMMA RowClickEffect ==
    ASSUME WorkOK, Row!RunRowClickAction
    PROVE  /\ WorkOK'
           /\ requests'["menu"] = requests["menu"]
           /\ Confirmation => requests' = requests
<1>1. "row" \in Row!Actions /\ "menu" \in Row!Actions /\ "row" # "menu"
  BY DEF Row!Actions
<1>2. CASE Row!Run("row")
  BY <1>1, <1>2, RunEffect
<1>3. CASE UNCHANGED Row!acts
  BY <1>3, WorkKept DEF Row!acts, Row!work
<1>. QED  BY <1>2, <1>3 DEF Row!RunRowClickAction

\* What is proved of every step.
ClickStarts == Row!RowRuns => gesture.whole /\ ~gesture.second /\ pointer # "down"

OkExecutes ==
    \A a \in Row!Actions : Confirmation /\ requests'[a] > requests[a]
        => a \in dialogs \ dialogs' /\ requests'[a] = requests[a] + 1

GoodStep == RowInv' /\ ClickStarts /\ OkExecutes

\* Steps that start nothing.
LEMMA QuietStep ==
    ASSUME RowInv, MouseOK', WorkOK', dialogs' \subseteq dialogs \cup {"menu"},
           requests'["row"] <= requests["row"],
           Confirmation => requests'["menu"] <= requests["menu"]
    PROVE  GoodStep
<1>1. RowInv'
  BY DEF RowInv, Row!TypeOK, MouseOK, WorkOK
<1>2. \A a \in Row!Actions : requests[a] \in Nat /\ requests'[a] \in Nat
  BY RowInvParts DEF WorkOK
<1>. QED  BY <1>1, <1>2 DEF GoodStep, ClickStarts, Row!RowRuns, OkExecutes, Row!Actions

LEMMA MouseOnlyStep == RowInv /\ MouseOK' /\ UNCHANGED Row!acts => GoodStep
<1>. SUFFICES ASSUME RowInv, MouseOK', UNCHANGED Row!acts PROVE GoodStep
  OBVIOUS
<1>1. WorkOK' /\ dialogs' = dialogs /\ requests' = requests
  BY RowInvParts, WorkKept DEF Row!acts, Row!work
<1>2. requests["row"] \in Nat /\ requests["menu"] \in Nat
  BY RowInvParts DEF WorkOK, Row!Actions
<1>. QED  BY <1>1, <1>2, QuietStep

\* Pressing the button where no click came before, and where one did.
LEMMA PressMouse ==
    ASSUME MouseOK, NEW c \in Row!Targets, Row!Press(c)
    PROVE  MouseOK'
<1>. DEFINE again == gesture.whole /\ ~gesture.second
<1>1. /\ pointer = "up" /\ pointer' = "down" /\ at' = c
      /\ IF timer THEN timer' = FALSE /\ press' = Row!Untouched
                  ELSE press' = [cell |-> c, text |-> text] /\ timer' = timer
      /\ gesture' = [cell |-> c, text |-> text, whole |-> FALSE, second |-> again]
      /\ UNCHANGED <<text, permit>>
  BY DEF Row!Press, Row!OnMouseDown
<1>2. again \in BOOLEAN /\ (timer <=> again)
  BY <1>1 DEF MouseOK, TimerRight
<1>. HIDE DEF again
<1>3. PressKnown' /\ PermitRight' /\ TimerRight'
  BY <1>1, <1>2 DEF PressKnown, PermitRight, TimerRight
<1>4. /\ press' \in [cell : Row!Targets, text : {"none", "some"}] \cup {Row!Untouched}
      /\ timer' = FALSE
  <2>1. CASE timer
    BY <1>1, <2>1
  <2>2. CASE ~timer
    BY <1>1, <2>2 DEF MouseOK
  <2>. QED  BY <2>1, <2>2
<1>5. gesture' \in [cell : Row!Targets, text : {"none", "some"},
                    whole : BOOLEAN, second : BOOLEAN]
  BY <1>1, <1>2 DEF MouseOK
<1>. QED  BY <1>1, <1>3, <1>4, <1>5 DEF MouseOK

LEMMA ReleaseMouse == MouseOK /\ Row!Release => MouseOK'
<1>. SUFFICES ASSUME MouseOK, Row!Release PROVE MouseOK'
  OBVIOUS
<1>. DEFINE w == gesture.cell = at /\ at \in Plain /\ gesture.text = text
<1>1. /\ pointer = "down" /\ pointer' = "clicking"
      /\ permit' = (at \notin Links /\ press = [cell |-> at, text |-> text])
      /\ gesture' = [gesture EXCEPT !.whole = w]
      /\ UNCHANGED <<at, text, press, timer>>
  BY DEF Row!Release, Row!OnMouseUp
<1>2. w \in BOOLEAN /\ gesture'.whole = w /\ gesture'.second = gesture.second
      /\ gesture' \in [cell : Row!Targets, text : {"none", "some"},
                       whole : BOOLEAN, second : BOOLEAN]
  BY <1>1 DEF MouseOK
<1>3. at \in Row!Targets /\ at # "none"
  BY RowAssumption DEF MouseOK, Row!RowActionsAssumption
<1>4. press = [cell |-> at, text |-> text]
        <=> ~gesture.second /\ gesture.cell = at /\ gesture.text = text
  BY <1>1, <1>3 DEF MouseOK, PressKnown, Row!Untouched
<1>5. at \notin Links /\ at \notin Own <=> at \in Plain
  BY <1>3, RowAssumption DEF Row!RowActionsAssumption, Row!Targets
<1>6. permit' /\ at \notin Own <=> w /\ ~gesture.second
  BY <1>1, <1>4, <1>5
<1>. HIDE DEF w
<1>7. PressKnown' /\ PermitRight' /\ TimerRight'
  BY <1>1, <1>2, <1>6 DEF MouseOK, PressKnown, PermitRight, TimerRight
<1>. QED  BY <1>1, <1>2, <1>7 DEF MouseOK

LEMMA OtherMouse ==
    ASSUME MouseOK
    PROVE  /\ \A c \in Row!Targets : Row!Drag(c) => MouseOK'
           /\ \A c \in Row!Targets : Row!ReleaseFromElsewhere(c) => MouseOK'
           /\ Row!ReleaseElsewhere => MouseOK'
           /\ Row!Pause => MouseOK'
<1>. USE DEF PressKnown, PermitRight, TimerRight
<1>1. ASSUME NEW c \in Row!Targets, Row!Drag(c) PROVE MouseOK'
  BY <1>1 DEF Row!Drag, MouseOK
<1>2. ASSUME NEW c \in Row!Targets, Row!ReleaseFromElsewhere(c) PROVE MouseOK'
  BY <1>2 DEF Row!ReleaseFromElsewhere, MouseOK
<1>3. Row!ReleaseElsewhere => MouseOK'
  BY DEF Row!ReleaseElsewhere, MouseOK
<1>4. Row!Pause => MouseOK'
  BY DEF Row!Pause, MouseOK
<1>. QED  BY <1>1, <1>2, <1>3, <1>4

\* The last part of a click, and the end of the timer: the mouse is where the
\* invariant wants it, and what runs was clicked for.
LEMMA ClickStep ==
    ASSUME RowInv, NEW blank \in BOOLEAN, Row!Click(blank)
    PROVE  GoodStep
<1>. MouseOK /\ WorkOK
  BY RowInvParts
<1>. DEFINE w == gesture.whole /\ ~blank
<1>1. /\ pointer = "clicking" /\ pointer' = "up" /\ UNCHANGED <<at, text, press, permit>>
      /\ gesture' = [gesture EXCEPT !.whole = w]
  BY DEF Row!Click
<1>2. /\ gesture'.whole = w /\ gesture'.second = gesture.second /\ w \in BOOLEAN
      /\ gesture' \in [cell : Row!Targets, text : {"none", "some"},
                       whole : BOOLEAN, second : BOOLEAN]
  BY <1>1 DEF MouseOK
<1>3. timer = FALSE
  BY <1>1 DEF MouseOK, TimerRight
<1>4. permit /\ at \notin Own <=> gesture.whole /\ ~gesture.second
  BY <1>1 DEF MouseOK, PermitRight
<1>5. ASSUME timer' \in BOOLEAN, timer' <=> w /\ ~gesture.second PROVE MouseOK'
  <2>1. PressKnown' /\ PermitRight' /\ TimerRight'
    BY <1>1, <1>2, <1>5 DEF PressKnown, PermitRight, TimerRight
  <2>. QED  BY <1>1, <1>2, <1>5, <2>1 DEF MouseOK
<1>6. MenuCell \in Own
  BY RowAssumption DEF Row!RowActionsAssumption
<1>7. CASE at = MenuCell
  <2>1. Row!OpenDropdown /\ UNCHANGED timer
    BY <1>7 DEF Row!Click
  <2>2. MouseOK'
    BY <1>3, <1>4, <1>5, <1>6, <1>7, <2>1
  <2>3. WorkOK' /\ dialogs' = dialogs /\ requests' = requests
    BY <2>1 DEF Row!OpenDropdown, WorkOK, DialogRight
  <2>. QED  BY <2>2, <2>3, QuietStep DEF WorkOK, Row!Actions
<1>8. CASE at \in Own \ {MenuCell}
  <2>1. UNCHANGED <<timer, Row!acts>>
    BY <1>8 DEF Row!Click
  <2>2. MouseOK'
    BY <1>3, <1>4, <1>5, <1>8, <2>1
  <2>. QED  BY <2>1, <2>2, MouseOnlyStep
<1>9. CASE at \notin Own
  <2>1. IF permit
        THEN IF blank THEN Row!RunRowClickAction /\ timer' = timer
                      ELSE timer' = TRUE /\ UNCHANGED Row!acts
        ELSE UNCHANGED <<timer, Row!acts>>
    BY <1>6, <1>9 DEF Row!Click, Row!ClickReachesRow, Row!OnClick
  <2>2. MouseOK'
    BY <1>3, <1>4, <1>5, <1>9, <2>1
  <2>3. CASE permit /\ blank
    <3>1. Row!RunRowClickAction
      BY <2>1, <2>3
    <3>2. WorkOK' /\ requests'["menu"] = requests["menu"]
          /\ (Confirmation => requests' = requests)
      BY <3>1, RowClickEffect
    <3>3. gesture.whole /\ ~gesture.second /\ pointer # "down"
      BY <1>1, <1>4, <1>9, <2>3
    <3>4. OkExecutes
      BY <3>2 DEF OkExecutes, WorkOK
    <3>5. RowInv'
      BY <2>2, <3>2 DEF RowInv, Row!TypeOK, MouseOK, WorkOK
    <3>. QED  BY <3>3, <3>4, <3>5 DEF GoodStep, ClickStarts
  <2>4. CASE ~(permit /\ blank)
    BY <2>1, <2>2, <2>4, MouseOnlyStep
  <2>. QED  BY <2>3, <2>4
<1>. QED  BY <1>7, <1>8, <1>9

LEMMA TimeoutStep == RowInv /\ Row!Timeout => GoodStep
<1>. SUFFICES ASSUME RowInv, Row!Timeout PROVE GoodStep
  OBVIOUS
<1>. MouseOK /\ WorkOK
  BY RowInvParts
<1>1. /\ timer /\ timer' = FALSE /\ Row!RunRowClickAction
      /\ gesture' = [gesture EXCEPT !.whole = FALSE]
      /\ UNCHANGED <<pointer, at, text, press, permit>>
  BY DEF Row!Timeout
<1>2. pointer = "up" /\ gesture.whole /\ ~gesture.second
  BY <1>1 DEF MouseOK, TimerRight
<1>3. MouseOK'
  BY <1>1, <1>2 DEF MouseOK, PressKnown, PermitRight, TimerRight
<1>4. WorkOK' /\ (Confirmation => requests' = requests)
  BY <1>1, RowClickEffect
<1>5. OkExecutes
  BY <1>4 DEF OkExecutes, WorkOK
<1>6. RowInv'
  BY <1>3, <1>4 DEF RowInv, Row!TypeOK, MouseOK, WorkOK
<1>. QED  BY <1>2, <1>5, <1>6 DEF GoodStep, ClickStarts

LEMMA ClickLauncherStep == RowInv /\ Row!ClickLauncher => GoodStep
<1>. SUFFICES ASSUME RowInv, Row!ClickLauncher PROVE GoodStep
  OBVIOUS
<1>. MouseOK /\ WorkOK
  BY RowInvParts
<1>. "menu" \in Row!Actions /\ "row" \in Row!Actions
  BY DEF Row!Actions
<1>1. pointer = "up" /\ Row!Run("menu")
  BY DEF Row!ClickLauncher
<1>2. /\ WorkOK' /\ dialogs' \subseteq dialogs \cup {"menu"} /\ requests'["row"] = requests["row"]
      /\ (Confirmation => requests' = requests)
  BY <1>1, RunEffect
<1>3. CASE UNCHANGED Row!mouse
  BY <1>2, <1>3, MouseKept, QuietStep DEF WorkOK
<1>4. CASE ~UNCHANGED Row!mouse
  <2>1. PICK c \in Links :
          /\ IF timer THEN timer' = FALSE /\ press' = Row!Untouched
                      ELSE press' = [cell |-> c, text |-> text] /\ timer' = timer
          /\ permit' = FALSE /\ gesture' = [gesture EXCEPT !.whole = FALSE]
          /\ UNCHANGED <<pointer, at, text>>
    BY <1>4 DEF Row!ClickLauncher, Row!OnMouseDown
  <2>2. timer' = FALSE /\ c \in Row!Targets
    BY <2>1 DEF MouseOK, Row!Targets
  <2>3. press' \in [cell : Row!Targets, text : {"none", "some"}] \cup {Row!Untouched}
    BY <2>1, <2>2 DEF MouseOK
  <2>4. PressKnown' /\ PermitRight' /\ TimerRight'
    BY <1>1, <2>1, <2>2 DEF MouseOK, PressKnown, PermitRight, TimerRight
  <2>5. MouseOK'
    BY <2>1, <2>2, <2>3, <2>4 DEF MouseOK
  <2>. QED  BY <1>2, <2>5, QuietStep DEF WorkOK
<1>. QED  BY <1>3, <1>4

\* "ok" executes what its dialog was made for, as often as it listens: once.
LEMMA OkStep ==
    ASSUME RowInv, NEW a \in Row!Actions, Row!Ok(a)
    PROVE  GoodStep
<1>. MouseOK /\ WorkOK
  BY RowInvParts
<1>. DEFINE n == IF a = "menu" THEN listeners ELSE 1
<1>1. /\ a \in dialogs /\ dialogs' = dialogs \ {a} /\ Row!Execute(a, n)
      /\ UNCHANGED <<Row!mouse, cell, launchers, menu, listeners, fetching>>
  BY DEF Row!Ok
<1>2. n \in Nat /\ (Confirmation => n = 1)
  BY <1>1 DEF WorkOK, DialogRight
<1>. HIDE DEF n
<1>3. /\ requests' \in [Row!Actions \cup {"gone"} -> Nat] /\ mask' = TRUE
      /\ \A b \in Row!Actions : requests'[b] = IF b = a THEN requests[b] + n ELSE requests[b]
  BY <1>1, <1>2, ExecuteAdds
<1>4. MouseOK' /\ WorkOK'
  BY <1>1, <1>3, MouseKept DEF WorkOK, DialogRight
<1>5. \A b \in Row!Actions : requests[b] \in Nat
  BY DEF WorkOK
<1>6. OkExecutes
  BY <1>1, <1>2, <1>3, <1>5 DEF OkExecutes
<1>7. ~Row!RowRuns
  <2>1. requests'["row"] > requests["row"] => a = "row"
    BY <1>3, <1>5 DEF Row!Actions
  <2>. QED  BY <1>1, <2>1 DEF Row!RowRuns
<1>8. RowInv'
  BY <1>4 DEF RowInv, Row!TypeOK, MouseOK, WorkOK
<1>. QED  BY <1>6, <1>7, <1>8 DEF GoodStep, ClickStarts

\* Ends of requests, a cancelled dialog, the dropdown and the toolbar's fetches.
LEMMA RestStep ==
    ASSUME RowInv,
           \/ Row!ShowDropdown \/ Row!HideDropdown \/ Row!AjaxRaises \/ Row!Fetch
           \/ \E a \in Row!Actions : Row!Cancel(a) \/ Row!AjaxSuccess(a) \/ Row!AjaxError(a)
    PROVE  GoodStep
<1>. MouseOK /\ WorkOK
  BY RowInvParts
<1>. USE DEF WorkOK, DialogRight
<1>1. UNCHANGED Row!mouse
  BY DEF Row!ShowDropdown, Row!HideDropdown, Row!AjaxRaises, Row!Fetch, Row!Cancel,
         Row!AjaxSuccess, Row!AjaxError
<1>2. MouseOK'
  BY <1>1, MouseKept
<1>3. ASSUME NEW a \in Row!Actions \cup {"gone"}, requests[a] > 0,
             requests' = [requests EXCEPT ![a] = @ - 1], dialogs' = dialogs, WorkOK'
      PROVE  GoodStep
  BY <1>2, <1>3, QuietStep DEF Row!Actions
<1>4. ASSUME NEW a \in Row!Actions \cup {"gone"}, requests[a] > 0,
             requests' = [requests EXCEPT ![a] = @ - 1]
      PROVE  requests' \in [Row!Actions \cup {"gone"} -> Nat]
  BY <1>4
<1>5. ASSUME NEW a \in Row!Actions, Row!AjaxSuccess(a) PROVE GoodStep
  <2>1. WorkOK'
    BY <1>4, <1>5 DEF Row!AjaxSuccess
  <2>. QED  BY <1>3, <1>5, <2>1 DEF Row!AjaxSuccess
<1>6. ASSUME NEW a \in Row!Actions, Row!AjaxError(a) PROVE GoodStep
  <2>1. WorkOK'
    BY <1>4, <1>6 DEF Row!AjaxError
  <2>. QED  BY <1>3, <1>6, <2>1 DEF Row!AjaxError
<1>7. CASE Row!AjaxRaises
  <2>1. WorkOK'
    BY <1>4, <1>7 DEF Row!AjaxRaises
  <2>. QED  BY <1>3, <1>7, <2>1 DEF Row!AjaxRaises
<1>8. ASSUME NEW a \in Row!Actions, Row!Cancel(a) PROVE GoodStep
  <2>1. WorkOK' /\ requests' = requests /\ dialogs' \subseteq dialogs
    BY <1>8 DEF Row!Cancel
  <2>. QED  BY <1>2, <2>1, QuietStep DEF Row!Actions
<1>9. CASE Row!ShowDropdown \/ Row!HideDropdown \/ Row!Fetch
  <2>1. WorkOK' /\ requests' = requests /\ dialogs' = dialogs
    BY <1>9 DEF Row!ShowDropdown, Row!HideDropdown, Row!Fetch, Row!OpenDropdown
  <2>. QED  BY <1>2, <2>1, QuietStep DEF Row!Actions
<1>. QED  BY <1>5, <1>6, <1>7, <1>8, <1>9

\* The row that comes with an answer starts with nothing pressed and no dialog
\* of its own.
LEMMA ReloadStep == RowInv /\ Row!Reload => GoodStep
<1>. SUFFICES ASSUME RowInv, Row!Reload PROVE GoodStep
  OBVIOUS
<1>. MouseOK /\ WorkOK
  BY RowInvParts
<1>1. /\ fetching' = FALSE /\ mask' = FALSE
      /\ pointer' = "up" /\ press' = Row!Untouched /\ permit' = FALSE /\ timer' = FALSE
      /\ gesture' = [gesture EXCEPT !.whole = FALSE]
      /\ cell' \in {"empty", "list", "dropdown"} /\ launchers' = (cell' = "list")
      /\ menu' = FALSE /\ listeners' = 0 /\ dialogs' = dialogs \ {"menu"}
      /\ requests' = [requests EXCEPT !["menu"] = 0, !["gone"] = @ + requests["menu"]]
      /\ UNCHANGED <<at, text>>
  BY DEF Row!Reload, Row!RenderCell
<1>2. MouseOK'
  BY <1>1 DEF MouseOK, PressKnown, PermitRight, TimerRight
<1>3. requests' \in [Row!Actions \cup {"gone"} -> Nat] /\ requests'["row"] = requests["row"]
      /\ requests'["menu"] <= requests["menu"]
  BY <1>1 DEF WorkOK, Row!Actions
<1>4. WorkOK'
  BY <1>1, <1>3 DEF WorkOK, DialogRight
<1>. QED  BY <1>1, <1>2, <1>3, <1>4, QuietStep DEF WorkOK, Row!Actions

LEMMA RowStep == RowInv /\ [Row!Next]_(Row!vars) =>
                    RowInv' /\ [ClickStarts]_(Row!vars) /\ [OkExecutes]_(Row!vars)
<1>. SUFFICES ASSUME RowInv, [Row!Next]_(Row!vars)
              PROVE  RowInv' /\ (GoodStep \/ UNCHANGED Row!vars)
  BY DEF GoodStep
<1>. MouseOK /\ WorkOK
  BY RowInvParts
<1>2. ASSUME NEW c \in Row!Targets, Row!Press(c) \/ Row!Drag(c) \/ Row!ReleaseFromElsewhere(c)
      PROVE  GoodStep
  BY <1>2, PressMouse, OtherMouse, MouseOnlyStep
  DEF Row!Press, Row!Drag, Row!ReleaseFromElsewhere
<1>3. CASE Row!Release \/ Row!ReleaseElsewhere \/ Row!Pause
  <2>1. MouseOK'
    BY <1>3, ReleaseMouse, OtherMouse
  <2>2. UNCHANGED Row!acts
    BY <1>3 DEF Row!Release, Row!ReleaseElsewhere, Row!Pause
  <2>. QED  BY <2>1, <2>2, MouseOnlyStep DEF GoodStep
<1>4. CASE UNCHANGED Row!vars
  BY <1>4, MouseKept, WorkKept, RowInvParts DEF Row!vars, RowInv, Row!TypeOK, MouseOK, WorkOK
<1>. QED
  BY <1>2, <1>3, <1>4, ClickStep, TimeoutStep, ClickLauncherStep, OkStep, RestStep, ReloadStep
  DEF Row!Next, Row!MouseStep, GoodStep

LEMMA RowInit == Row!Init => RowInv
<1>. SUFFICES ASSUME Row!Init PROVE RowInv
  OBVIOUS
<1>1. Row!TypeOK
  <2>1. requests \in [Row!Actions \cup {"gone"} -> Nat]
    <3>1. requests = [a \in Row!Actions \cup {"gone"} |-> 0]
      BY DEF Row!Init
    <3>. QED  BY <3>1
  <2>2. launchers = TRUE \/ launchers = FALSE
    BY DEF Row!Init
  <2>3. gesture \in [cell : Row!Targets, text : {"none", "some"},
                    whole : BOOLEAN, second : BOOLEAN]
    BY DEF Row!Init, Row!Targets
  <2>4. permit = FALSE /\ timer = FALSE /\ menu = FALSE /\ fetching = FALSE /\ mask = FALSE
    BY DEF Row!Init
  <2>. QED  BY <2>1, <2>2, <2>3, <2>4 DEF Row!Init, Row!TypeOK, Row!Targets
<1>2. PressKnown /\ PermitRight /\ TimerRight /\ DialogRight
  BY DEF Row!Init, PressKnown, PermitRight, TimerRight, DialogRight
<1>. QED  BY <1>1, <1>2 DEF RowInv

\* The row action starts only after one whole click on a plain cell that is
\* neither half of a double click, for any cells, links and controls.
THEOREM ClicksCorrect == Row!Spec => OnlyAClickRuns
<1>1. RowInv /\ [Row!Next]_(Row!vars) => RowInv' /\ [ClickStarts]_(Row!vars)
  BY RowStep
<1>. QED  BY <1>1, RowInit, PTL
          DEF Row!Spec, OnlyAClickRuns, Row!OnlyAClickRuns, ClickStarts

\* Nothing that asks executes unasked, and one "ok" executes once.
THEOREM ConfirmedOnce == Row!Spec => OneOkOneRequest
<1>1. RowInv /\ [Row!Next]_(Row!vars) => RowInv' /\ [OkExecutes]_(Row!vars)
  BY RowStep
<1>. QED  BY <1>1, RowInit, PTL
          DEF Row!Spec, OneOkOneRequest, Row!OneOkOneRequest, OkExecutes

\* The two parts that MCRowSelection runs side by side are behaviours of their
\* own specifications.
THEOREM PartsAreComponents == MCSpec => Spec /\ Row!Spec
<1>1. MCInit => Init /\ Row!Init
  BY DEF MCInit
<1>2. [MCNext]_<<part, vars, rowVars>> => [Next]_vars /\ [Row!Next]_(Row!vars)
  BY DEF MCNext, vars, rowVars, Row!vars, Row!mouse, Row!acts, Row!work
<1>. QED  BY <1>1, <1>2, PTL DEF MCSpec, Spec, Row!Spec

=============================================================================

--------------------------- MODULE InlineEditing ----------------------------
(***************************************************************************)
(* Editing cells in place: the editors of a page of a grid, the saves they *)
(* send and the fetches they hold back.                                    *)
(*                                                                         *)
(*   app/plugins/grid/inline-editing-plugin.js     the list of editors,    *)
(*       opening one, confirmation before a fetch and before the page is   *)
(*       left, hidden columns, going to another page                       *)
(*   app/components/cell-popup-editor-component.js  one editor: its view,  *)
(*       the value shown at once, the save, its success or its failure     *)
(*                                                                         *)
(* An editor (component) may be without a view: while its save is in       *)
(* flight, after its value was refused and after an invalid value was left *)
(* in it.  It then knows the value before (oldState) and the one that was  *)
(* entered (formState).  A grid that is loaded again has new cells; saves  *)
(* of its old cells may still be in flight.                                *)
(***************************************************************************)
EXTENDS Naturals, Sequences, SequencesExt

CONSTANTS
    Cells,        \* editable cells of the page
    Values,       \* values the editors accept
    Bad,          \* one they do not
    MaxEditors,   \* bound on the editors in memory
    MaxSaves      \* bound on the saves in flight

None == "none"
Free == [phase |-> "free"]

ASSUME InlineEditingAssumption ==
    /\ Bad \notin Values
    /\ None \notin Values \cup {Bad}
    /\ MaxEditors \in Nat \ {0}
    /\ MaxSaves \in Nat \ {0}

Editors == 1 .. MaxEditors
Saves   == 1 .. MaxSaves
Entries == Values \cup {Bad}

VARIABLES
    page,     \* shown: the models' values; editors, by slot; active: the
              \* plugin's list of them, by slot; saves in flight, by slot
    stored,   \* the values in the database
    fetch,    \* of the grid's collection: its phase, whether it turns the page
              \* for an editor (lockUserActions), and the answer
    strayed   \* ghost: cells of whose value page and database may disagree,
              \* see Stray

vars == <<page, stored, fetch, strayed>>

\* draft: what the view holds, None without a view.  attached: the cell is
\* still that of the page.
Editor ==
    [cell : Cells, draft : Entries \cup {None}, oldState : Entries \cup {None},
     formState : Entries \cup {None}, attached : BOOLEAN, disposed : BOOLEAN]

SavePhases == {"sent", "stored", "invalid", "failed"}
Save == [editor : Editors, cell : Cells, value : Values, phase : SavePhases]

Pages ==
    [shown : [Cells -> Entries], editors : [Editors -> Editor \cup {Free}],
     active : Seq(Editors), saves : [Saves -> Save \cup {Free}]]

NoFetch == [phase |-> "none", turns |-> FALSE, answer |-> [c \in Cells |-> None]]

TypeOK ==
    /\ page \in Pages
    /\ stored \in [Cells -> Values]
    /\ fetch \in [phase : {"none", "asking", "sent", "served"}, turns : BOOLEAN,
                  answer : [Cells -> Values \cup {None}]]
    /\ strayed \subseteq Cells

Init ==
    /\ stored \in [Cells -> Values]
    /\ page = [shown |-> stored, editors |-> [k \in Editors |-> Free],
               active |-> <<>>, saves |-> [s \in Saves |-> Free]]
    /\ fetch = NoFetch
    /\ strayed = {}

(***************************************************************************)
(* An editor, as functions of the page.                                    *)
(***************************************************************************)
Existing(p)  == {k \in Editors : p.editors[k] # Free}
Open(p)      == {k \in Existing(p) : p.editors[k].draft # None}
InFlight(p)  == {s \in Saves : p.saves[s] # Free}
Saving(p, c) == \E s \in InFlight(p) : p.saves[s].cell = c
Listed(p)    == Range(p.active)

AnyOf(slots) == CHOOSE k \in slots : TRUE

\* An editor nobody can reach any more leaves its slot.
Tidy(p) ==
    [p EXCEPT !.editors = [k \in Editors |->
        IF k \in Existing(p)
           /\ (p.editors[k].disposed \/ ~p.editors[k].attached)
           /\ \A s \in InFlight(p) : p.saves[s].editor # k
        THEN Free ELSE p.editors[k]]]

\* dispose, with the handler that takes the editor out of the plugin's list.
\* What the options and the copies hold stays readable to late answers.
Dispose(p, k) ==
    [p EXCEPT !.editors[k].draft = None, !.editors[k].disposed = TRUE,
              !.active = RemoveFirst(@, k)]

\* isChanged of the component.  (Definitions named for a mistake are mutants of
\* the one that follows.)
ChangedInView(p, k) ==
    LET e == p.editors[k]
    IN  e.draft \notin {None, p.shown[e.cell]}

Changed(p, k) ==
    LET e == p.editors[k]
    IN  e.draft \notin {None, p.shown[e.cell]} \/ e.oldState # None

\* hasChanges of the plugin.
HasChanges(p) == \E k \in Listed(p) : Changed(p, k)

\* revertChanges.
RevertNothing(p, k) == p

Revert(p, k) ==
    LET e == p.editors[k]
    IN  IF e.attached /\ e.oldState # None
        THEN [p EXCEPT !.shown[e.cell] = e.oldState, !.editors[k].oldState = None]
        ELSE p

\* exitEditMode with the copies taken before.
Keep(p, k) ==
    LET e == p.editors[k]
    IN  [p EXCEPT !.editors[k].draft = None, !.editors[k].formState = e.draft,
                  !.editors[k].oldState = p.shown[e.cell],
                  !.shown[e.cell] = e.draft]

Send(p, k) ==
    LET e == p.editors[k]
    IN  [Keep(p, k) EXCEPT !.saves[AnyOf(Saves \ InFlight(p))] =
            [editor |-> k, cell |-> e.cell, value |-> e.draft, phase |-> "sent"]]

\* blur of the view: saveCurrentCell, or the invalid value is left to be
\* corrected.
CanLeave(p, k) ==
    LET e == p.editors[k]
    IN  e.draft \in Values \ {p.shown[e.cell]} => InFlight(p) # Saves

LeaveWhileSaving(p, k) ==
    LET e == p.editors[k]
    IN  IF e.draft = p.shown[e.cell] \/ InFlight(p) # {} THEN Tidy(Dispose(p, k))
        ELSE IF e.draft = Bad THEN Keep(p, k)
        ELSE Send(p, k)

Leave(p, k) ==
    LET e == p.editors[k]
    IN  IF e.draft = p.shown[e.cell] THEN Tidy(Dispose(p, k))
        ELSE IF e.draft = Bad THEN Keep(p, k)
        ELSE Send(p, k)

\* enterEditMode: of the editor in the list, rolling its cell back to the value
\* before, or of a new one.
ListedFor(p, c) == {k \in Listed(p) : p.editors[k].cell = c}

CanEnter(p, c) == ListedFor(p, c) = {} => Existing(p) # Editors

NewEditor(p, c) ==
    LET k == AnyOf(Editors \ Existing(p))
    IN  [p EXCEPT !.active = Append(@, k),
                  !.editors[k] =
                      [cell |-> c, draft |-> p.shown[c], oldState |-> None,
                       formState |-> None, attached |-> TRUE, disposed |-> FALSE]]

\* createView
CreateView(p, k) ==
    LET e == p.editors[k]
    IN  IF e.draft # None THEN p
        ELSE IF e.formState = None THEN [p EXCEPT !.editors[k].draft = p.shown[e.cell]]
        ELSE [p EXCEPT !.editors[k].draft = e.formState,
                       !.shown[e.cell] = IF e.oldState = None THEN @ ELSE e.oldState]

Enter(p, c) ==
    IF ListedFor(p, c) = {} THEN NewEditor(p, c) ELSE CreateView(p, AnyOf(ListedFor(p, c)))

\* removeActiveEditorComponents: dispose takes an editor out of the list that
\* the loop counts through, so the loop skips every second one.
RemoveActive(p) ==
    LET reached == {p.active[i] : i \in {i \in DOMAIN p.active : i % 2 = 1}}
    IN  Tidy([p EXCEPT !.active = <<>>,
                       !.editors = [k \in Editors |->
                           IF k \notin reached THEN @[k]
                           ELSE [@[k] EXCEPT !.draft = None, !.disposed = TRUE]]])

(***************************************************************************)
(* Steps of the user.                                                      *)
(***************************************************************************)
\* When page and database may come to disagree on a cell: its editor was opened
\* again while its save was in flight, the answer to its save was lost, its
\* column was hidden while an editor kept its value, or the user agreed to lose
\* what its editor held.
Stray(cells) == strayed' = strayed \cup cells

\* A click on a cell, the other editors having lost the focus by it.
Edit(c) ==
    /\ fetch.phase = "none"
    /\ Open(page) = {}
    /\ CanEnter(page, c)
    /\ page' = Enter(page, c)
    /\ Stray(IF Saving(page, c) THEN {c} ELSE {})
    /\ UNCHANGED <<stored, fetch>>

\* A dialog has the focus while it asks.
Type(k, value) ==
    /\ fetch.phase # "asking"
    /\ page' = [page EXCEPT !.editors[k].draft = value]
    /\ UNCHANGED <<stored, fetch, strayed>>

Blur(k) ==
    /\ CanLeave(page, k)
    /\ page' = Leave(page, k)
    /\ UNCHANGED <<stored, fetch, strayed>>

\* ESCAPE, cancelEditing.
Cancel(k) ==
    /\ fetch.phase # "asking"
    /\ page' = Tidy(Dispose(Revert(page, k), k))
    /\ UNCHANGED <<stored, fetch, strayed>>

\* isNavigationAvailable
MayNavigate(k) == ~fetch.turns /\ page.editors[k].draft # Bad

\* TAB, ENTER or an arrow, to a cell of the same page.
Navigate(k, c) ==
    /\ MayNavigate(k)
    /\ fetch.phase = "none"
    /\ c # page.editors[k].cell
    /\ CanLeave(page, k)
    /\ LET left == Leave(page, k)
       IN  /\ CanEnter(left, c)
           /\ page' = Enter(left, c)
           /\ Stray(IF Saving(left, c) THEN {c} ELSE {})
    /\ UNCHANGED <<stored, fetch>>

\* The cells of the editors that a fetch disposes of or skips.
Dropped == {page.editors[k].cell : k \in Listed(page)}

\* beforeGridCollectionFetch
BeforeFetch(turns) ==
    IF HasChanges(page)
    THEN /\ fetch' = [NoFetch EXCEPT !.phase = "asking", !.turns = turns]
         /\ UNCHANGED <<page, strayed>>
    ELSE /\ page' = RemoveActive(page)
         /\ fetch' = [NoFetch EXCEPT !.phase = "sent", !.turns = turns]
         /\ Stray(Dropped)

\* A toolbar action, or a key in the last cell of the page.
Fetch ==
    /\ fetch.phase = "none"
    /\ \/ BeforeFetch(FALSE)
       \/ \E k \in Open(page) : MayNavigate(k) /\ BeforeFetch(TRUE)
    /\ UNCHANGED stored

Confirm ==
    /\ fetch.phase = "asking"
    /\ fetch' = [fetch EXCEPT !.phase = "sent"]
    /\ page' = RemoveActive(page)
    /\ Stray(Dropped)
    /\ UNCHANGED stored

Decline ==
    /\ fetch.phase = "asking"
    /\ fetch' = NoFetch
    /\ UNCHANGED <<page, stored, strayed>>

\* What is left of the list when some editors are taken out of it.
Without(list, gone) ==
    {rest \in UNION {[1 .. n -> Editors] : n \in 0 .. MaxEditors} :
        /\ Range(rest) = Range(list) \ gone
        /\ \A i, j \in DOMAIN rest : i < j =>
               \E m, n \in DOMAIN list : m < n /\ list[m] = rest[i] /\ list[n] = rest[j]}

\* onColumnStateChange, here with the column shown again some time: its cells go,
\* and so do their editors, whatever they keep.
HideColumn(column) ==
    /\ fetch.phase # "asking"
    /\ Open(page) = {}
    /\ LET gone == {k \in Existing(page) : page.editors[k].cell \in column}
       IN  \E rest \in Without(page.active, gone) :
               page' = Tidy([page EXCEPT
                   !.active = rest,
                   !.editors = [k \in Editors |->
                       IF k \in gone
                       THEN [@[k] EXCEPT
                                !.attached = FALSE,
                                !.disposed = page.editors[k].disposed \/ k \in Listed(page)]
                       ELSE @[k]]])
    /\ Stray({c \in column : ListedFor(page, c) # {}})
    /\ UNCHANGED <<stored, fetch>>

\* The page is left for a link, a redirect or another window, and comes back
\* later as the server has it.
LeavePage ==
    /\ page' = Tidy([page EXCEPT !.shown = stored, !.active = <<>>,
                                 !.editors = [k \in Editors |->
                                     IF k \in Existing(page)
                                     THEN [@[k] EXCEPT !.attached = FALSE, !.draft = None]
                                     ELSE Free]])
    /\ fetch' = NoFetch
    /\ strayed' = {c \in Cells : Saving(page, c)}
    /\ UNCHANGED stored

\* beforePageChange, beforeRedirectTo and onWindowUnload; the user who does not
\* agree stays.
LeaveUnasked == ~HasChanges(page) /\ LeavePage
AgreeToLeave == HasChanges(page) /\ LeavePage

(***************************************************************************)
(* The server, and the answers.  Requests are served in any order.         *)
(***************************************************************************)
ServeFetch ==
    /\ fetch.phase = "sent"
    /\ fetch' = [fetch EXCEPT !.phase = "served", !.answer = stored]
    /\ UNCHANGED <<page, stored, strayed>>

\* Every cell is new; after turning the page an editor is opened.
Reset(p, shown) ==
    Tidy([p EXCEPT !.shown = shown,
                   !.editors = [k \in Editors |->
                       IF k \in Existing(p) THEN [@[k] EXCEPT !.attached = FALSE]
                       ELSE Free]])

FetchSucceeds ==
    /\ fetch.phase = "served"
    /\ LET new == Reset(page, fetch.answer)
       IN  IF fetch.turns
           THEN \E c \in Cells : CanEnter(new, c) /\ page' = Enter(new, c)
           ELSE page' = new
    /\ strayed' = {c \in Cells : fetch.answer[c] # stored[c] \/ Saving(page, c)}
    /\ fetch' = NoFetch
    /\ UNCHANGED stored

FetchFails ==
    /\ fetch.phase \in {"sent", "served"}
    /\ fetch' = NoFetch
    /\ UNCHANGED <<page, stored, strayed>>

ServeSave(s) ==
    LET r == page.saves[s]
    IN  /\ r.phase = "sent"
        /\ \/ /\ page' = [page EXCEPT !.saves[s].phase = "stored"]
              /\ stored' = [stored EXCEPT ![r.cell] = r.value]
           \/ /\ \E phase \in {"invalid", "failed"} :
                    page' = [page EXCEPT !.saves[s].phase = phase]
              /\ UNCHANGED stored
        /\ UNCHANGED <<fetch, strayed>>

Answered(p, s) == [p EXCEPT !.saves[s] = Free]

\* onSaveSuccess: the answer may hold the fields as they were stored.
SaveSucceeds(s) ==
    LET r == page.saves[s]
        e == page.editors[r.editor]
        shown == IF e.attached THEN {page.shown[r.cell], r.value} ELSE {page.shown[r.cell]}
    IN  /\ r.phase = "stored"
        /\ \E value \in shown :
               page' = Tidy(Answered(Dispose(
                   [page EXCEPT !.shown[r.cell] = value,
                                !.editors[r.editor].oldState = None,
                                !.editors[r.editor].formState = None], r.editor), s))

\* onValidationError: the value stays, with a message.
SaveInvalid(s) ==
    /\ page.saves[s].phase = "invalid"
    /\ page' = Tidy(Answered(page, s))

\* onSaveError otherwise, also when the answer got lost.
SaveFails(s) ==
    LET k == page.saves[s].editor
    IN  page' = Tidy(Answered(Dispose(Revert(page, k), k), s))

AnswerSave(s) ==
    /\ \/ SaveSucceeds(s) \/ SaveInvalid(s)
       \/ page.saves[s].phase = "failed" /\ SaveFails(s)
    /\ UNCHANGED <<stored, fetch, strayed>>

LoseAnswer(s) ==
    /\ SaveFails(s)
    /\ Stray({page.saves[s].cell})
    /\ UNCHANGED <<stored, fetch>>

Next ==
    \/ \E c \in Cells : Edit(c)
    \/ \E k \in Open(page) :
          \/ Blur(k) \/ Cancel(k)
          \/ \E value \in Entries : Type(k, value)
          \/ \E c \in Cells : Navigate(k, c)
    \/ Fetch \/ Confirm \/ Decline
    \/ \E column \in SUBSET Cells : HideColumn(column)
    \/ LeaveUnasked \/ AgreeToLeave
    \/ ServeFetch \/ FetchSucceeds \/ FetchFails
    \/ \E s \in InFlight(page) : ServeSave(s) \/ AnswerSave(s) \/ LoseAnswer(s)

Spec == Init /\ [][Next]_vars

(***************************************************************************)
(* Properties.                                                             *)
(***************************************************************************)
\* Whatever saves succeed, fail or are refused, a value that is shown and not
\* stored is known as a change: an editor in the plugin's list holds it, so that
\* the user is asked before it is lost.
UnsavedIsKnown ==
    \A c \in Cells \ strayed :
        \/ page.shown[c] = stored[c] \/ Saving(page, c)
        \/ \E k \in ListedFor(page, c) : Changed(page, k)

\* The grid is not loaded again and the page is not left, unless the user has
\* agreed, while a save is in flight or something is entered and not saved
\* (beforeGridCollectionFetch, beforePageChange, beforeRedirectTo, onWindowUnload).
AskedBeforeLoss ==
    [][(fetch.phase = "none" /\ fetch'.phase = "sent") \/ LeaveUnasked
         => \A c \in Cells \ strayed :
              /\ page.shown[c] = stored[c]
              /\ ~Saving(page, c)
              /\ \A k \in Open(page) : page.editors[k].cell = c
                                      => page.editors[k].draft = page.shown[c]]_vars

\* A valid value that was entered does not go with its view: it is sent, unless
\* the user cancels it or agrees to lose it.
Sent(c, value) ==
    \E s \in InFlight(page)' :
        page'.saves[s].cell = c /\ page'.saves[s].value = value /\ page'.shown[c] = value

EntriesAreSent ==
    [][\A k \in Open(page) :
         LET e == page.editors[k]
         IN  /\ e.cell \notin strayed
             /\ e.draft \in Values \ {page.shown[e.cell]}
             /\ k \notin Open(page)'
             => Sent(e.cell, e.draft) \/ Cancel(k) \/ Confirm \/ AgreeToLeave]_vars

=============================================================================

------------------------------ MODULE RowActions ------------------------------
(***************************************************************************)
(* A row under the mouse, and the actions it runs (row.js,                 *)
(* action/abstract-action.js, cell/action-cell.js, action-launcher.js and  *)
(* runRowClickAction of grid.js).  A click on a row runs the grid's row    *)
(* action, unless it is the first half of a double click, selects text, or *)
(* falls on something with a use for clicks of its own.  The row comes     *)
(* anew with every answer of the server, whatever it was in the middle of. *)
(***************************************************************************)
EXTENDS Naturals

CONSTANTS
    Plain,         \* cells without a use for clicks
    Links,         \* targets in `a, .dropdown, .skip-row-click`
    Own,           \* cells that handle and stop clicks: checkbox, actions
    MenuCell,      \* the one of the actions
    Confirmation,  \* the actions ask before they execute
    MaxRequests    \* bound on ajax requests in flight

Targets == Plain \cup Links \cup Own

RowActionsAssumption ==
    /\ Plain \cap Links = {} /\ Plain \cap Own = {} /\ Links \cap Own = {}
    /\ "none" \notin Targets    \* stands for the null of no target
    /\ MenuCell \in Own
    /\ Confirmation \in BOOLEAN
    /\ MaxRequests \in Nat \ {0}

Actions == {"row", "menu"}    \* the row action; a launcher's in the action cell

VARIABLES
    pointer,     \* "up", "down", or "clicking": released, the click to come
    at,          \* target under the pointer
    text,        \* the selected text
    press,       \* mouseDownSelection and mouseDownTarget
    permit,      \* clickPermit
    timer,       \* clickTimeout
    gesture,     \* ghost: where the last press began and what became of it
    cell,        \* what the action cell renders: nothing, a list, a dropdown
    launchers,   \* isLauncherListFilled
    menu,        \* the action cell's dropdown is open
    listeners,   \* handlers of "ok" on the launcher's confirmModal
    dialogs,     \* actions whose dialog is open
    requests,    \* ajax requests in flight by action; "gone" for disposed ones
    fetching,    \* a fetch of the collection is in flight
    mask         \* the loading mask, which covers the rows

mouse == <<pointer, at, text, press, permit, timer, gesture>>
work  == <<menu, listeners, dialogs, requests, fetching, mask>>
acts  == <<cell, launchers, work>>
vars  == <<mouse, acts>>

Untouched == [cell |-> "none", text |-> "none"]

TypeOK ==
    /\ pointer \in {"up", "down", "clicking"}
    /\ at \in Targets
    /\ text \in {"none", "some"}
    /\ press \in [cell : Targets, text : {"none", "some"}] \cup {Untouched}
    /\ permit \in BOOLEAN /\ timer \in BOOLEAN
    /\ gesture \in [cell : Targets, text : {"none", "some"}, whole : BOOLEAN, second : BOOLEAN]
    /\ cell \in {"empty", "list", "dropdown"}
    /\ launchers \in BOOLEAN /\ menu \in BOOLEAN
    /\ listeners \in Nat
    /\ dialogs \subseteq Actions
    /\ requests \in [Actions \cup {"gone"} -> Nat]
    /\ fetching \in BOOLEAN /\ mask \in BOOLEAN

InFlight == requests["row"] + requests["menu"] + requests["gone"]

\* The action cell, created and rendered: the row's action_configuration
\* leaves no action, fewer than actionsHideCount, which are listed at once, or
\* so many that their launchers are made when the dropdown is first opened.
RenderCell ==
    /\ cell' \in {"empty", "list", "dropdown"}
    /\ launchers' = (cell' = "list")

\* A rendered row: nothing pressed, no timer, the menu closed and no dialog made.
Init ==
    /\ pointer = "up" /\ at \in Plain /\ text = "none"
    /\ press = Untouched /\ permit = FALSE /\ timer = FALSE
    /\ gesture = [cell |-> at, text |-> "none", whole |-> FALSE, second |-> FALSE]
    /\ cell \in {"empty", "list", "dropdown"} /\ launchers = (cell = "list")
    /\ menu = FALSE /\ listeners = 0 /\ dialogs = {}
    /\ requests = [a \in Actions \cup {"gone"} |-> 0]
    /\ fetching = FALSE /\ mask = FALSE

(***************************************************************************)
(* Actions.                                                                *)
(***************************************************************************)
\* _handleAjax of an action that reloads the data, n times over.
Execute(a, n) ==
    /\ InFlight + n <= MaxRequests
    /\ requests' = [requests EXCEPT ![a] = @ + n]
    /\ mask' = TRUE

\* getConfirmDialog: made once, with a handler of "ok".
\* (Definitions named for a mistake are mutants of the one that follows.)
ConfirmDialogListensAgain(a) ==
    /\ dialogs' = dialogs \cup {a}
    /\ listeners' = IF a = "menu" THEN listeners + 1 ELSE listeners

ConfirmDialog(a) ==
    /\ dialogs' = dialogs \cup {a}
    /\ listeners' = IF a = "menu" THEN 1 ELSE listeners

\* run, execute and _confirmationExecutor.  Listeners of "preExecute" come
\* first: the action cell's hides its dropdown.
Run(a) ==
    /\ menu' = (a # "menu" /\ menu)
    /\ UNCHANGED <<cell, launchers>>
    /\ IF Confirmation
       THEN ConfirmDialog(a) /\ UNCHANGED <<requests, mask>>
       ELSE Execute(a, 1) /\ UNCHANGED <<dialogs, listeners>>
    /\ UNCHANGED fetching

\* onMouseDown: pressed again while the timer runs, it is a double click, and
\* what it remembers keeps the second click from running.
OnMouseDownLetsTimerRun(c) ==
    /\ press' = [cell |-> c, text |-> text]
    /\ UNCHANGED timer

OnMouseDown(c) ==
    IF timer
    THEN timer' = FALSE /\ press' = Untouched
    ELSE press' = [cell |-> c, text |-> text] /\ UNCHANGED timer

\* A new action object for every click; the row's action_configuration may
\* forbid it.
RunRowClickAction == Run("row") \/ UNCHANGED acts

Reachable == ~mask /\ dialogs = {}

\* _showDropdown, for a click on the cell or the pointer over its handle: the
\* list is filled, and the dropdown opened, if there is one.
OpenDropdown ==
    /\ launchers' = TRUE
    /\ menu' = (cell = "dropdown")
    /\ UNCHANGED <<cell, listeners, dialogs, requests, fetching, mask>>

ShowDropdown ==
    /\ Reachable /\ pointer = "up"
    /\ cell = "dropdown" /\ ~menu
    /\ OpenDropdown
    /\ UNCHANGED mouse

HideDropdown ==
    /\ Reachable /\ menu
    /\ menu' = FALSE
    /\ UNCHANGED <<mouse, cell, launchers, listeners, dialogs, requests, fetching, mask>>

\* The dropdown is drawn outside of the row; a listed launcher is a link in it
\* whose press the row sees.
ClickLauncher ==
    /\ Reachable /\ pointer = "up"
    /\ launchers
    /\ \/ menu /\ UNCHANGED mouse
       \/ /\ cell = "list"
          /\ \E c \in Links : OnMouseDown(c)
          /\ permit' = FALSE
          /\ gesture' = [gesture EXCEPT !.whole = FALSE]
          /\ UNCHANGED <<pointer, at, text>>
    /\ Run("menu")

Ok(a) ==
    /\ a \in dialogs
    /\ dialogs' = dialogs \ {a}
    /\ Execute(a, IF a = "menu" THEN listeners ELSE 1)
    /\ UNCHANGED <<mouse, cell, launchers, menu, listeners, fetching>>

Cancel(a) ==
    /\ a \in dialogs
    /\ dialogs' = dialogs \ {a}
    /\ UNCHANGED <<mouse, cell, launchers, menu, listeners, requests, fetching, mask>>

\* _onAjaxSuccess: the mask is hidden, and the fetch shows it again.
AjaxSuccess(a) ==
    /\ requests[a] > 0
    /\ requests' = [requests EXCEPT ![a] = @ - 1]
    /\ fetching' = TRUE /\ mask' = TRUE
    /\ UNCHANGED <<mouse, cell, launchers, menu, listeners, dialogs>>

AjaxError(a) ==
    /\ requests[a] > 0
    /\ requests' = [requests EXCEPT ![a] = @ - 1]
    /\ mask' = FALSE
    /\ UNCHANGED <<mouse, cell, launchers, menu, listeners, dialogs, fetching>>

\* A disposed action has no datagrid: both callbacks raise at hideLoading.
AjaxRaises ==
    /\ requests["gone"] > 0
    /\ requests' = [requests EXCEPT !["gone"] = @ - 1]
    /\ UNCHANGED <<mouse, cell, launchers, menu, listeners, dialogs, fetching, mask>>

(***************************************************************************)
(* The mouse.                                                              *)
(***************************************************************************)
Press(c) ==
    /\ Reachable
    /\ pointer = "up"
    /\ pointer' = "down" /\ at' = c
    /\ OnMouseDown(c)
    /\ gesture' = [cell |-> c, text |-> text, whole |-> FALSE,
                   second |-> gesture.whole /\ ~gesture.second]
    /\ UNCHANGED <<text, permit, acts>>

\* The pointer moves with the button down: text is selected, or no longer.
Drag(c) ==
    /\ pointer = "down"
    /\ at' = c
    /\ text' \in {"none", "some"}
    /\ UNCHANGED <<pointer, press, permit, timer, gesture, acts>>

OnMouseUp(c) ==
    permit' = (c \notin Links /\ press = [cell |-> c, text |-> text])

Release ==
    /\ pointer = "down"
    /\ pointer' = "clicking"
    /\ OnMouseUp(at)
    /\ gesture' = [gesture EXCEPT !.whole = /\ gesture.cell = at /\ at \in Plain
                                            /\ gesture.text = text]
    /\ UNCHANGED <<at, text, press, timer, acts>>

\* The button goes up over another row, or was pressed over another one: no
\* click follows in this row.
ReleaseElsewhere ==
    /\ pointer = "down"
    /\ pointer' = "up"
    /\ UNCHANGED <<at, text, press, permit, timer, gesture, acts>>

ReleaseFromElsewhere(c) ==
    /\ Reachable /\ pointer = "up"
    /\ text' \in {"none", "some"}
    /\ permit' = (c \notin Links /\ press = [cell |-> c, text |-> text'])
    /\ UNCHANGED <<pointer, at, press, timer, gesture, acts>>

\* onClick: with Ctrl the action opens a new tab at once.
OnClick(blank) ==
    IF blank
    THEN RunRowClickAction /\ UNCHANGED timer
    ELSE timer' = TRUE /\ UNCHANGED acts

\* delegateEventToCell comes before onClick and lets a cell stop the event.
ClickReachesRow(blank) ==
    IF permit THEN OnClick(blank) ELSE UNCHANGED <<timer, acts>>

Click(blank) ==
    /\ pointer = "clicking"
    /\ pointer' = "up"
    /\ CASE at = MenuCell -> OpenDropdown /\ UNCHANGED timer
         [] at \in Own \ {MenuCell} -> UNCHANGED <<timer, acts>>
         [] OTHER -> ClickReachesRow(blank)
    /\ gesture' = [gesture EXCEPT !.whole = @ /\ ~blank]
    /\ UNCHANGED <<at, text, press, permit>>

\* clickFunction, 170 ms after the click.
Timeout ==
    /\ timer
    /\ timer' = FALSE
    /\ RunRowClickAction
    /\ gesture' = [gesture EXCEPT !.whole = FALSE]
    /\ UNCHANGED <<pointer, at, text, press, permit>>

\* After a while the next press is a first one.
Pause ==
    /\ ~timer /\ pointer = "up" /\ gesture.whole
    /\ gesture' = [gesture EXCEPT !.whole = FALSE]
    /\ UNCHANGED <<pointer, at, text, press, permit, timer, acts>>

(***************************************************************************)
(* The toolbar's fetches, and the row that comes with the answer: the old  *)
(* one is disposed, its cells, their actions and their dialogs with it.    *)
(***************************************************************************)
Fetch ==
    /\ ~fetching /\ dialogs = {}
    /\ fetching' = TRUE /\ mask' = TRUE
    /\ UNCHANGED <<mouse, cell, launchers, menu, listeners, dialogs, requests>>

Reload ==
    /\ fetching
    /\ fetching' = FALSE /\ mask' = FALSE
    /\ pointer' = "up" /\ press' = Untouched /\ permit' = FALSE /\ timer' = FALSE
    /\ gesture' = [gesture EXCEPT !.whole = FALSE]
    /\ RenderCell
    /\ menu' = FALSE /\ listeners' = 0
    /\ dialogs' = dialogs \ {"menu"}
    /\ requests' = [requests EXCEPT !["menu"] = 0, !["gone"] = @ + requests["menu"]]
    /\ UNCHANGED <<at, text>>

MouseStep ==
    \/ \E c \in Targets : Press(c) \/ Drag(c) \/ ReleaseFromElsewhere(c)
    \/ Release \/ ReleaseElsewhere
    \/ \E blank \in BOOLEAN : Click(blank)
    \/ Timeout \/ Pause

Next ==
    \/ MouseStep
    \/ ShowDropdown \/ HideDropdown \/ ClickLauncher
    \/ \E a \in Actions : Ok(a) \/ Cancel(a) \/ AjaxSuccess(a) \/ AjaxError(a)
    \/ AjaxRaises \/ Fetch \/ Reload

Spec == Init /\ [][Next]_vars

(***************************************************************************)
(* Properties.                                                             *)
(***************************************************************************)
RowRuns ==
    \/ requests'["row"] > requests["row"] /\ "row" \notin dialogs
    \/ "row" \in dialogs' \ dialogs

\* The row action starts only after one whole click on a plain cell - button
\* down and up over it, no text selected on the way - that is neither half
\* of a double click: nothing was pressed since, whatever drags, clicks on
\* other things and reloads went before.  (A confirmed dialog goes on with
\* what was started.)
OnlyAClickRuns ==
    [][RowRuns => gesture.whole /\ ~gesture.second /\ pointer # "down"]_vars

\* Where the actions ask, nothing executes unasked, and one "ok" executes
\* once, however often the same launcher was clicked, declined and confirmed
\* before.
OneOkOneRequest ==
    [][\A a \in Actions : Confirmation /\ requests'[a] > requests[a]
          => a \in dialogs \ dialogs' /\ requests'[a] = requests[a] + 1]_vars

=============================================================================

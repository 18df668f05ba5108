----------------------------- MODULE ColumnForm -----------------------------
(***************************************************************************)
(* A grid with an editable boolean column inside an entity form            *)
(* (datagrid/listener/column-form-listener.js and its base classes): the   *)
(* rows the user ticks and unticks, on whatever page they are, end up in   *)
(* the form's two hidden fields and in the parameters of the grid's next   *)
(* request.                                                                *)
(*                                                                         *)
(* The listener does not know which rows the entity holds: it infers it    *)
(* from the value a row had before its first change.                       *)
(*                                                                         *)
(* The loading mask keeps the user from ticking rows while a request is in *)
(* flight (module GridPaging), and the entity is not changed by others     *)
(* while its form is open: both are assumptions of this module.            *)
(***************************************************************************)
CONSTANTS
    Pages,        \* the grid's pages, as sets of row ids
    FirstPage,    \* the one the grid is created with
    Restorable    \* ids the fields of a form shown again may hold

Records == UNION Pages

ASSUME ColumnFormAssumption ==
    /\ FirstPage \in Pages
    /\ \A p, q \in Pages : p = q \/ p \cap q = {}

VARIABLES
    assigned,    \* rows the edited entity holds in the database
    page,        \* ids of the collection's models
    active,      \* models whose column is true
    included,    \* the listener's three properties; original has the ids
    excluded,    \*   it has a value for, split by that value
    original,
    fields,      \* the two hidden inputs of the form
    params,      \* data_in and data_not_in of collection.state.parameters
    request,     \* the fetch in flight, or NoRequest
    asking,      \* a refresh or reset waits for its confirmation
    lost         \* a fetch failed after the listener had dropped its changes

vars == <<assigned, page, active, included, excluded, original, fields, params,
          request, asking, lost>>

NoRequest == [busy |-> FALSE]
Requests  == [busy : {TRUE}, page : Pages, in : SUBSET Records, notIn : SUBSET Records,
              cleared : BOOLEAN]
Lists     == [in : SUBSET Records, notIn : SUBSET Records]

TypeOK ==
    /\ assigned \subseteq Records
    /\ page \in Pages
    /\ active \subseteq page
    /\ included \subseteq Records
    /\ excluded \subseteq Records
    /\ original \in [yes : SUBSET Records, no : SUBSET Records]
    /\ fields \in Lists
    /\ params \in Lists
    /\ request \in Requests \cup {NoRequest}
    /\ asking \in BOOLEAN
    /\ lost \in BOOLEAN

\* The grid's query: (CASE WHEN (held OR id IN (:data_in)) AND id NOT IN
\* (:data_not_in) THEN true ELSE false END).
Value(in, notIn) == (assigned \cup in) \ notIn

\* What the entity will hold once the form is submitted.
Outcome == Value(fields.in, fields.notIn)

(***************************************************************************)
(* The listener's properties.                                              *)
(***************************************************************************)
\* original[id], filled with the opposite of the new value on first sight.
WasActive(id, isActive) ==
    IF id \in original.yes \cup original.no THEN id \in original.yes ELSE ~isActive

Noted(id, isActive) ==
    IF WasActive(id, isActive)
    THEN [original EXCEPT !.yes = @ \cup {id}]
    ELSE [original EXCEPT !.no = @ \cup {id}]

\* _.without(list, [id]) compares ids with an array and removes nothing: a row
\* leaves the list of its new value by the other branch only.
\* (Definitions named for a mistake are mutants of the one that follows.)
IncludedForgetsUnticked(id, isActive) ==
    IF isActive /\ ~WasActive(id, isActive) THEN included \cup {id} ELSE included

Included(id, isActive) ==
    IF ~isActive THEN included \ {id}
    ELSE IF WasActive(id, isActive) THEN included ELSE included \cup {id}

ExcludedRegardless(id, isActive) ==
    IF isActive THEN excluded \ {id} ELSE excluded \cup {id}

Excluded(id, isActive) ==
    IF isActive THEN excluded \ {id}
    ELSE IF ~WasActive(id, isActive) THEN excluded ELSE excluded \cup {id}

\* _synchronizeState.
Synchronize(in, notIn) ==
    /\ fields' = [in |-> in, notIn |-> notIn]
    /\ params' = [in |-> in, notIn |-> notIn]

ClearState ==
    /\ included' = {} /\ excluded' = {}
    /\ original' = [yes |-> {}, no |-> {}]
    /\ Synchronize({}, {})

HasChanges == included # {} \/ excluded # {}

(***************************************************************************)
(* The form is shown with a first page that was queried without the lists, *)
(* and with fields that may already be filled: after a submission that was *)
(* refused, or from a saved page state.  _restoreState sets the column of  *)
(* the models it finds on the page, and each change runs _processValue.    *)
(***************************************************************************)
Init ==
    /\ assigned \in SUBSET Records
    /\ page = FirstPage
    /\ included \in SUBSET (Restorable \ assigned)
    /\ excluded \in SUBSET (Restorable \cap assigned)
    /\ active = page \cap Value(included, excluded)
    /\ original = [yes |-> page \cap excluded, no |-> page \cap included]
    /\ fields = [in |-> included, notIn |-> excluded]
    /\ params = fields
    /\ request = NoRequest
    /\ asking = FALSE
    /\ lost = FALSE

(***************************************************************************)
(* Actions.                                                                *)
(***************************************************************************)
Free == ~request.busy /\ ~asking

\* The user ticks or unticks a row: _onModelEdited, _processValue.
Toggle(id) ==
    LET isActive == id \notin active
    IN  /\ Free
        /\ id \in page
        /\ active' = IF isActive THEN active \cup {id} ELSE active \ {id}
        /\ included' = Included(id, isActive)
        /\ excluded' = Excluded(id, isActive)
        /\ original' = Noted(id, isActive)
        /\ Synchronize(included', excluded')
        /\ UNCHANGED <<assigned, page, request, asking, lost>>

Fetch(p, in, notIn, cleared) ==
    request' = [busy |-> TRUE, page |-> p, in |-> in, notIn |-> notIn, cleared |-> cleared]

\* Another page, a filter, a sorter, a removed row, datagrid:doRefresh: a
\* fetch that nobody asks about.
Load(p) ==
    /\ Free
    /\ Fetch(p, params.in, params.notIn, FALSE)
    /\ UNCHANGED <<assigned, page, active, included, excluded, original, fields, params,
                   asking, lost>>

\* The refresh and reset buttons: _confirmAction.
ButtonNeverAsks(p) ==
    /\ Free
    /\ ClearState
    /\ Fetch(p, {}, {}, TRUE)
    /\ UNCHANGED <<assigned, page, active, asking, lost>>

Button(p) ==
    /\ Free
    /\ IF HasChanges
       THEN asking' = TRUE /\ UNCHANGED request
       ELSE Fetch(p, params.in, params.notIn, FALSE) /\ UNCHANGED asking
    /\ UNCHANGED <<assigned, page, active, included, excluded, original, fields, params, lost>>

\* The confirmed action clears the listener and the fields, then runs.
Confirm(p) ==
    /\ asking
    /\ asking' = FALSE
    /\ ClearState
    /\ Fetch(p, {}, {}, TRUE)
    /\ UNCHANGED <<assigned, page, active, lost>>

Decline ==
    /\ asking
    /\ asking' = FALSE
    /\ UNCHANGED <<assigned, page, active, included, excluded, original, fields, params,
                   request, lost>>

Answer ==
    /\ request.busy
    /\ page' = request.page
    /\ active' = request.page \cap Value(request.in, request.notIn)
    /\ request' = NoRequest
    /\ lost' = (lost /\ ~request.cleared)
    /\ UNCHANGED <<assigned, included, excluded, original, fields, params, asking>>

Fail ==
    /\ request.busy
    /\ request' = NoRequest
    /\ lost' = (lost \/ request.cleared)
    /\ UNCHANGED <<assigned, page, active, included, excluded, original, fields, params, asking>>

Next ==
    \/ \E id \in Records : Toggle(id)
    \/ \E p \in Pages : Load(p) \/ Button(p) \/ Confirm(p)
    \/ Decline \/ Answer \/ Fail

Spec == Init /\ [][Next]_vars

(***************************************************************************)
(* Properties.                                                             *)
(***************************************************************************)
\* What the form submits is what the rows show, on every page the user
\* turns to, as long as no fetch failed after the changes were dropped.
SubmittedIsShown ==
    ~lost /\ ~request.busy => active = page \cap Outcome

\* The fields name real changes only, so the buttons ask for confirmation
\* exactly when there is something to lose.
AsksWhenSomethingIsLost == ~lost => (HasChanges <=> Outcome # assigned)

\* Turning pages, failing or declining changes nothing that will be
\* submitted; a row's tick changes that row alone; dropping the changes
\* takes a confirmation.
ChangesSurvive ==
    [][\/ Outcome' = Outcome
       \/ \E id \in page : Outcome' \in {Outcome \cup {id}, Outcome \ {id}}
       \/ asking /\ ~asking' /\ Outcome' = assigned]_vars

=============================================================================

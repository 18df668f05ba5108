------------------------------- MODULE ViewState -------------------------------
(***************************************************************************)
(* The settings of a grid and its saved views (datagrid/grid-views/view.js *)
(* and model.js, updateState and setSorting of pageable-collection.js, the *)
(* reset action): choosing a view gives its settings to the collection,    *)
(* what the user changes then is marked until it is saved or discarded.    *)
(*                                                                         *)
(* Settings are handed over by reference.  Filters, columns and appearance *)
(* are replaced when they change and are one value here, but for the type  *)
(* of the appearance: views from before it was stored have an empty one,   *)
(* which on the way to the collection becomes undefined.  The sorters of a *)
(* grid with multiple sorting are changed in place: they are objects here, *)
(* which views and collection may share.                                   *)
(***************************************************************************)
EXTENDS Naturals, FiniteSets

CONSTANTS
    Multiple,      \* the grid's multiple_sorting
    Names,         \* names of saved views
    Rest,          \* values of filters, columns and appearance, its type aside
    Sorters,       \* contents of an object of sorters
    MaxObjects,    \* bound on such objects
    All,           \* the system view
    Blank,         \* content of an object nothing refers to
    MaxRequests    \* bound on the requests in flight

ViewStateAssumption ==
    /\ All \notin Names /\ Blank \notin Sorters
    /\ IsFiniteSet(Names) /\ MaxRequests \in Nat /\ MaxObjects \in Nat
    /\ MaxObjects > Cardinality(Names) + MaxRequests + 2

Objects == 1 .. MaxObjects

VARIABLES
    content,    \* of the objects
    state,      \* collection.state: its view, and the settings
    models,     \* the collection of views, by name
    marked,     \* the page shows the settings as edited (viewDirty)
    stored,     \* settings of the views on the server
    requests,   \* saves, shares and deletions in flight
    orderly     \* ghost: no two requests overlapped, no answer was lost

vars == <<content, state, models, marked, stored, requests, orderly>>

\* The types of appearance; those with a name are alike.
Types      == {"grid", "empty", "undefined"}
Settings   == [rest : Rest, type : Types, sorters : Sorters]
References == [rest : Rest, type : Types, object : Objects]
Kinds      == {"save", "create", "share", "delete"}
Requests   == [kind : Kinds, view : Names, given : References, sent : Settings, served : BOOLEAN]

TypeOK ==
    /\ content \in [Objects -> Sorters \cup {Blank}]
    /\ state \in [view : Names \cup {All}, given : References]
    /\ DOMAIN models \subseteq Names \cup {All} /\ \A v \in DOMAIN models : models[v] \in References
    /\ DOMAIN stored \subseteq Names \cup {All} /\ \A v \in DOMAIN stored : stored[v] \in Settings
    /\ marked \in BOOLEAN /\ orderly \in BOOLEAN
    /\ requests \subseteq Requests

Value(r, c) == [rest |-> r.rest, type |-> r.type, sorters |-> c[r.object]]

\* What is undefined is not sent, and what is not sent is stored as nothing, of
\* which the page's metadata make an empty string (GridView::createView).
AsStored(s) == [s EXCEPT !.type = IF @ = "undefined" THEN "empty" ELSE @]

ToGridState(r) == [r EXCEPT !.type = IF @ = "empty" THEN "undefined" ELSE @]

\* _isCurrentStateSynchronized, negated; a view that is not there is in order.
Dirty(st, ms, c) ==
    st.view \in DOMAIN ms /\ Value(st.given, c) # Value(ms[st.view], c)

Held(st, ms, rs) ==
    {st.given.object} \cup {ms[v].object : v \in DOMAIN ms} \cup {r.given.object : r \in rs}

\* Contents c, without those nothing refers to any more.
Keep(c) ==
    content' = [o \in Objects |-> IF o \in Held(state', models', requests') THEN c[o] ELSE Blank]

New == CHOOSE o \in Objects : o \notin Held(state, models, requests)

\* The page comes with its views and with settings of its own, from the URL or
\* from the view, which alone may lack a type; the system view gets the initial
\* settings (initialize).
Init ==
    \E own \in Settings, view \in Names \cup {All}, vs \in SUBSET Names :
    \E f \in [vs \cup {All} -> 2 .. Cardinality(vs) + 2] :
        /\ f[All] = 2 /\ \A v, w \in DOMAIN f : f[v] = f[w] => v = w
        /\ stored \in [vs \cup {All} -> Settings]
        /\ stored[All].type = "grid"
        /\ \A v \in vs : stored[v].type # "undefined"
        /\ own.type \in {"grid"} \cup {stored[v].type : v \in vs \cap {view}}
        /\ models = [v \in DOMAIN stored |->
              [rest |-> stored[v].rest, type |-> stored[v].type, object |-> f[v]]]
        /\ state = [view |-> view, given |-> [rest |-> own.rest, type |-> own.type, object |-> 1]]
        /\ content = [o \in Objects |->
              IF o = 1 THEN own.sorters
              ELSE IF o \in Held(state, models, {})
                   THEN stored[CHOOSE v \in DOMAIN f : f[v] = o].sorters
              ELSE Blank]
        /\ requests = {} /\ orderly = TRUE
        /\ marked = Dirty(state, models, content)

\* render: after updateState, beforeFetch, reset and changes of the views.
Render == marked' = Dirty(state', models', content')

-----------------------------------------------------------------------------
\* setSorting: in place, or in a new object when there is one sorter at most.
\* (Definitions named for a mistake are mutants of the one that follows.)
SetSortingInPlace(s) ==
    /\ UNCHANGED state
    /\ Keep([content EXCEPT ![state.given.object] = s])

SetSorting(s) ==
    IF Multiple
    THEN /\ UNCHANGED state
         /\ Keep([content EXCEPT ![state.given.object] = s])
    ELSE /\ state' = [state EXCEPT !.given.object = New]
         /\ Keep([content EXCEPT ![New] = s])

Sort(s) ==
    /\ s # content[state.given.object]
    /\ UNCHANGED <<models, stored, requests, orderly>>
    /\ SetSorting(s)
    /\ Render

\* A filter or the column manager: updateState with new objects.  Another
\* appearance comes with its type.
Rearrange(rest, type) ==
    /\ type \in {state.given.type, "grid"}
    /\ rest # state.given.rest \/ type # state.given.type
    /\ state' = [state EXCEPT !.given.rest = rest, !.given.type = type]
    /\ UNCHANGED <<models, stored, requests, orderly>>
    /\ Keep(content)
    /\ Render

\* changeView: the view's settings over the initial ones, all of which it has, if
\* only to make them undefined.
ChangeViewToModel(v, ms) == state' = [view |-> v, given |-> ms[v]]

ChangeView(v, ms) == state' = [view |-> v, given |-> ToGridState(ms[v])]

\* onChange, and onDiscardChanges for the view there is.
Choose(v) ==
    /\ v \in DOMAIN models
    /\ v = state.view => marked
    /\ ChangeView(v, models)
    /\ UNCHANGED <<models, stored, requests, orderly>>
    /\ Keep(content)
    /\ Render

\* The reset action: updateState(initialState), whose sorters are the system
\* view's too.
Reset ==
    /\ state' = [view |-> All, given |-> models[All]]
    /\ UNCHANGED <<models, stored, requests, orderly>>
    /\ Keep(content)
    /\ Render

-----------------------------------------------------------------------------
\* model.save and model.destroy with wait: the model changes with the answer.
Send(kind, v, given) ==
    /\ Cardinality(requests) < MaxRequests
    /\ requests' = requests \cup {[kind |-> kind, view |-> v, given |-> given,
                                   sent |-> AsStored(Value(given, content)),
                                   served |-> FALSE]}
    /\ orderly' = (orderly /\ requests = {})

SaveAtOnce ==
    /\ marked /\ state.view \in Names
    /\ UNCHANGED <<state, stored>>
    /\ models' = [models EXCEPT ![state.view] = state.given]
    /\ Send("save", state.view, state.given)
    /\ Keep(content)
    /\ Render

\* onSave sends the settings of the collection, onShare and onUnshare those
\* of the model, onSaveAs asks for a name first.
Save ==
    /\ marked /\ state.view \in Names
    /\ Send("save", state.view, state.given)
    /\ UNCHANGED <<content, state, models, marked, stored>>

Share ==
    /\ state.view \in DOMAIN models \ {All}
    /\ Send("share", state.view, models[state.view])
    /\ UNCHANGED <<content, state, models, marked, stored>>

SaveAs(v) ==
    /\ v \in Names \ (DOMAIN models \cup DOMAIN stored)
    /\ Send("create", v, state.given)
    /\ UNCHANGED <<content, state, models, marked, stored>>

Delete ==
    /\ state.view \in DOMAIN models \ {All}
    /\ Send("delete", state.view, models[state.view])
    /\ UNCHANGED <<content, state, models, marked, stored>>

Serve(r) ==
    /\ r \in requests /\ ~r.served
    /\ r.kind = "create" => r.view \notin DOMAIN stored
    /\ r.kind # "create" => r.view \in DOMAIN stored
    /\ requests' = (requests \ {r}) \cup {[r EXCEPT !.served = TRUE]}
    /\ stored' = IF r.kind = "delete"
                 THEN [v \in DOMAIN stored \ {r.view} |-> stored[v]]
                 ELSE [v \in DOMAIN stored \cup {r.view} |->
                          IF v = r.view THEN r.sent ELSE stored[v]]
    /\ UNCHANGED <<content, state, models, marked, orderly>>

\* Every model set, added or removed renders the selector; a new view is
\* changed to, and the system view after a deletion (_onModelRemove).
Answer(r) ==
    /\ r \in requests /\ r.served
    /\ requests' = requests \ {r}
    /\ CASE r.kind = "save" ->
              /\ models' = [v \in DOMAIN models |-> IF v = r.view THEN r.given ELSE models[v]]
              /\ UNCHANGED state
         [] r.kind = "share" -> UNCHANGED <<models, state>>
         [] r.kind = "create" ->
              /\ models' = [v \in DOMAIN models \cup {r.view} |->
                               IF v = r.view THEN r.given ELSE models[v]]
              /\ ChangeView(r.view, models')
         [] r.kind = "delete" ->
              /\ models' = [v \in DOMAIN models \ {r.view} |-> models[v]]
              /\ IF r.view \in DOMAIN models THEN ChangeView(All, models') ELSE UNCHANGED state
    /\ UNCHANGED <<stored, orderly>>
    /\ Keep(content)
    /\ Render

\* An error, or an answer that is lost.
Fail(r) ==
    /\ r \in requests
    /\ requests' = requests \ {r}
    /\ orderly' = (orderly /\ ~r.served)
    /\ UNCHANGED <<state, models, marked, stored>>
    /\ Keep(content)

Next ==
    \/ \E s \in Sorters : Sort(s)
    \/ \E rest \in Rest, type \in Types : Rearrange(rest, type)
    \/ \E v \in Names \cup {All} : Choose(v) \/ SaveAs(v)
    \/ Reset \/ Save \/ Share \/ Delete
    \/ \E r \in requests : Serve(r) \/ Answer(r) \/ Fail(r)

Spec == Init /\ [][Next]_vars

-----------------------------------------------------------------------------
\* The grid is marked as edited when saving it would change what the server has
\* for its view, whatever was changed while saves were on their way or failed -
\* unless requests overlapped or an answer was lost.  It is marked without that
\* only for a view that came without a type of appearance.
EditedIsMarked ==
    (orderly /\ requests = {} /\ state.view \in DOMAIN stored) =>
        /\ AsStored(Value(state.given, content)) # stored[state.view] => marked
        /\ marked => \/ AsStored(Value(state.given, content)) # stored[state.view]
                     \/ models[state.view].type = "empty"

\* A view that is chosen, or gone back to, brings the settings it was saved with,
\* unmarked, and the reset action those the page came with.  A view from before the
\* type of the appearance was stored brings everything else, and an undefined type;
\* it is then edited at once, if it was not saved since the page came.
ViewsComeBack ==
    [][/\ \A v \in Names \cup {All} :
             Choose(v) /\ orderly /\ requests = {} /\ v \in DOMAIN stored =>
                 /\ Value(state'.given, content') = ToGridState(stored[v])
                 /\ marked' <=> models[v].type = "empty"
       /\ Reset => Value(state'.given, content') = stored[All] /\ ~marked']_vars

\* reset-collection-action.js: "Resets collection to initial state"; the part of
\* ViewsComeBack that is about the reset action.
ResetsToInitialState ==
    [][Reset => Value(state'.given, content') = stored[All]]_vars

=============================================================================

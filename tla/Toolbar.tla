-------------------------------- MODULE Toolbar --------------------------------
(***************************************************************************)
(* The toolbars of a grid, above and below the table (datagrid/toolbar.js, *)
(* page-size.js, visible-items-counter.js, actions-panel.js, the launchers *)
(* and the actions that grid.js gives them).  Each shows what the          *)
(* collection's state was when it was last rendered: on add, remove and    *)
(* reset, and whenever the grid disables or enables its toolbars: around   *)
(* requests, which it counts, and around ajax actions, which nobody does.  *)
(*                                                                         *)
(* A page is one record here, so that the last page is the total; what     *)
(* paging itself does is in GridPaging.  Page size, filters and sorting    *)
(* are one value, the query.                                               *)
(***************************************************************************)
EXTENDS Naturals, FiniteSets

CONSTANTS
    Placements,     \* of the toolbars: top, bottom
    Queries,
    InitialQuery,
    MaxTotal,       \* bound on the records
    MaxAjax,        \* bound on the ajax actions under way
    Slots,          \* bound on the requests in flight
    Null            \* null: a total that is not known

ToolbarAssumption ==
    /\ InitialQuery \in Queries /\ MaxTotal \in Nat /\ MaxAjax \in Nat
    /\ Null \notin Nat /\ IsFiniteSet(Slots)

VARIABLES
    state,          \* collection.state
    bars,           \* the toolbars: enabled, and what each widget shows
    requests,       \* fetches held back by a promise, or sent, and rows being deleted
    requestsCount,  \* of the grid
    ajax,           \* ajax actions that wait for their answer
    open,           \* the toolbar whose export menu is open, or Null
    links,          \* the query its links ask for
    overtaken,      \* ghost: what was not told of a state that was taken back, or
                    \* of a query that changed: the open menu, the bars, the counter
    uncovered       \* ghost: the mask was hidden with something still under way

vars == <<state, bars, requests, requestsCount, ajax, open, links, overtaken, uncovered>>

Actions == {"refresh", "reset"}
Pages   == 0 .. MaxTotal \cup {1}
States  == [page : Pages, query : Queries, total : 0 .. MaxTotal \cup {Null}]
Pagers  == [enabled : BOOLEAN, page : Pages, total : 0 .. MaxTotal, on : BOOLEAN]
Sizes  == [enabled : BOOLEAN, query : Queries, on : BOOLEAN]
Bars   ==
    [pager : Pagers, size : Sizes, launchers : [Actions -> [enabled : BOOLEAN]],
     counter : 0 .. MaxTotal]
Idle     == [phase |-> "idle"]
Requests == [phase : {"held", "sent", "destroy"}, before : States \cup {Idle}]
Sent     == {s \in Slots : requests[s].phase \in {"sent", "destroy"}}

TypeOK ==
    /\ state \in States
    /\ bars \in [Placements -> Bars]
    /\ requests \in [Slots -> Requests \cup {Idle}]
    /\ requestsCount = Cardinality(Sent)
    /\ ajax \in 0 .. MaxAjax
    /\ open \in Placements \cup {Null}
    /\ links \in [Placements -> Queries \cup {Null}]
    /\ overtaken \subseteq {"menu", "bars", "counter"}
    /\ uncovered \in BOOLEAN

\* _checkState, which looks at nothing as long as the total is not known.
Check(st) ==
    IF st.total = Null THEN st
    ELSE IF st.total = 0 THEN [st EXCEPT !.page = 1]
    ELSE IF st.page > st.total THEN [st EXCEPT !.page = st.total]
    ELSE st

\* hasPrevious, hasNext and the numbers between, as they are labelled, are for
\* another page than this.
Others(st, pager) == (1 .. IF st.total = Null THEN pager.total ELSE st.total) \ {st.page}

-----------------------------------------------------------------------------
\* pagination.render, page-size.render, visible-items-counter.render, each with
\* the flag of its own and the state at that time.
PagerOf(pager, st) ==
    IF st.total = Null THEN pager
    ELSE [pager EXCEPT !.page = st.page, !.total = st.total,
                       !.on = pager.enabled /\ st.total # 0]

PageSizeOf(size, st) ==
    [size EXCEPT !.query = st.query, !.on = size.enabled /\ st.total \notin {0, Null}]

CounterOf(counter, st) == IF st.total = Null THEN counter ELSE st.total

\* enable and disable, of each widget, and of the toolbar, which leaves the
\* counter alone.
EnablePager(pager, flag, st)   == PagerOf([pager EXCEPT !.enabled = flag], st)
EnablePageSize(size, flag, st) == PageSizeOf([size EXCEPT !.enabled = flag], st)
EnableLauncher(launcher, flag) == [launcher EXCEPT !.enabled = flag]
EnableActions(launchers, flag) == [a \in DOMAIN launchers |-> EnableLauncher(launchers[a], flag)]

Enable(bar, flag, st) ==
    [bar EXCEPT !.pager = EnablePager(@, flag, st), !.size = EnablePageSize(@, flag, st),
                !.launchers = EnableActions(@, flag)]

\* (A definition named for a mistake is the mutant of the one after it.)
CallFirstToolbar(bs, flag, st) ==
    [p \in Placements |-> IF p = CHOOSE q \in Placements : TRUE THEN Enable(bs[p], flag, st) ELSE bs[p]]

CallToolbar(bs, flag, st) == [p \in Placements |-> Enable(bs[p], flag, st)]

\* The collection's events add, remove and reset.
Rendered(bs, st) ==
    [p \in Placements |->
        [bs[p] EXCEPT !.pager = PagerOf(@, st), !.size = PageSizeOf(@, st),
                      !.counter = CounterOf(@, st)]]

\* setActions
Launchers(actions) == [a \in actions |-> [enabled |-> TRUE]]

\* getToolbar and Toolbar.initialize: the grid is rendered with its first page,
\* or with none yet.
Created(st) ==
    [pager     |-> [enabled |-> TRUE, page |-> st.page, total |-> st.total, on |-> st.total # 0],
     size      |-> [enabled |-> TRUE, query |-> st.query, on |-> st.total # 0],
     launchers |-> Launchers(Actions),
     counter   |-> st.total]

Init ==
    /\ \E q \in Queries, n \in 0 .. MaxTotal :
          state = Check([page |-> 1, query |-> q, total |-> n])
    /\ bars = [p \in Placements |-> Created(state)]
    /\ requests = [s \in Slots |-> Idle] /\ requestsCount = 0 /\ ajax = 0
    /\ open = Null /\ links = [p \in Placements |-> Null]
    /\ overtaken = {} /\ uncovered = FALSE

-----------------------------------------------------------------------------
\* showLoading and hideLoading disable and enable the toolbars with the mask:
\* with every request, and with the last answer that is counted.
ShowLoading(bs, st) == bars' = CallToolbar(bs, FALSE, st) /\ uncovered' = FALSE
HideLoading(bs, st) ==
    bars' = CallToolbar(bs, TRUE, st) /\ uncovered' = (requestsCount' + ajax' > 0)

BeforeRequest(bs, st) ==
    /\ requestsCount' = requestsCount + 1
    /\ ShowLoading(bs, st)

AfterRequest(bs, st) ==
    /\ requestsCount' = requestsCount - 1
    /\ IF requestsCount = 1 THEN HideLoading(bs, st) ELSE bars' = bs /\ UNCHANGED uncovered

Modal == \E s \in Slots : requests[s].phase = "held"

\* fetch: at once, or when the listeners' promises are kept, and then nothing
\* renders the toolbars yet.
Called(s, held, st, before) ==
    /\ requests' = [requests EXCEPT ![s] =
          [phase |-> IF held THEN "held" ELSE "sent", before |-> before]]
    /\ state' = IF held THEN st ELSE Check(st)

Fetch(st, before) ==
    /\ UNCHANGED ajax
    /\ \E s \in Slots, held \in BOOLEAN :
          /\ requests[s] = Idle
          /\ Called(s, held, st, before)
          /\ IF held THEN UNCHANGED <<bars, requestsCount, uncovered>>
                     ELSE BeforeRequest(bars, state')

\* A click outside closes the menu.
Elsewhere == open' = Null /\ UNCHANGED <<links, overtaken>>

\* onChangePage goes by the flag.
GetPage(p, n) ==
    /\ ~Modal /\ bars[p].pager.enabled /\ bars[p].pager.on
    /\ n \in Others(state, bars[p].pager)
    /\ Fetch([state EXCEPT !.page = n], Idle)
    /\ Elsewhere

\* onChangePageByInput goes by what was rendered: while a reset is under way
\* the field is as it was, and the last page, which is null, is taken for any
\* page that is typed; getPage makes 0 of it.
TypePage(p, n) ==
    /\ ~Modal /\ bars[p].pager.on
    /\ IF state.total = Null THEN n \in {0} \cup ({1} \ {state.page})
       ELSE n \in Others(state, bars[p].pager)
    /\ Fetch([state EXCEPT !.page = n], Idle)
    /\ Elsewhere

\* onChangePageSize; setPageSize brings the state back when the fetch fails.
SetPageSize(p, q) ==
    /\ ~Modal /\ bars[p].size.on
    /\ q # state.query
    /\ Fetch(Check([state EXCEPT !.query = q]), state)
    /\ Elsewhere

\* Filters and headers, which ask for a first page, whatever is in flight.
Filter(q) ==
    /\ ~Modal
    /\ q # state.query
    /\ Fetch([state EXCEPT !.query = q, !.page = 1], Idle)
    /\ Elsewhere

\* RefreshCollectionAction and ResetCollectionAction; the initial state has no
\* total.
Execute(action) ==
    IF action = "refresh"
    THEN Fetch(state, Idle)
    ELSE Fetch([page |-> 1, query |-> InitialQuery, total |-> Null], Idle)

\* ActionLauncher.onClick.
Press(p, action) ==
    /\ ~Modal /\ bars[p].launchers[action].enabled
    /\ Execute(action)
    /\ Elsewhere

\* A row's action deletes it: the model's request is counted as any other.
DestroyRow(s) ==
    /\ ~Modal /\ state.total # 0
    /\ requests[s] = Idle
    /\ requests' = [requests EXCEPT ![s] = [phase |-> "destroy", before |-> Idle]]
    /\ BeforeRequest(bars, state)
    /\ Elsewhere
    /\ UNCHANGED <<state, ajax>>

\* ... or does something else to it: _handleAjax.
StartAjaxAction ==
    /\ ~Modal /\ ajax < MaxAjax
    /\ ajax' = ajax + 1
    /\ ShowLoading(bars, state)
    /\ Elsewhere
    /\ UNCHANGED <<state, requests, requestsCount>>

-----------------------------------------------------------------------------
\* mediator's doRefresh and doReset, from anywhere on the page: 100 ms after
\* the last of them, when the grid is to be seen.
Mediated(action) ==
    /\ Execute(action)
    /\ overtaken' = overtaken \cup {m \in {"menu"} : state'.query # state.query}
    /\ UNCHANGED <<open, links>>

-----------------------------------------------------------------------------
Finished(s) == requests' = [requests EXCEPT ![s] = Idle]

Confirm(s) ==
    /\ requests[s].phase = "held"
    /\ state' = Check(state)
    /\ requests' = [requests EXCEPT ![s].phase = "sent"]
    /\ BeforeRequest(bars, state')
    /\ Elsewhere
    /\ UNCHANGED ajax

Reverted(r) == IF r.before = Idle THEN state ELSE Check(r.before)

\* The state stays changed and the toolbars are not told.
Refuse(s) ==
    /\ requests[s].phase = "held"
    /\ state' = Reverted(requests[s])
    /\ Finished(s)
    /\ overtaken' = overtaken \cup {"bars", "counter"}
    /\ open' = Null
    /\ UNCHANGED <<bars, requestsCount, ajax, links, uncovered>>

\* parse, the reset of the models, then _afterRequest.  With page 0 and records
\* _checkState raises and nothing more is heard of the request (GridPaging's
\* FetchRaises); here it remains under way.
Answer(s, n) ==
    /\ requests[s].phase = "sent"
    /\ state.page > 0 \/ n = 0
    /\ UNCHANGED ajax
    /\ state' = Check([state EXCEPT !.total = n])
    /\ Finished(s)
    /\ AfterRequest(Rendered(bars, state'), state')
    /\ overtaken' = overtaken \cap {"menu"}
    /\ UNCHANGED <<open, links>>

\* The model is removed, its record counted off and the rest fetched before the
\* deleting request is.
RowDestroyed(s, held) ==
    LET st == IF state.total \in {Null, 0} THEN state ELSE [state EXCEPT !.total = @ - 1]
    IN  /\ requests[s].phase = "destroy"
        /\ UNCHANGED ajax
        /\ Called(s, held, st, Idle)
        /\ IF held THEN AfterRequest(Rendered(bars, st), st)
           ELSE ShowLoading(Rendered(bars, st), state') /\ UNCHANGED requestsCount
        /\ UNCHANGED <<open, links, overtaken>>

\* setPageSize's callback comes before _afterRequest.  So does a deleted row end
\* whose model is gone since.
Fail(s) ==
    /\ requests[s].phase \in {"sent", "destroy"}
    /\ UNCHANGED ajax
    /\ state' = Reverted(requests[s])
    /\ Finished(s)
    /\ AfterRequest(bars, state')
    /\ overtaken' = (overtaken \cup {m \in {"menu"} : state'.query # state.query}
                               \cup {b \in {"bars", "counter"} : state' # state})
                    \ {b \in {"bars"} : requestsCount = 1}
    /\ UNCHANGED <<open, links>>

\* _onAjaxError and _onAjaxSuccess hide the mask, whatever else is under way; the
\* latter fetches then.
AjaxActionFails ==
    /\ ajax > 0
    /\ ajax' = ajax - 1
    /\ UNCHANGED <<state, requests, requestsCount, open, links>>
    /\ HideLoading(bars, state)
    /\ overtaken' = overtaken \ {"bars"}

AjaxActionSucceeds(s, held) ==
    /\ ajax > 0 /\ requests[s] = Idle
    /\ ajax' = ajax - 1
    /\ Called(s, held, state, Idle)
    /\ IF held THEN UNCHANGED requestsCount /\ HideLoading(bars, state)
                ELSE BeforeRequest(CallToolbar(bars, TRUE, state), state')
    /\ overtaken' = overtaken \ {"bars"}
    /\ UNCHANGED <<open, links>>

-----------------------------------------------------------------------------
\* getFetchData: what the links of the export ask for, which is every page.
FetchData(st) == Check(st).query

\* ExportAction: the links get their query each time the menu opens.  Disabling
\* the launcher does not disable the menu's button.
ExpandLinksOnce(p) ==
    /\ ~Modal /\ open # p
    /\ open' = p
    /\ links' = IF links[p] = Null THEN [links EXCEPT ![p] = FetchData(state)] ELSE links
    /\ overtaken' = overtaken \ {"menu"}
    /\ UNCHANGED <<state, bars, requests, requestsCount, ajax, uncovered>>

Expand(p) ==
    /\ ~Modal /\ open # p
    /\ open' = p
    /\ links' = [links EXCEPT ![p] = FetchData(state)]
    /\ overtaken' = overtaken \ {"menu"}
    /\ UNCHANGED <<state, bars, requests, requestsCount, ajax, uncovered>>

\* A link is followed, or something else is clicked.
Close ==
    /\ open # Null
    /\ Elsewhere
    /\ UNCHANGED <<state, bars, requests, requestsCount, ajax, uncovered>>

Next ==
    \/ \E p \in Placements :
          \/ \E n \in 1 .. MaxTotal : GetPage(p, n)
          \/ \E n \in Pages : TypePage(p, n)
          \/ \E q \in Queries : SetPageSize(p, q)
          \/ \E action \in Actions : Press(p, action)
          \/ Expand(p)
    \/ \E q \in Queries : Filter(q)
    \/ \E action \in Actions : Mediated(action)
    \/ Close \/ StartAjaxAction \/ AjaxActionFails
    \/ \E s \in Slots :
          \/ Confirm(s) \/ Refuse(s) \/ Fail(s) \/ DestroyRow(s)
          \/ \E n \in 0 .. MaxTotal : Answer(s, n)
          \/ \E held \in BOOLEAN : RowDestroyed(s, held) \/ AjaxActionSucceeds(s, held)

Spec == Init /\ [][Next]_vars

-----------------------------------------------------------------------------
\* When no request and no ajax action is under way, every toolbar can be used; and
\* it is off while one is, unless the end of another has hidden the mask meanwhile -
\* but for the pager of a reset grid, whose total is not known.  A toolbar that can
\* be used shows page, query and total of the collection's state, when nothing is
\* held back or was refused.
ToolbarsFollow ==
    \A p \in Placements :
        LET bar == bars[p]
            told(part) == ~Modal /\ part \notin overtaken /\ state.total # Null
            enabled == (requestsCount = 0 /\ ajax = 0) \/ uncovered
        IN  /\ \A a \in Actions : bar.launchers[a].enabled = enabled
            /\ ~enabled => ~bar.size.on
            /\ told("bars") => bar.pager.on = (enabled /\ state.total # 0)
            /\ told("bars") /\ enabled =>
                  /\ bar.size.on = (state.total # 0) /\ bar.size.query = state.query
                  /\ bar.pager.page = state.page /\ bar.pager.total = state.total
            /\ told("counter") /\ enabled => bar.counter = state.total

\* The links of an open menu export what the grid asks for, whatever was
\* filtered, sorted, reset or taken back since the menu was first opened.
LinksAreCurrent ==
    open # Null /\ "menu" \notin overtaken => links[open] = state.query

=============================================================================

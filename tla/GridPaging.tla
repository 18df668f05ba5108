----------------------------- MODULE GridPaging -----------------------------
(***************************************************************************)
(* A grid, its pageable collection and the server that answers it:         *)
(* how the collection's paging state, the rows it shows, the requests in   *)
(* flight and the grid's loading mask move together.                       *)
(*                                                                         *)
(*   pageable-collection.js   fetch/_fetch, parse, onRemove, setPageSize   *)
(*   datagrid/grid.js         request counting, mask, refetch on remove    *)
(*   datagrid/pagination*.js, datagrid/page-size.js   the toolbar          *)
(*   datagrid/action/*.js     refresh, reset, delete, ajax actions         *)
(*   Extension/Pager          the server's answer (module Pager)           *)
(*                                                                         *)
(* Requests are asynchronous and unordered: nothing in the code aborts or  *)
(* numbers them, so any of those in flight may be served or answered next. *)
(***************************************************************************)
EXTENDS PageState, FiniteSets

CONSTANTS
    Ids,              \* slots for requests in flight: bounds concurrency
    PageSizes,        \* sizes the page-size selector offers
    DefaultPageSize,  \* default_per_page, also initialState.pageSize
    MaxTotal,         \* bound on the number of records on the server
    MaxAjax           \* bound on concurrent ajax actions

ASSUME GridPagingAssumption ==
    /\ PageSizes \subseteq Nat
    /\ DefaultPageSize \in Nat
    /\ MaxTotal \in Nat
    /\ MaxAjax \in Nat
    /\ IsFiniteSet(Ids)

VARIABLES
    state,          \* collection.state
    rows,           \* what the collection's models are: count rows, the
                    \* answer to a request for page with size rows a page
    requests,       \* what each slot holds
    total,          \* records on the server that match the grid's query
    requestsCount,  \* grid.requestsCount
    loading,        \* loading mask shown and toolbar disabled
    widgets,        \* whether pager and page-size selector, as they were last
                    \* rendered, can be used
    ajax            \* ajax actions waiting for their answer

vars == <<state, rows, requests, total, requestsCount, loading, widgets, ajax>>

Phases == {"idle", "waiting", "sent", "answered", "raised"}
Kinds  == {"fetch", "size", "destroy"}

\* undisturbed: no other fetch has been started since this one was called.
\* attached: the model being destroyed is still in the collection.
Requests ==
    [phase : Phases, kind : Kinds, page : Nat, size : Nat, from : PageStates,
     undisturbed : BOOLEAN, attached : BOOLEAN, total : Nat, count : Nat]

NoState == [totalRecords |-> 0, pageSize |-> 0, currentPage |-> 0,
            totalPages |-> 0, lastPage |-> 0]

Idle == [phase |-> "idle", kind |-> "fetch", page |-> 0, size |-> 0,
         from |-> NoState, undisturbed |-> FALSE, attached |-> FALSE,
         total |-> 0, count |-> 0]

\* Requests the grid has counted and whose end it has not heard of; those whose
\* answer made a handler raise are among them for good.
InFlight  == { i \in Ids : requests[i].phase \in {"sent", "answered", "raised"} }
Intact    == \A i \in Ids : requests[i].phase # "raised"
Attached  == { i \in Ids : requests[i].attached }
ModalOpen == \E i \in Ids : requests[i].phase = "waiting"

Widgets == [pager : BOOLEAN, size : BOOLEAN]

TypeOK ==
    /\ state \in PageStates
    /\ rows \in [page : Nat, size : Nat, count : Nat]
    /\ requests \in [Ids -> Requests]
    /\ total \in Nat
    /\ requestsCount \in Int
    /\ loading \in BOOLEAN
    /\ widgets \in Widgets
    /\ ajax \in Nat

\* What the server returns for a page of a query that matches n records.
Answered(page, size, n) ==
    Cardinality(RowsReturned(VisitDatasource(OnePage, DefaultPageSize, page, size, n), n))

(***************************************************************************)
(* The grid is created with its first page inlined in the HTML page: the   *)
(* collection parses that answer as any other.                             *)
(***************************************************************************)
Init ==
    \E n \in 0..MaxTotal, p \in 1..(MaxTotal + 1) :
        /\ total = n
        /\ rows = [page |-> p, size |-> DefaultPageSize,
                   count |-> Answered(p, DefaultPageSize, n)]
        /\ state = CheckState([totalRecords |-> n, pageSize |-> DefaultPageSize,
                               currentPage |-> p, totalPages |-> Unknown,
                               lastPage |-> Unknown])
        /\ requests = [i \in Ids |-> Idle]
        /\ requestsCount = 0
        /\ loading = FALSE
        /\ widgets = [pager |-> n > 0, size |-> n > 0]
        /\ ajax = 0

(***************************************************************************)
(* grid._beforeRequest and grid._afterRequest.  The toolbar is disabled    *)
(* with the mask; it is rendered then, and with the models' events.  The   *)
(* pager does not render while the total is not known, and stays as it is. *)
(***************************************************************************)
Render(on, st) ==
    [pager |-> IF st.totalRecords = Unknown THEN widgets.pager ELSE on /\ st.totalRecords > 0,
     size  |-> on /\ st.totalRecords > 0]

Rendered == widgets' = Render(~loading', state')

BeforeRequest ==
    /\ requestsCount' = requestsCount + 1
    /\ loading' = TRUE
    /\ Rendered

AfterRequest ==
    /\ requestsCount' = requestsCount - 1
    /\ loading' = IF requestsCount = 1 THEN FALSE ELSE loading

\* With the last request done the toolbar is enabled.
AfterFailure ==
    /\ AfterRequest
    /\ IF requestsCount = 1 THEN Rendered ELSE UNCHANGED widgets

(***************************************************************************)
(* collection.fetch.  _fetch checks the state and sends its page and size; *)
(* a listener of "beforeFetch" may hold the call back with a promise, in   *)
(* which case nothing has been checked or sent yet.                        *)
(***************************************************************************)
IsFetch(r)  == r.phase # "idle" /\ r.kind # "destroy"
Alone(i)    == \A j \in Ids \ {i} : ~IsFetch(requests[j])
Disturbed   == [j \in Ids |-> [requests[j] EXCEPT !.undisturbed = FALSE]]

\* What slot i holds once fetch has been called.
Called(i, kind, from) ==
    [Idle EXCEPT !.phase = "waiting", !.kind = kind, !.from = from,
                 !.undisturbed = Alone(i)]

\* _fetch: the request r goes out with the page and size of st, once checked.
Sent(r, st) ==
    [r EXCEPT !.phase = "sent", !.page = CheckState(st).currentPage,
              !.size = CheckState(st).pageSize]

SendFetchStateUnchecked(i, kind, from, st) ==
    /\ state' = st
    /\ requests' = [Disturbed EXCEPT ![i] = Sent(Called(i, kind, from), st)]

SendFetch(i, kind, from, st) ==
    /\ state' = CheckState(st)
    /\ requests' = [Disturbed EXCEPT ![i] = Sent(Called(i, kind, from), st)]

HoldFetch(i, kind, from, st) ==
    /\ state' = st
    /\ requests' = [Disturbed EXCEPT ![i] = Called(i, kind, from)]

\* fetch called by a handler that does nothing else to the mask.
Fetch(i, kind, from, st, held) ==
    /\ requests[i].phase = "idle"
    /\ IF held
       THEN HoldFetch(i, kind, from, st) /\ UNCHANGED <<requestsCount, loading, widgets>>
       ELSE SendFetch(i, kind, from, st) /\ BeforeRequest
    /\ UNCHANGED <<rows, total, ajax>>

(***************************************************************************)
(* The user.  What can be clicked is what was rendered; the confirmation   *)
(* window of a held fetch is modal, and a one-page grid has no pager.      *)
(***************************************************************************)
\* The pages that can be asked for: by the handles, which go by the flag and are
\* labelled for what was rendered, and by the field.  Without a last page, which is
\* null, the field takes null for any page that is typed, and getPage makes it 0.
Choices ==
    IF state.totalRecords # Unknown THEN {FirstPage} \cup FirstPage..state.lastPage
    ELSE {0, FirstPage} \cup (IF loading THEN {} ELSE 1..MaxTotal)

\* Pagination handlers, PaginationInput's typed page: getPage.
UserGetsPage(i, n, held) ==
    /\ widgets.pager /\ ~ModalOpen /\ ~OnePage
    /\ n \in Choices
    /\ Fetch(i, "fetch", NoState, CheckState([state EXCEPT !.currentPage = n]), held)

\* setPageSize changes the state in place before it calls getPage; the copy
\* taken first comes back if the promise of the fetch fails.
UserSetsPageSize(i, n, held) ==
    /\ widgets.size /\ ~ModalOpen /\ ~OnePage
    /\ n # state.pageSize
    /\ Fetch(i, "size", state, CheckState([state EXCEPT !.pageSize = n]), held)

\* A listener of mediator's datagrid:doRefresh, a removed filter, a sorted
\* column: a fetch of the state as it is, at any time.
Refresh(i, held) == Fetch(i, "fetch", NoState, state, held)

\* datagrid:doReset: ResetCollectionAction.  initialState was filled from the
\* prototype's state, so it also brings back the null totals of a collection
\* that has not been answered yet.
InitialState == [totalRecords |-> Unknown, pageSize |-> DefaultPageSize,
                 currentPage |-> FirstPage, totalPages |-> Unknown, lastPage |-> Unknown]

Reset(i, held) == Fetch(i, "fetch", NoState, CheckState(InitialState), held)

\* The held fetch is confirmed: it sends the state of that moment.
Confirm(i) ==
    /\ requests[i].phase = "waiting"
    /\ state' = CheckState(state)
    /\ requests' = [requests EXCEPT ![i] = Sent(@, state)]
    /\ BeforeRequest
    /\ UNCHANGED <<rows, total, ajax>>

\* setPageSize's fail callback.
RevertedToNothing(r) == CheckState(state)

Reverted(r) == IF r.kind = "size" THEN CheckState(r.from) ELSE state

\* The held fetch is refused: its promise is rejected, nothing is sent.
Cancel(i) ==
    /\ requests[i].phase = "waiting"
    /\ state' = Reverted(requests[i])
    /\ requests' = [requests EXCEPT ![i] = Idle]
    /\ UNCHANGED <<rows, total, requestsCount, loading, widgets, ajax>>

\* A row action destroys a model of the collection; the model's "request"
\* event reaches the grid through the collection.
DestroyRow(i) ==
    /\ requests[i].phase = "idle"
    /\ rows.count > Cardinality(Attached)
    /\ requests' = [requests EXCEPT ![i] =
            [Idle EXCEPT !.phase = "sent", !.kind = "destroy", !.attached = TRUE]]
    /\ UNCHANGED <<state, rows, total, ajax>>
    /\ BeforeRequest

(***************************************************************************)
(* The server.                                                             *)
(***************************************************************************)
ServeFetch(i) ==
    /\ requests[i].phase = "sent" /\ requests[i].kind # "destroy"
    /\ requests' = [requests EXCEPT
            ![i].phase = "answered", ![i].total = total,
            ![i].count = Answered(requests[i].page, requests[i].size, total)]
    /\ UNCHANGED <<state, rows, total, requestsCount, loading, widgets, ajax>>

ServeDestroy(i) ==
    /\ requests[i].phase = "sent" /\ requests[i].kind = "destroy"
    /\ total > 0
    /\ total' = total - 1
    /\ requests' = [requests EXCEPT ![i].phase = "answered"]
    /\ UNCHANGED <<state, rows, requestsCount, loading, widgets, ajax>>

\* Other users add and remove records.
OthersChangeData ==
    /\ total' \in (0..MaxTotal) \ {total}
    /\ UNCHANGED <<state, rows, requests, requestsCount, loading, widgets, ajax>>

(***************************************************************************)
(* Answers.  A successful fetch resets the models, then parse takes the    *)
(* total of the answer and checks the state.                               *)
(***************************************************************************)
\* reset drops the old models: their events no longer reach the collection.
AfterReset(i) ==
    [j \in Ids |-> IF j = i THEN Idle ELSE [requests[j] EXCEPT !.attached = FALSE]]

\* The state with the total of the answer.
Counted(i) == [state EXCEPT !.totalRecords = requests[i].total]

FetchSucceeds(i) ==
    /\ requests[i].phase = "answered" /\ requests[i].kind # "destroy"
    /\ ~RaisesRangeError(Counted(i))
    /\ state' = CheckState(Counted(i))
    /\ rows' = [page |-> requests[i].page, size |-> requests[i].size,
                count |-> requests[i].count]
    /\ requests' = AfterReset(i)
    /\ AfterRequest /\ Rendered
    /\ UNCHANGED <<total, ajax>>

\* _checkState raises in the middle of reset: the models are gone, the state is
\* changed as far as it came, and nobody hears that the request is done.
FetchRaises(i) ==
    /\ requests[i].phase = "answered" /\ requests[i].kind # "destroy"
    /\ RaisesRangeError(Counted(i))
    /\ state' = CheckState(Counted(i))
    /\ rows' = [rows EXCEPT !.count = 0]
    /\ requests' = [AfterReset(i) EXCEPT ![i].phase = "raised"]
    /\ UNCHANGED <<total, requestsCount, loading, widgets, ajax>>

\* The request itself may fail before or after the server handled it.
RequestFails(i) ==
    /\ i \in InFlight
    /\ state' = Reverted(requests[i])
    /\ requests' = [requests EXCEPT ![i] = Idle]
    /\ AfterFailure
    /\ UNCHANGED <<rows, total, ajax>>

\* onRemove counts the record off, then the grid's _onRemove fetches; the
\* destroying request itself completes after both.
RowDestroyed(i, held) ==
    LET st == [state EXCEPT !.totalRecords = IF @ > 0 THEN @ - 1 ELSE @]
    IN  /\ requests[i].phase = "answered" /\ requests[i].kind = "destroy"
        /\ requests[i].attached
        /\ rows' = [rows EXCEPT !.count = @ - 1]
        /\ IF held
           THEN HoldFetch(i, "fetch", NoState, st) /\ AfterRequest
           ELSE /\ SendFetch(i, "fetch", NoState, st)
                /\ loading' = TRUE
                /\ UNCHANGED requestsCount
        /\ Rendered
        /\ UNCHANGED <<total, ajax>>

\* The models were reset meanwhile: nothing is removed, nothing refetched.
DetachedRowDestroyed(i) ==
    /\ requests[i].phase = "answered" /\ requests[i].kind = "destroy"
    /\ ~requests[i].attached
    /\ requests' = [requests EXCEPT ![i] = Idle]
    /\ UNCHANGED <<state, rows, total, ajax>>
    /\ AfterFailure

(***************************************************************************)
(* Ajax actions show and hide the mask themselves, without the counter.    *)
(***************************************************************************)
StartAjaxAction ==
    /\ ajax < MaxAjax
    /\ ajax' = ajax + 1
    /\ loading' = TRUE
    /\ UNCHANGED <<state, rows, requests, total, requestsCount>>
    /\ Rendered

AjaxActionSucceeds(i, held) ==
    /\ ajax > 0
    /\ requests[i].phase = "idle"
    /\ ajax' = ajax - 1
    /\ IF held
       THEN /\ HoldFetch(i, "fetch", NoState, state)
            /\ loading' = FALSE
            /\ Rendered
            /\ UNCHANGED requestsCount
       ELSE SendFetch(i, "fetch", NoState, state) /\ BeforeRequest
    /\ UNCHANGED <<rows, total>>

AjaxActionFailsStillMasked ==
    /\ ajax > 0
    /\ ajax' = ajax - 1
    /\ UNCHANGED <<state, rows, requests, total, requestsCount, loading, widgets>>

AjaxActionFails ==
    /\ ajax > 0
    /\ ajax' = ajax - 1
    /\ loading' = FALSE
    /\ UNCHANGED <<state, rows, requests, total, requestsCount>>
    /\ Rendered

(***************************************************************************)
(* The specification.                                                      *)
(***************************************************************************)
UserStep(i) ==
    \/ \E n \in 0..MaxTotal, held \in BOOLEAN : UserGetsPage(i, n, held)
    \/ \E n \in PageSizes, held \in BOOLEAN : UserSetsPageSize(i, n, held)
    \/ Confirm(i)
    \/ Cancel(i)
    \/ DestroyRow(i)

RefreshStep(i) == \E held \in BOOLEAN : Refresh(i, held) \/ Reset(i, held)

AnswerStep(i) ==
    \/ FetchSucceeds(i)
    \/ FetchRaises(i)
    \/ RequestFails(i)
    \/ \E held \in BOOLEAN : RowDestroyed(i, held)
    \/ DetachedRowDestroyed(i)

AjaxAnswerStep ==
    \/ \E i \in Ids, held \in BOOLEAN : AjaxActionSucceeds(i, held)
    \/ AjaxActionFails

\* Everything that finishes what was started, or happens on the server.
WorkStep ==
    \/ \E i \in Ids : AnswerStep(i) \/ ServeFetch(i) \/ ServeDestroy(i)
    \/ AjaxAnswerStep
    \/ OthersChangeData

\* The grid is followed until a handler raises.
Next ==
    \/ Intact /\ \E i \in Ids : UserStep(i) \/ RefreshStep(i)
    \/ Intact /\ StartAjaxAction
    \/ Intact /\ WorkStep
    \/ OthersChangeData

\* jQuery completes requests, with success, error or timeout; nothing obliges the
\* user, the server's other clients or a refresh to act.
Completion == Intact /\ ((\E i \in Ids : AnswerStep(i)) \/ AjaxAnswerStep)

Spec == Init /\ [][Next]_vars
FairSpec == Spec /\ WF_vars(Completion)

(***************************************************************************)
(* Properties.                                                             *)
(***************************************************************************)
\* Whatever the order of clicks, removals, failed page-size changes and late
\* answers, the state they leave is one _checkState accepts again: it raises on one
\* occasion only, when an answer meets the page 0 that the pager's field stands for
\* while the total is not known, that is during or after a reset.
NoRangeError ==
    /\ [](Intact => ~RaisesRangeError(state))
    /\ [][Intact /\ ~Intact' => state.currentPage = 0 /\ state.totalRecords = Unknown]_vars

\* grid.requestsCount counts the requests in flight, including those a
\* destroyed model sends for itself, and never goes negative.
CountsRequests == requestsCount = Cardinality(InFlight)

\* The mask is only ever shown on behalf of something that is still going
\* to hide it: no order of overlapping requests and ajax actions leaves the
\* grid masked for good.
MaskHasOwner == loading => requestsCount > 0 \/ ajax > 0

\* In a grid without ajax actions the mask covers every request from its
\* start to its end, so the toolbar cannot start a second one.
RequestsAreMasked == requestsCount > 0 => loading

\* An answer to a fetch that no other fetch disturbed brings rows and state
\* together again, whatever happened before: the page shown is the current
\* page with the current size, unless records vanished meanwhile and the
\* page asked for lay past the end, which the server answers with no rows, or
\* one page holds everything, whichever was asked for.
UndisturbedAnswerSyncs ==
    [][\A i \in Ids :
         FetchSucceeds(i) /\ requests[i].undisturbed
           => /\ rows'.size = state'.pageSize \/ OnePage
              /\ rows'.page = state'.currentPage \/ rows'.count = 0 \/ rows'.size = 0]_vars

\* A page-size change that fails, or is refused, and was not overlapped by
\* another fetch leaves rows and state as they agreed before it.
UndisturbedFailureReverts ==
    [][\A i \in Ids :
         /\ requests[i].kind = "size" /\ requests[i].undisturbed
         /\ RequestFails(i) \/ Cancel(i)
         /\ rows.count > 0
         /\ rows.size = requests[i].from.pageSize
         /\ rows.page = requests[i].from.currentPage
         => rows.size = state'.pageSize /\ rows.page = state'.currentPage]_vars

\* If from some time on the server and the callbacks of what has been
\* started are all that runs, the mask goes away and stays away, unless an
\* answer makes _checkState raise: then it stays for good.
MaskEventuallyHidden == []Intact /\ <>[][WorkStep]_vars => <>[]~loading

=============================================================================

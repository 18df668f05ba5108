------------------------------ MODULE MCPaging ------------------------------
(***************************************************************************)
(* Paging in three parts that share no state: the grid with its requests,  *)
(* the server's pager, and the toolbars.  A request to the pager is one    *)
(* computation, so a step of that part answers one request and the run     *)
(* enumerates them.                                                        *)
(***************************************************************************)
EXTENDS GridPaging, Pagination, TLC

CONSTANTS MaxPage, MaxSize, MaxResults, MaxWindow,            \* requests and pages enumerated
          Placements, Queries, InitialQuery, MaxShown, MaxActions, Null   \* of Toolbar

VARIABLES part,
          answer,   \* the pager's last request and how it was answered
          barState, bars, barRequests, barRequestsCount, barAjax, open, links, overtaken,
          uncovered

barVars == <<barState, bars, barRequests, barRequestsCount, barAjax, open, links, overtaken,
             uncovered>>

Bar == INSTANCE Toolbar WITH
    MaxTotal <- MaxShown, MaxAjax <- MaxActions, Slots <- Ids,
    state <- barState, requests <- barRequests, requestsCount <- barRequestsCount,
    ajax <- barAjax

ASSUME PagingAssumption ==
    /\ MaxPage \in Nat /\ MaxSize \in Nat /\ MaxResults \in Nat /\ MaxWindow \in Nat
    /\ Bar!ToolbarAssumption

Symmetry == Permutations(Ids) \cup Permutations(Placements)

Reply(page, size, n) ==
    [page |-> page, size |-> size, n |-> n,
     pager |-> VisitDatasource(FALSE, 10, page, size, n)]

MCInit ==
    /\ part \in {"grid", "pager", "bars"}
    /\ Init
    /\ answer = Reply(1, 10, total)
    /\ Bar!Init
    /\ part # "grid" => total = 0 /\ rows.page = 1
    /\ part # "bars" => barState = [page |-> 1, query |-> InitialQuery, total |-> 0]

Request == \E page \in -1..MaxPage, size \in 0..MaxSize, n \in 0..MaxResults :
              answer' = Reply(page, size, n)

MCNext ==
    \/ part = "grid" /\ Next /\ UNCHANGED <<part, answer, barVars>>
    \/ part = "pager" /\ Request /\ UNCHANGED <<part, vars, barVars>>
    \/ part = "bars" /\ Bar!Next /\ UNCHANGED <<part, vars, answer>>

MCSpec == MCInit /\ [][MCNext]_<<part, vars, answer, barVars>>

\* The run's bound on the toolbars: once an export menu was opened, no ajax action is
\* started, no row is deleted and the other toolbar's menu is not opened.
MenuAlone ==
    LET opened == { p \in Placements : links[p] # Null }
    IN  \/ opened = {}
        \/ /\ Cardinality(opened) = 1 /\ barAjax = 0
           /\ \A s \in Ids : barRequests[s].phase # "destroy"

(***************************************************************************)
(* Properties.                                                             *)
(***************************************************************************)
\* The rows of page k under the plain definition of paging: the n results
\* cut into consecutive runs of size rows.
ReferencePage(k, size, n) == { r \in 1..n : CeilDiv(r, size) = k }

\* For a page that exists the query returns exactly that page, whatever the
\* setters clamped on the way to OFFSET and LIMIT; the last page is the last
\* that has rows; and one page holds everything when the size is 0 ("All").
ReturnsThePage ==
    LET a == answer
    IN  IF a.size = 0 THEN RowsReturned(a.pager, a.n) = 1..a.n
        ELSE /\ a.page \in 1..CeilDiv(a.n, a.size)
                   => RowsReturned(a.pager, a.n) = ReferencePage(a.page, a.size, a.n)
             /\ a.n > 0 => a.pager.lastPage = CeilDiv(a.n, a.size)

\* The rows of as many records as s counts that getPage(p) asks the server for.
RowsGot(s, p) ==
    LET asked == CheckState([s EXCEPT !.currentPage = p])
    IN  RowsReturned(VisitDatasource(OnePage, DefaultPageSize, asked.currentPage, asked.pageSize,
                                     s.totalRecords),
                     s.totalRecords)

\* Every handle that can be clicked brings rows, the current page is among
\* the numbered ones, and the field takes the user to every record.
HandlesReach(s) ==
    ~Disabled(s, TRUE) =>
        /\ \A w \in 0..MaxWindow : \A p \in Gets(s, w) : RowsGot(s, p) # {}
        /\ \A w \in 1..MaxWindow : s.currentPage \in Window(s, w)
        /\ UNION { RowsGot(s, PageOfInput(s, k)) : k \in 0..s.lastPage + 1 } = 1..s.totalRecords

\* The pagination drawn from the state, with its conversions between indices,
\* labels and page numbers, and the pager that answers it agree: in every
\* state the grid gets into, held-back, failed and late requests included,
\* and in every state an answer of the pager leads to.
HandlesReachEveryRecord ==
    /\ part = "grid" /\ Intact => HandlesReach(state)
    /\ part = "pager" /\ answer.size > 0 /\ answer.page > 0 =>
           HandlesReach(CheckState([totalRecords |-> answer.n, pageSize |-> answer.size,
                                    currentPage |-> answer.page, totalPages |-> 1, lastPage |-> 1]))

\* The toolbars show what the collection's state is; stated in Toolbar.
ToolbarsFollow == part = "bars" => Bar!ToolbarsFollow

\* An export is one of what is shown; stated in Toolbar.
LinksAreCurrent == part = "bars" => Bar!LinksAreCurrent

=============================================================================

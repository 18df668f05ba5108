------------------------------- MODULE Pager -------------------------------
(***************************************************************************)
(* The server half of paging: Extension/Pager/AbstractPager.php,           *)
(* Extension/Pager/Orm/Pager.php and OrmPagerExtension::visitDatasource,   *)
(* which together turn the requested page and page size into the OFFSET    *)
(* and LIMIT of the grid's query.  A pager is a record; each setter of the *)
(* class is an operator from a pager to a pager, with the setter's own     *)
(* clamping.                                                               *)
(***************************************************************************)
EXTENDS Integers

NoLimit == -1        \* setMaxResults(null)

\* The smallest number of pages of size b that hold a rows (PHP and JS ceil).
CeilDiv(a, b) == (a + b - 1) \div b

(***************************************************************************)
(* The setters.                                                            *)
(***************************************************************************)
SetPage(pager, n) ==
    [pager EXCEPT !.page = IF n > 0 THEN n
                           ELSE IF pager.maxPerPage # 0 THEN 1 ELSE 0]

SetMaxPerPage(pager, n) ==
    LET first == IF pager.page = 0 THEN 1 ELSE pager.page
    IN  [pager EXCEPT !.maxPerPage = IF n >= 0 THEN n ELSE 1,
                      !.page       = IF n = 0 THEN 0 ELSE first]

SetLastPage(pager, last) ==
    LET p == [pager EXCEPT !.lastPage = last]
    IN  IF p.page > last THEN SetPage(p, last) ELSE p

NewPager ==
    SetMaxPerPage([page |-> 1, maxPerPage |-> 0, lastPage |-> 1,
                   offset |-> 0, limit |-> NoLimit], 10)

\* Pager::init.  The offset is taken from the page as it is BEFORE
\* setLastPage clamps it.  (A definition named for a mistake is the mutant of
\* the one after it.)
PagerInitOffsetByPage(pager, nbResults) ==
    IF pager.page = 0 \/ pager.maxPerPage = 0 \/ nbResults = 0
    THEN [SetLastPage(pager, 0) EXCEPT !.offset = 0, !.limit = NoLimit]
    ELSE [SetLastPage(pager, CeilDiv(nbResults, pager.maxPerPage)) EXCEPT
             !.offset = pager.page * pager.maxPerPage,
             !.limit  = pager.maxPerPage]

PagerInit(pager, nbResults) ==
    IF pager.page = 0 \/ pager.maxPerPage = 0 \/ nbResults = 0
    THEN [SetLastPage(pager, 0) EXCEPT
             !.offset = 0,
             !.limit  = IF pager.maxPerPage # 0 THEN pager.maxPerPage ELSE NoLimit]
    ELSE [SetLastPage(pager, CeilDiv(nbResults, pager.maxPerPage)) EXCEPT
             !.offset = (pager.page - 1) * pager.maxPerPage,
             !.limit  = pager.maxPerPage]

(***************************************************************************)
(* OrmPagerExtension::visitDatasource for a grid whose configuration has   *)
(* options.toolbarOptions.pagination.onePage = onePage and                 *)
(* ...pageSize.default_per_page = perPageLimit (server mode, toolbar not   *)
(* hidden, no adjusted count), for a request of page with perPage rows.    *)
(***************************************************************************)
VisitDatasource(onePage, perPageLimit, page, perPage, nbResults) ==
    LET sized ==
          IF onePage /\ perPageLimit = 0
          THEN SetMaxPerPage(SetPage(NewPager, 0), 0)
          ELSE SetMaxPerPage(SetPage(NewPager, IF onePage THEN 0 ELSE page), perPage)
    IN  PagerInit(sized, nbResults)

\* Which rows, numbered 1..nbResults in query order, the query returns.
RowsReturned(pager, nbResults) ==
    { k \in 1..nbResults : /\ k > pager.offset
                           /\ pager.limit # NoLimit => k <= pager.offset + pager.limit }

=============================================================================

----------------------------- MODULE Pagination -----------------------------
(***************************************************************************)
(* The toolbar's pagination, drawn from the collection's state             *)
(* (datagrid/pagination.js with its handles, pagination-input.js with its  *)
(* field): which pages the user can ask for, and which page each handle    *)
(* gets.  Indices are 0-based inside and firstPage-based outside.          *)
(***************************************************************************)
EXTENDS PageState

\* Backbone.PageableCollection in server mode.
HasPrevious(s) == s.currentPage > FirstPage
HasNext(s)     == s.currentPage < s.lastPage

\* makeHandles: labels of the numbered handles for a windowSize; the field has
\* windowSize 0 and none.
\* (A definition named for a mistake is the mutant of the one after it.)
WindowCutAtLastIndex(s, windowSize) ==
    LET lastPage    == (IF s.lastPage \in {0, Unknown} THEN FirstPage ELSE s.lastPage) - 1
        windowStart == ((s.currentPage - 1) \div windowSize) * windowSize
    IN  IF windowSize = 0 THEN {}
        ELSE { i + 1 : i \in { j \in windowStart..(windowStart + windowSize - 1) : j < lastPage } }

Window(s, windowSize) ==
    LET lastPage    == (IF s.lastPage \in {0, Unknown} THEN FirstPage ELSE s.lastPage) - 1
        windowStart == ((s.currentPage - 1) \div windowSize) * windowSize
    IN  IF windowSize = 0 THEN {}
        ELSE { i + 1 : i \in { j \in windowStart..(windowStart + windowSize - 1) : j <= lastPage } }

\* onChangePage: the page a click on a handle gets.
PageOfLabel(label) == (label - FirstPage) + 1

Gets(s, windowSize) ==
    { PageOfLabel(label) : label \in Window(s, windowSize) }
    \cup { p \in {s.currentPage - 1} : HasPrevious(s) }
    \cup { p \in {s.currentPage + 1} : HasNext(s) }

\* onChangePageByInput for a number; the page it gets if it is another one.
PageOfInput(s, n) ==
    IF n < FirstPage THEN FirstPage
    ELSE IF s.lastPage <= n THEN s.lastPage
    ELSE n

\* pagination.render and page-size.render: nothing can be clicked without
\* records, or before the totals are known.
Disabled(s, enabled) == ~enabled \/ s.totalRecords \in {Unknown, 0}

=============================================================================

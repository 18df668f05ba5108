----------------------------- MODULE PageState -----------------------------
(***************************************************************************)
(* The paging part of PageableCollection's state object and its            *)
(* _checkState method (Resources/public/js/pageable-collection.js), for a  *)
(* collection in "server" mode.  firstPage keeps the default of            *)
(* Backbone.PageableCollection: neither the grid's metadata nor any code   *)
(* of the bundle sets it.                                                  *)
(***************************************************************************)
EXTENDS Pager

CONSTANT OnePage      \* toolbarOptions.pagination.onePage

ASSUME OnePageAssumption == OnePage \in BOOLEAN

FirstPage == 1

Unknown == -1     \* null: the prototype's state, before the first answer

PageStates ==
    [totalRecords : Nat \cup {Unknown}, pageSize : Nat, currentPage : Nat,
     totalPages : Nat \cup {Unknown}, lastPage : Nat \cup {Unknown}]

\* What _checkState reads before it assigns anything.
SizeOf(s)  == IF OnePage THEN s.totalRecords ELSE s.pageSize
AskedOf(s) == IF OnePage THEN FirstPage ELSE s.currentPage

\* The local variable totalPages of _checkState.  With pageSize 0 the
\* expression `state.totalPages = pageSize === 0 ? 1 : totalPages = ...`
\* leaves the local at the value the state had on entry.
PagesOf(s) == IF SizeOf(s) = 0 THEN s.totalPages
              ELSE CeilDiv(s.totalRecords, SizeOf(s))

\* The page _checkState settles on: clamped to the last page, 1 when one
\* page shows everything, the first page when there are no records.
PageOfEmptyUnhandled(s) ==
    IF SizeOf(s) = 0 THEN 1
    ELSE IF AskedOf(s) > PagesOf(s) THEN PagesOf(s) ELSE AskedOf(s)

PageOf(s) ==
    IF s.totalRecords = 0 THEN FirstPage
    ELSE IF SizeOf(s) = 0 THEN 1
    ELSE IF AskedOf(s) > PagesOf(s) THEN PagesOf(s) ELSE AskedOf(s)

CheckState(s) ==
    IF s.totalRecords = Unknown THEN s
    ELSE [totalRecords |-> s.totalRecords,
          pageSize     |-> SizeOf(s),
          currentPage  |-> PageOf(s),
          totalPages   |-> IF SizeOf(s) = 0 THEN 1 ELSE PagesOf(s),
          lastPage     |-> PagesOf(s)]

\* _checkState ends by raising a RangeError when the page it settled on is
\* outside 1..totalPages, or is not the first one when there are no pages.
RaisesRangeError(s) ==
    /\ s.totalRecords # Unknown
    /\ IF PagesOf(s) > 0
       THEN PageOf(s) < FirstPage \/ PageOf(s) > PagesOf(s)
       ELSE PageOf(s) # FirstPage

=============================================================================

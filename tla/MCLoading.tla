----------------------------- MODULE MCLoading ------------------------------
(***************************************************************************)
(* What comes to the page, in six parts that share no state: the grid with *)
(* its builders, the table or board that is selected, the pages of the     *)
(* grid under its mask, those of the board, the head that follows the      *)
(* page, and the next cell to edit.  A behaviour takes the steps of one    *)
(* part: interleaving them would show nothing new.                         *)
(***************************************************************************)
EXTENDS Appearance, Sequences, FiniteSets, TLC

CONSTANTS c1, c2, c3, c4, c5, c6,   \* records; c1 to c3 are columns too
          a1, a2, a3,               \* boards
          group, status, name,      \* columns the boards group by, and another
          PageSize, MaxPage, MaxChanges, MaxFailures,
          GridRecords, RowsPerPage, LastColumn,  \* of the grid whose cells are edited
          MaxEditable,                           \* bound on the cells that can be
          Ids, Offered, MaxRecords, MaxAjax      \* of GridPaging

VARIABLES part,
          server, models, shown, total, infinite, loadingMore, requests, mask,
          changes, failures, calm,
          loaded, processed, grid, started, finished, visible, plugins, broken,
          editable, source, asked, raised,
          mobile, gridShown, layout, enabled, connected, mode, columns, clone, update,
          page, table, seen, dropdown, hooked, rows, looked, widths,
          renderable, editableCells, recordsLeft, totalRecords, currentPage, pageShown,
          current, from, method, fetching, lock, emptyPage, straight,
          gridState, gridRows, gridRequests, gridTotal, requestsCount, masked, widgets, ajax

loadingVars == <<server, models, shown, total, infinite, loadingMore, requests, mask,
                 changes, failures, calm>>
startVars   == <<loaded, processed, grid, started, finished, visible, plugins, broken,
                 editable, source, asked, raised>>
headerVars  == <<mobile, gridShown, layout, enabled, connected, mode, columns, clone, update,
                 page, table, seen, dropdown, hooked, rows, looked, widths>>
cellsVars   == <<renderable, editableCells, recordsLeft, totalRecords, currentPage, pageShown,
                 current, from, method, fetching, lock, emptyPage, straight>>
pagingVars  == <<gridState, gridRows, gridRequests, gridTotal, requestsCount, masked, widgets,
                 ajax>>
mcVars      == <<part, loadingVars, startVars, headerVars, cellsVars, pagingVars, vars>>

GroupColumns == a1 :> group @@ a2 :> status

\* Three pages, the last of them not full.
Loading == INSTANCE BoardLoading WITH
    Stored <- <<c1, c2, c3, c4, c5>>, Newcomer <- c6

Start == INSTANCE GridStart WITH
    Columns <- {c1, c2, c3},
    Meta    <- (c1 :> [wanted |-> "unset", editor |-> "default"]
                @@ c2 :> [wanted |-> "yes", editor |-> "none"]
                @@ c3 :> [wanted |-> "no", editor |-> "own"]),
    Filters <- TRUE

Header == INSTANCE FloatingHeader WITH Far <- 2, shown <- gridShown

Iterator == INSTANCE CellIterator WITH
    Records <- GridRecords, PageSize <- RowsPerPage, Columns <- LastColumn,
    visible <- renderable, editable <- editableCells, records <- recordsLeft,
    total <- totalRecords, page <- currentPage, shown <- pageShown, raised <- emptyPage

Paging == INSTANCE GridPaging WITH
    OnePage <- FALSE, PageSizes <- Offered, DefaultPageSize <- 1, MaxTotal <- MaxRecords,
    state <- gridState, rows <- gridRows, requests <- gridRequests, total <- gridTotal,
    loading <- masked

ASSUME LoadingAssumption ==
    /\ AppearanceAssumption
    /\ Loading!BoardLoadingAssumption /\ Start!GridStartAssumption
    /\ Header!FloatingHeaderAssumption /\ Iterator!CellIteratorAssumption
    /\ Paging!GridPagingAssumption

MCInit ==
    /\ part \in {"loading", "start", "header", "cells", "appearance", "paging"}
    /\ Loading!Init /\ Start!Init /\ Header!Init /\ Iterator!Init /\ Paging!Init /\ Init
    /\ part # "header" => mobile /\ rows = "less"
    /\ part # "start" => asked = "grid"
    /\ part = "cells" => Cardinality(editableCells) <= MaxEditable
    /\ part # "cells" => editableCells = {<<1, 1>>} /\ renderable = {1}
    /\ part # "paging" => gridTotal = 0 /\ gridRows.page = 1
    /\ part # "appearance" => state = [look |-> "grid", size |-> InitialSize, sorters |-> {}]

InLoading    == UNCHANGED <<part, startVars, headerVars, cellsVars, pagingVars, vars>>
InStart      == UNCHANGED <<part, loadingVars, headerVars, cellsVars, pagingVars, vars>>
InHeader     == UNCHANGED <<part, loadingVars, startVars, cellsVars, pagingVars, vars>>
InCells      == UNCHANGED <<part, loadingVars, startVars, headerVars, pagingVars, vars>>
InPaging     == UNCHANGED <<part, loadingVars, startVars, headerVars, cellsVars, vars>>
InAppearance == UNCHANGED <<part, loadingVars, startVars, headerVars, cellsVars, pagingVars>>

MCNext ==
    \/ part = "loading" /\ Loading!Next /\ InLoading
    \/ part = "start" /\ Start!Next /\ InStart
    \/ part = "header" /\ Header!Next /\ InHeader
    \/ part = "cells" /\ Iterator!Next /\ InCells
    \/ part = "paging" /\ Paging!Next /\ InPaging
    \/ part = "appearance" /\ Next /\ InAppearance

\* The user who wants to see everything scrolls on, and the server answers.
\* Modules are loaded and promises settled in the end, one way or the other.
\* The browser's timers and events come, and the iterator's promises resolve.  jQuery
\* completes every request of the grid.  One condition serves the parts, as a
\* behaviour is one part's.
FairStep ==
    \/ part = "loading" /\ Loading!ScrollDown /\ InLoading
    \/ part = "start" /\ Start!Next /\ InStart
    \/ part = "header" /\ Header!CheckLayout /\ InHeader
    \/ part = "cells" /\ (Iterator!Continue \/ Iterator!Enter \/ Iterator!Answer) /\ InCells
    \/ part = "paging" /\ Paging!Completion /\ InPaging

Fairness ==
    /\ WF_mcVars(FairStep)
    /\ WF_mcVars(part = "loading" /\ (\E r \in requests : Loading!Read(r) \/ Loading!Answer(r))
                                /\ InLoading)

MCSpec == MCInit /\ [][MCNext]_mcVars /\ Fairness

-----------------------------------------------------------------------------
\* Who scrolls on sees every record; stated in BoardLoading.
EverythingComes == part = "loading" => Loading!EverythingComes

\* The grid is shown in the end; stated in GridStart.
GridAppears == part = "start" => Start!GridAppears

\* The head floats where it would not be seen; stated in FloatingHeader.
HeadFollows == part = "header" => Header!HeadFollows

\* The mask goes when all is answered; stated in GridPaging.
MaskEventuallyHidden == part = "paging" => Paging!MaskEventuallyHidden

\* The next cell to edit is none further on; stated in CellIterator.
EditsTheNext == Iterator!EditsTheNext

\* The user is not locked out for ever; stated in CellIterator.
LockIsReleased == Iterator!LockIsReleased

=============================================================================

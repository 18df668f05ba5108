------------------------------ MODULE MCLayout ------------------------------
(***************************************************************************)
(* How the records are laid out, in five parts that share no state: the    *)
(* cards of the board, the columns of the table, their sorting, the views  *)
(* such settings are saved in, and the page they come back to.  A          *)
(* behaviour takes the steps of one part: interleaving them would show     *)
(* nothing new.                                                            *)
(***************************************************************************)
EXTENDS PageCache, Sequences, FiniteSets, TLC

CONSTANTS Loaded, BoardColumns, Ids, Initially, MaxDrops,              \* of BoardMoves
          Config, Managed, Required, Searches, ColumnViews,            \* of ColumnManager
          SortColumns, ToggleColumns, Defaults, SorterViews, MaxSorts,  \* of Sorting
          ViewNames, Rest, ViewSorters, MaxObjects, Blank, MaxSaves     \* of ViewState

CONSTANTS c1, c2, c3,               \* cards
          k1, k2,                   \* columns of the board
          va, vb, vc,               \* values of the property it groups by
          checkboxes, name, m1, m2, m3, actions,   \* columns of the table
          p, q, x, y                \* settings

VARIABLES part,
          order, group, saved, status, drops, sends, refresh, dropped, blurred,
          table, managed, columnOrder, renderable, disabled, columns, packed, search, onlyShown,
          setup, sorters, direction, current, sorted, requests, fresh, smooth,
          content, settings, models, marked, stored, saves, orderly

movesVars   == <<order, group, saved, status, drops, sends, refresh, dropped, blurred>>
columnsVars == <<table, managed, columnOrder, renderable, disabled, columns, packed, search,
                 onlyShown>>
sortingVars == <<setup, sorters, direction, current, sorted, requests, fresh, smooth>>
viewsVars   == <<content, settings, models, marked, stored, saves, orderly>>

\* Three cards over two columns, the first of which has two values.
Moves == INSTANCE BoardMoves WITH Columns <- BoardColumns

Cards       == <<c1, c2, c3>>
TwoValues   == k1 :> <<va, vb>> @@ k2 :> <<vc>>
OneCardEach == c1 :> va @@ c2 :> vb @@ c3 :> vc

\* One column that is not managed among three that are, one of them required; a
\* view that knows them all and one from before a column was added.
Manager == INSTANCE ColumnManager WITH
    SelectColumn <- checkboxes, ActionsColumn <- actions, Views <- ColumnViews,
    order <- columnOrder, state <- columns, url <- packed

FourColumns   == <<m1, name, m2, m3>>
Shown(is, at) == [renderable |-> is, order |-> at]
TwoViews      == {m1 :> Shown(FALSE, 3) @@ m2 :> Shown(FALSE, 0) @@ m3 :> Shown(TRUE, 1),
                  m2 :> Shown(FALSE, 0) @@ m3 :> Shown(FALSE, 1)}

\* Views with no sorter, one and two.
Sorts == INSTANCE Sorting WITH
    Columns <- SortColumns, Views <- SorterViews, MaxRequests <- MaxSorts, rows <- sorted

TwoColumns  == <<m1, m2>>
SecondFirst == << <<m2, "descending">> >>
SavedOrders == {<<>>, << <<m1, "ascending">> >>, << <<m2, "ascending">>, <<m1, "descending">> >>}

\* Two saved views beside the system view, two requests; without multiple
\* sorting, which SharedSorters.cfg has.
Saves == INSTANCE ViewState WITH
    Names <- ViewNames, Sorters <- ViewSorters, Multiple <- FALSE, MaxRequests <- MaxSaves,
    state <- settings, requests <- saves

ASSUME LayoutAssumption ==
    /\ PageCacheAssumption /\ Moves!BoardMovesAssumption
    /\ Manager!ColumnManagerAssumption /\ Sorts!SortingAssumption /\ Saves!ViewStateAssumption

MCInit ==
    /\ part \in {"moves", "columns", "sorting", "views", "page"}
    /\ Moves!Init
    /\ Manager!Init
    /\ Sorts!Init
    /\ part # "sorting" => setup = [multiple |-> TRUE, button |-> TRUE]
    /\ Saves!Init
    /\ part # "views" => /\ stored = (All :> [rest |-> p, type |-> "grid", sorters |-> x])
                         /\ settings.view = All /\ settings.given.rest = p /\ settings.given.type = "grid" /\ ~marked
    /\ Init
    /\ part # "page" => default = All /\ url = None /\ newest = 1

MCNext ==
    \/ /\ part = "moves" /\ Moves!Next
       /\ UNCHANGED <<part, columnsVars, sortingVars, viewsVars, vars>>
    \/ /\ part = "columns" /\ Manager!Next
       /\ UNCHANGED <<part, movesVars, sortingVars, viewsVars, vars>>
    \/ /\ part = "sorting" /\ Sorts!Next
       /\ UNCHANGED <<part, movesVars, columnsVars, viewsVars, vars>>
    \/ /\ part = "views" /\ Saves!Next
       /\ UNCHANGED <<part, movesVars, columnsVars, sortingVars, vars>>
    \/ /\ part = "page" /\ Next
       /\ UNCHANGED <<part, movesVars, columnsVars, sortingVars, viewsVars>>

MCSpec ==
    MCInit /\ [][MCNext]_<<part, movesVars, columnsVars, sortingVars, viewsVars, vars>>

\* Sorters are not changed in place here: objects with the same content are alike.
Alike(r) == [r EXCEPT !.given = Saves!Value(@, content)]

Symmetry == Permutations({p, q}) \cup Permutations({x, y})

View ==
    <<part, movesVars, columnsVars, sortingVars, vars,
      IF part = "views"
      THEN <<settings.view, Saves!Value(settings.given, content),
             [v \in DOMAIN models |-> Saves!Value(models[v], content)], marked, stored, orderly,
             {<<Alike(r), Cardinality({t \in saves : Alike(t) = Alike(r)})>> : r \in saves}>>
      ELSE viewsVars>>

\* Once requests for views overlapped or an answer was lost, nothing is said of
\* the views any more but what a reset brings, which does not depend on it.
Followed == part = "views" => orderly

-----------------------------------------------------------------------------
\* What is settled on the board is what the server has; stated in BoardMoves.
SettledIsSaved == Moves!SettledIsSaved

\* A card is shown where it was dropped; stated in BoardMoves.
LandsWhereDropped == Moves!LandsWhereDropped

\* A refused move is undone; stated in BoardMoves.
FailedMoveIsUndone == Moves!FailedMoveIsUndone

\* Table, manager and state agree on the columns; stated in ColumnManager.
CopiesAgree == Manager!CopiesAgree

\* Headers, dropdown and rows agree on the sorting; stated in Sorting.
SortedAsShown == Sorts!SortedAsShown

\* The settings are marked as edited when they are; stated in ViewState.
EditedIsMarked == Saves!EditedIsMarked

\* A view brings the settings it was saved with; stated in ViewState.
ViewsComeBack == Saves!ViewsComeBack

=============================================================================

----------------------------- MODULE Appearance -----------------------------
(***************************************************************************)
(* The grid's appearance: the table or one of its boards.  The component   *)
(* of the grid (datagrid-component.js) keeps the one that is selected and  *)
(* the board's plugin; the collection keeps the one it asks the server     *)
(* for; the plugin (board-appearance-plugin.js) changes the collection's   *)
(* state when it is enabled and puts it back when it is disabled.  Saved   *)
(* views and the URL change the collection's side, the switch in the       *)
(* toolbar the component's side, and each follows the other through the    *)
(* updateState event, in the middle of what the other does.                *)
(*                                                                         *)
(* An appearance is "grid" (without an id), a board's id, or "undefined":  *)
(* that of a view that was saved without one.  The plugin manager is       *)
(* OroUIBundle's: to remove a plugin is to disable it if it is enabled,    *)
(* and to forget it.                                                       *)
(***************************************************************************)
EXTENDS Naturals

CONSTANTS
    Boards,          \* ids of the configured boards
    Lost,            \* ids in saved views of boards that are configured no more
    Columns,         \* names of columns
    GroupOf,         \* [Boards -> Columns]: group_by of each board
    Sizes,           \* page sizes of the toolbar; 0 is "All"
    InitialSize,     \* initialState.pageSize
    BoardSize,       \* defaultPagesize of the boards
    InitialSorters,  \* initialState.sorters, as a set of columns
    Sortable         \* columns that the table can be sorted by

Sorters == SUBSET Columns

AppearanceAssumption ==
    /\ {"grid", "undefined"} \cap (Boards \cup Lost) = {} /\ Boards \cap Lost = {}
    /\ GroupOf \in [Boards -> Columns]
    /\ Sizes \subseteq Nat
    /\ {InitialSize, BoardSize} \subseteq Nat
    /\ InitialSorters \in Sorters
    /\ Sortable \subseteq Columns

VARIABLES
    ready,     \* the builders are ready and the grid is shown
    selected,   \* currentApperanceKey with currentAppearanceId
    plugin,    \* the board's plugin (lastAppearancePlugin), or NoPlugin
    state,     \* appearance, page size and sorters of the collection
    sortable,  \* columns that are sortable now
    left,      \* boards with a view on the page that no plugin has any more
    entry      \* page size and sorters on entering a board, while still of use

vars == <<ready, selected, plugin, state, sortable, left, entry>>

NoPlugin == [board |-> "grid", oldSize |-> 0, oldSorting |-> {}, restore |-> {}]
NoEntry  == [size |-> 0, sorters |-> {}]

Appearances == Boards \cup {"grid"}
Looks       == Appearances \cup Lost \cup {"undefined"}

\* Everything a selection changes.
Now == [selected |-> selected, plugin |-> plugin, state |-> state, sortable |-> sortable,
        left |-> left]

-----------------------------------------------------------------------------
\* BoardAppearancePlugin.enable: no sorting by the column the board groups by;
\* the settings are kept for disable, if the collection is yet to turn to it.
Enable(a, b) ==
    LET turns   == a.state.look # b
        grouped == GroupOf[b] \in a.state.sorters
        rest    == a.state.sorters \ {GroupOf[b]}
    IN  [a EXCEPT
           !.sortable = @ \ {GroupOf[b]},
           !.plugin = [board |-> b, restore |-> a.sortable \cap {GroupOf[b]},
                       oldSize |-> IF turns THEN a.state.size ELSE 0,
                       oldSorting |-> IF turns /\ grouped THEN a.state.sorters ELSE {}],
           !.state = IF ~turns THEN @
                     ELSE [look |-> b, size |-> BoardSize,
                           sorters |-> IF grouped /\ rest = {} THEN InitialSorters ELSE rest]]

\* BoardAppearancePlugin.disable; 0 and an absent oldPageSize are alike (||).
Disable(a) ==
    [a EXCEPT
       !.sortable = @ \cup a.plugin.restore,
       !.plugin = NoPlugin,
       !.state = IF @.look = "grid" THEN @
                 ELSE [look |-> "grid",
                       size |-> IF a.plugin.oldSize # 0 THEN a.plugin.oldSize ELSE InitialSize,
                       sorters |-> IF a.plugin.oldSorting # {} THEN a.plugin.oldSorting
                                   ELSE @.sorters]]

\* DataGridComponent.selectAppearance.  The updateState that enable and disable
\* cause finds the appearance selected already; but not from one board to another:
\* there disable turns to "grid", for which the handler selects the table, and
\* enable turns to the board, for which it selects the board once more.  That
\* forgets the plugin, which is not enabled yet, and enables another: it finds
\* nothing to turn or keep, and the first one's view is left.
SelectWithoutRemove(a, b) ==
    IF a.selected = b THEN a
    ELSE IF b = "grid" THEN [a EXCEPT !.selected = b] ELSE [Enable(a, b) EXCEPT !.selected = b]

Select(a, b) ==
    LET working == a.plugin.board # "grid"
        table   == IF working THEN Disable(a) ELSE a
    IN  IF a.selected = b THEN a
        ELSE IF b = "grid" THEN [table EXCEPT !.selected = b]
        ELSE IF working /\ a.state.look # "grid"
        THEN [Enable(Enable(table, b), b) EXCEPT !.selected = b, !.left = @ \cup {b}]
        ELSE [Enable(table, b) EXCEPT !.selected = b]

\* selectAppearanceById: a view without an appearance has the table's id; an id that
\* is not found changes nothing, and raises its error later.
ById(a, look) ==
    IF look \in Lost THEN a ELSE Select(a, IF look \in Boards THEN look ELSE "grid")

Becomes(a) ==
    /\ selected' = a.selected
    /\ plugin' = a.plugin
    /\ state' = a.state
    /\ sortable' = a.sortable
    /\ left' = a.left

-----------------------------------------------------------------------------
\* With the id of a board that is lost the server answers with an error
\* (NotFoundBoardException), and no page comes.
Init ==
    /\ ready = FALSE
    /\ selected = "grid"
    /\ plugin = NoPlugin
    /\ state \in [look : Appearances, size : Sizes \cup {InitialSize}, sorters : Sorters]
    /\ sortable = Sortable
    /\ left = {}
    /\ entry = NoEntry

\* The builders are ready: the appearance the page came with is selected.
Ready ==
    /\ ~ready
    /\ ready' = TRUE
    /\ Becomes(ById(Now, state.look))
    /\ entry' = NoEntry

\* updateState with whatever came with it, before the builders are ready too:
\* a view replaces the page size with the initial one (changeView).
Update(s) ==
    /\ Becomes(ById([Now EXCEPT !.state = s], s.look))
    /\ entry' = NoEntry
    /\ UNCHANGED ready

ApplyView(look, sorters) ==
    /\ ready
    /\ Update([look |-> look, size |-> InitialSize, sorters |-> sorters])

\* The switch: SelectDataAppearanceAction.execute, Grid.changeAppearance.
Switch(b) ==
    /\ ready
    /\ selected # b
    /\ Becomes(Select(Now, b))
    /\ entry' = IF selected = "grid" THEN [size |-> state.size, sorters |-> state.sorters]
                ELSE NoEntry
    /\ UNCHANGED ready

\* The toolbar: the page size is hidden from the boards.
ChangePageSize(n) ==
    /\ ready
    /\ selected = "grid"
    /\ Update([state EXCEPT !.size = n])

ChangeSorting(sorters) ==
    /\ ready
    /\ sorters # state.sorters
    /\ sorters \ state.sorters \subseteq sortable
    /\ Update([state EXCEPT !.sorters = sorters])

Next ==
    \/ ~ready /\ Update(state)
    \/ Ready
    \/ \E look \in Looks, sorters \in Sorters : ApplyView(look, sorters)
    \/ \E b \in Appearances : Switch(b)
    \/ \E n \in Sizes : ChangePageSize(n)
    \/ \E sorters \in Sorters : ChangeSorting(sorters)

Spec == Init /\ [][Next]_vars

-----------------------------------------------------------------------------
TypeOK ==
    /\ ready \in BOOLEAN
    /\ selected \in Appearances
    /\ plugin \in [board : Appearances, oldSize : Nat, oldSorting : Sorters, restore : Sorters]
    /\ state \in [look : Looks, size : Nat, sorters : Sorters]
    /\ sortable \subseteq Columns
    /\ left \subseteq Boards

\* What is selected, the plugin and what the server is asked for are one
\* appearance, in whatever order views, the switch and the builders select the
\* table and the boards, unless a view asks for a board that is no more; and
\* without a board the table's columns are as they were before, but for those the
\* boards grouped by that were entered from another board (selectAppearance, the
\* updateState handler of build, enable and disable).
\* The user who switches from the table to a board and back has the page size and
\* the sorting of before, if nothing else came between; the page size "All" is 0
\* and is not put back.
OneAppearance ==
    /\ [](/\ plugin.board = selected
          /\ ready /\ state.look \notin Lost
                => selected = IF state.look \in Boards THEN state.look ELSE "grid"
          /\ plugin.board = "grid" => sortable = Sortable \ {GroupOf[b] : b \in left})
    /\ [][(Switch("grid") /\ entry # NoEntry /\ entry.size # 0)
             => state'.size = entry.size /\ state'.sorters = entry.sorters]_vars

=============================================================================

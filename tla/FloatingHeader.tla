---------------------------- MODULE FloatingHeader ----------------------------
(***************************************************************************)
(* The head of the table stays in sight while the page or the table is     *)
(* scrolled (floating-header-plugin.js): it is taken out of the table, and *)
(* a copy that is not seen keeps the widths of its columns.  On mobile     *)
(* devices the plugin is enabled with the grid, elsewhere by the layout,   *)
(* when the table fills the screen (fullscreen-plugin.js), and then it     *)
(* shows a scrollbar of its own; a mobile device's takes no room.  What    *)
(* its own events do not tell it, it looks up every 400 ms (checkLayout).  *)
(***************************************************************************)
EXTENDS Naturals

CONSTANT Far    \* how far the page can be scrolled: 0 shows the table's head

VARIABLES
    mobile,     \* a mobile device
    shown,      \* grid.shown
    layout,     \* grid.layout
    enabled, connected,   \* of the plugin
    mode,       \* currentFloatTheadMode
    columns,    \* the columns of the table: changes with every change of them
    clone,      \* columns of the copy of the head, or none
    update,     \* the deferred content:update is to come
    page,       \* scrolling of the page
    table,      \* scrollTop of the table in its container
    seen,       \* where they were when last looked at: _lastClientRect, _lastScrollTop
    dropdown,   \* isHeaderDropdownVisible
    hooked,     \* the plugin's listeners are on the table
    rows,       \* how far they fill the container
    looked,     \* the same, when last looked at: with more than fits, scrollVisible
    widths      \* what the widths of the head's cells were set for

vars == <<mobile, shown, layout, enabled, connected, mode, columns, clone, update,
          page, table, seen, dropdown, hooked, rows, looked, widths>>

Layouts  == {"fullscreen", "scroll", "default"}
Floating == {"relative", "fixed"}
NoClone  == 2
Fills    == {"less", "all", "more"}

FloatingHeaderAssumption == Far \in Nat \ {0}

Init ==
    /\ mobile \in BOOLEAN
    /\ shown = FALSE /\ layout = "undefined"
    /\ enabled = mobile /\ connected = FALSE
    /\ mode = "undefined"
    /\ columns = 0 /\ clone = NoClone /\ update = FALSE
    /\ page = 0 /\ table = 0 /\ seen = [page |-> 0, table |-> 0]
    /\ dropdown = FALSE /\ hooked = FALSE
    /\ rows \in Fills /\ looked = "less" /\ widths = <<>>

-----------------------------------------------------------------------------
\* setFloatTheadMode(m), the copy being what it is in c.
SetMode(m, c) ==
    /\ mode' = m
    /\ clone' = IF m = mode THEN c
                ELSE IF m = "default" THEN NoClone
                ELSE IF c = NoClone THEN columns' ELSE c

ModeWanted(far, whole, open) ==
    IF far > 0 \/ whole THEN IF open THEN "relative" ELSE "fixed" ELSE "default"

\* fixHeaderCellWidth, before it selects the mode.
Widths == <<columns, looked = "more">>

\* enableOtherScroll's setup, which sets the widths again when the scrollbar
\* comes or goes.
Rescroll(fixed) ==
    /\ looked' = IF mobile THEN looked ELSE rows'
    /\ widths' = IF fixed \/ (looked' = "more") # (looked = "more") THEN Widths' ELSE widths

\* selectMode, after the widths are fixed or not; a plugin that is disabled has
\* no other scroll.
SelectMode(c, fixed) ==
    /\ SetMode(ModeWanted(page, layout' = "fullscreen", dropdown'), c)
    /\ seen' = [page |-> page,
                table |-> IF mode' = "relative" THEN table ELSE seen.table]
    /\ IF connected' THEN Rescroll(fixed) ELSE UNCHANGED <<looked, widths>>

\* enable, of a grid that is rendered.
Connect ==
    /\ enabled' = TRUE /\ connected' = TRUE /\ hooked' = TRUE
    /\ SelectMode(clone, TRUE)

\* disableOtherScroll, and the styles are removed.
Unscroll == looked' = "less" /\ widths' = <<>>

\* disable: the listeners that are on the table are not removed.
Disconnect ==
    /\ enabled' = FALSE /\ connected' = FALSE
    /\ SetMode("default", clone)
    /\ Unscroll
    /\ UNCHANGED <<seen, hooked>>

\* setLayout
SetLayout(l) ==
    /\ layout' = l
    /\ IF l # layout /\ l = "fullscreen" /\ ~enabled THEN Connect
       ELSE IF l # layout /\ l # "fullscreen" /\ enabled THEN Disconnect
       ELSE UNCHANGED <<enabled, connected, mode, clone, seen, hooked, looked, widths>>

\* The grid is shown: onGridShown, or updateLayout.
Show ==
    /\ ~shown
    /\ shown' = TRUE
    /\ UNCHANGED <<mobile, columns, update, page, table, dropdown, rows>>
    /\ IF mobile THEN UNCHANGED layout /\ Connect
       ELSE \E l \in Layouts : SetLayout(l)

\* layout:reposition: the preferred layout may have changed.
Reposition(l) ==
    /\ shown /\ ~mobile
    /\ l # layout
    /\ UNCHANGED <<mobile, shown, columns, update, page, table, dropdown, rows>>
    /\ SetLayout(l)

ScrollPage(p) ==
    /\ page # p
    /\ layout # "fullscreen"     \* disablePageScroll
    /\ page' = p
    /\ UNCHANGED <<mobile, shown, layout, enabled, connected, mode, columns, clone, update,
                   table, seen, dropdown, hooked, rows, looked, widths>>

ScrollTable(t) ==
    /\ table # t
    /\ layout = "fullscreen"
    /\ table' = t
    /\ UNCHANGED <<mobile, shown, layout, enabled, connected, mode, columns, clone, update,
                   page, seen, dropdown, hooked, rows, looked, widths>>

MovedInItsContainer ==
    \/ mode = "default" /\ layout = "fullscreen" /\ table # 0
    \/ mode = "relative" /\ table # seen.table

\* checkLayout asks for a selection when the table has been scrolled, or moved
\* with the page.
Moved ==
    \/ mode = "default" /\ layout = "fullscreen" /\ table # 0
    \/ mode = "relative" /\ table # seen.table
    \/ page # seen.page

\* The rows may go below the bottom of the container, which then stays.
Resized == ~mobile /\ (rows = "less") # (looked = "less")

\* checkLayout, upon an event of the page or every 400 ms.
CheckLayout ==
    /\ connected
    /\ UNCHANGED <<mobile, shown, layout, enabled, connected, columns, update,
                   page, table, dropdown, hooked, rows>>
    /\ \/ /\ Moved \/ (Resized /\ "more" \in {rows, looked})
          /\ SelectMode(clone, FALSE)
       \/ /\ ~Moved
          /\ "more" \notin {rows, looked} \/ ~Resized
          /\ looked' = IF Resized THEN rows ELSE looked
          /\ UNCHANGED <<mode, clone, seen, widths>>

\* Rows come, go or grow.  After a request the grid tells (_afterRequest), but
\* not when a row is removed.
ChangeRows(fill) ==
    /\ shown
    /\ rows # fill
    /\ rows' = fill
    /\ \E told \in BOOLEAN : update' = (update \/ told)
    /\ UNCHANGED <<mobile, shown, layout, enabled, connected, mode, columns, clone,
                   page, table, seen, dropdown, hooked, looked, widths>>

\* supportDropdowns: a click opens a dropdown of the head.
OpenDropdown ==
    /\ hooked /\ ~dropdown
    /\ dropdown' = TRUE
    /\ UNCHANGED <<mobile, shown, layout, enabled, connected, mode, columns, clone, update,
                   page, table, seen, hooked, rows, looked, widths>>

\* It is hidden, by the user or by scrolling.
HideDropdown ==
    /\ dropdown
    /\ dropdown' = FALSE
    /\ UNCHANGED <<mobile, shown, layout, enabled, connected, columns, update, page, table, hooked,
                   rows>>
    /\ SelectMode(clone, FALSE)

\* Columns are put in another order: content:update is deferred.
Reorder ==
    /\ shown /\ ~update
    /\ columns' = 1 - columns
    /\ update' = TRUE
    /\ UNCHANGED <<mobile, shown, layout, enabled, connected, mode, clone,
                   page, table, seen, dropdown, hooked, rows, looked, widths>>

\* onGridContentUpdate, in the mode there is.
ContentUpdate ==
    /\ update
    /\ update' = FALSE
    /\ UNCHANGED <<mobile, shown, layout, enabled, connected, columns, page, table, dropdown, hooked,
                   rows>>
    /\ IF connected THEN SelectMode(columns, TRUE)
       ELSE UNCHANGED <<mode, clone, seen, looked, widths>>

Next ==
    \/ Show
    \/ \E l \in Layouts : Reposition(l)
    \/ \E p \in 0..Far : ScrollPage(p)
    \/ \E t \in {0, 1} : ScrollTable(t)
    \/ CheckLayout
    \/ \E fill \in Fills : ChangeRows(fill)
    \/ OpenDropdown
    \/ HideDropdown
    \/ Reorder
    \/ ContentUpdate

Spec == Init /\ [][Next]_vars /\ WF_vars(CheckLayout)

-----------------------------------------------------------------------------
\* The head follows the page: while the plugin is at work the head comes, again
\* and again, to float if it would not be seen, and to be in the table if not;
\* its cells have the widths of the columns there are, unless an update is to
\* come; and there is a scrollbar if the rows need one, unless they fill, or
\* filled, the container exactly.  When the page stands still it stays so
\* (checkLayout, selectMode, fixHeaderCellWidth, enableOtherScroll).
HeadFollows ==
    []<>(connected =>
            /\ mode \in Floating <=> (page > 0 \/ layout = "fullscreen")
            /\ update \/ widths = Widths
            /\ mobile \/ looked = rows \/ {looked, rows} = {"all", "more"})

=============================================================================

----------------------------- MODULE GridStart ------------------------------
(***************************************************************************)
(* How a grid comes to the page (datagrid-component.js): the builders are  *)
(* loaded and prepare the options in any order, the modules the options    *)
(* name are loaded, the grid is built and rendered, the builders are       *)
(* started with it in any order, and only then the appearance of the       *)
(* page's state is selected and the grid is shown.                         *)
(*                                                                         *)
(* Every wait is for a promise somebody else settles.  A module that never *)
(* loads, or a builder that throws, leaves its promise unsettled: those    *)
(* cases are left out by the fairness, and by the columns' behaviour being *)
(* one of the two the builder knows.                                       *)
(***************************************************************************)
CONSTANTS
    Columns,     \* columns of the grid
    Meta,        \* [Columns -> [wanted, editor]]: a column's inline_editing
    Filters      \* the filters' builder is one of the builders

\* wanted: inline_editing.enable of the column; editor: its own view, the one
\* its type has among the default editors, or none.
Wanted  == {"yes", "no", "unset"}
Editors == {"own", "default", "none"}

GridStartAssumption ==
    /\ Meta \in [Columns -> [wanted : Wanted, editor : Editors]]
    /\ Filters \in BOOLEAN

Builders == {"views", "editing", "appearance"} \cup (IF Filters THEN {"filters"} ELSE {})

VARIABLES
    loaded,     \* builders whose module is there
    processed,  \* builders that have settled optionsProcessedPromises
    grid,       \* "none", "modules" (initDataGrid), "rendering", "built"
    started,    \* builders whose init was called
    finished,   \* builders that have settled buildersReadyPromises
    visible,    \* the grid is on the page
    plugins,    \* plugins of the grid
    broken,     \* the optional plugins whose modules could not be loaded
    editable,   \* columns that can be edited inline
    source,     \* where the collection is from: "none", "cache", "page"
    asked,      \* the appearance of the page's state, "unknown" if it is configured no more
    raised      \* selecting it raised an error

vars == <<loaded, processed, grid, started, finished, visible, plugins, broken, editable, source,
          asked, raised>>

TypeOK ==
    /\ finished \subseteq started /\ started \subseteq processed /\ processed \subseteq loaded
    /\ loaded \subseteq Builders
    /\ grid \in {"none", "modules", "rendering", "built"}
    /\ visible \in BOOLEAN
    /\ plugins \subseteq {"editing", "board"}
    /\ broken \subseteq {"editing", "board"}
    /\ editable \subseteq Columns
    /\ source \in {"none", "cache", "page"}
    /\ asked \in {"grid", "board", "unknown"} /\ raised \in BOOLEAN

-----------------------------------------------------------------------------
Init ==
    /\ loaded = {} /\ processed = {} /\ started = {} /\ finished = {}
    /\ grid = "none"
    /\ visible = FALSE
    /\ plugins = {} /\ broken = {} /\ editable = {}
    /\ source = "none"
    /\ asked \in {"grid", "board", "unknown"} /\ raised = FALSE

\* initialize: require([module], ...); a builder without processDatagridOptions
\* has nothing to prepare.
Prepares == {"editing", "appearance"}

Load(b) ==
    /\ b \notin loaded
    /\ loaded' = loaded \cup {b}
    /\ processed' = IF b \in Prepares THEN processed ELSE processed \cup {b}
    /\ UNCHANGED <<grid, started, finished, visible, plugins, broken, editable, source,
                   asked, raised>>

\* inline-editing/builder.js prepareColumns: a column is made editable unless its
\* configuration or the missing of an editor for its type says no.
Enabled(behaviour, m) ==
    /\ IF behaviour = "enable_all" THEN m.wanted # "no" ELSE m.wanted = "yes"
    /\ m.editor # "none"

\* The plugin, the default editors, the editor of cells and the accessor are
\* loaded together; a failure is reported and the grid goes on without editing.
PrepareEditing(behaviour, ok) ==
    /\ "editing" \in loaded \ processed
    /\ editable' = IF ok THEN {c \in Columns : Enabled(behaviour, Meta[c])} ELSE {}
    /\ plugins' = IF ok THEN plugins \cup {"editing"} ELSE plugins
    /\ broken' = IF ok THEN broken ELSE broken \cup {"editing"}
    /\ processed' = processed \cup {"editing"}
    /\ UNCHANGED <<loaded, grid, started, finished, visible, source, asked, raised>>

PrepareAppearancesSilently(ok) ==
    /\ "appearance" \in loaded \ processed
    /\ "board" \notin broken
    /\ plugins' = IF ok THEN plugins \cup {"board"} ELSE plugins
    /\ broken' = IF ok THEN broken ELSE broken \cup {"board"}
    /\ processed' = IF ok THEN processed \cup {"appearance"} ELSE processed
    /\ UNCHANGED <<loaded, grid, started, finished, visible, editable, source, asked,
                   raised>>

\* appearance/builder.js, BoardAppearancePlugin.processMetadata: the views and
\* transitions of each appearance.
PrepareAppearances(ok) ==
    /\ "appearance" \in loaded \ processed
    /\ plugins' = IF ok THEN plugins \cup {"board"} ELSE plugins
    /\ broken' = IF ok THEN broken ELSE broken \cup {"board"}
    /\ processed' = processed \cup {"appearance"}
    /\ UNCHANGED <<loaded, grid, started, finished, visible, editable, source, asked,
                   raised>>

\* initDataGrid, collectModules: cells and actions of the metadata.
InitDataGrid ==
    /\ grid = "none"
    /\ processed = Builders
    /\ grid' = "modules"
    /\ UNCHANGED <<loaded, processed, started, finished, visible, plugins, broken, editable,
                   source, asked, raised>>

\* build: the collection of the page cache, if its state is the one of the URL
\* (contentManager.get), or a new one.
Build(cached) ==
    /\ grid = "modules"
    /\ source' = IF cached THEN "cache" ELSE "page"
    /\ grid' = "rendering"
    /\ UNCHANGED <<loaded, processed, started, finished, visible, plugins, broken, editable, asked,
                   raised>>

\* grid.deferredRender
Rendered ==
    /\ grid = "rendering"
    /\ grid' = "built"
    /\ started' = Builders
    /\ UNCHANGED <<loaded, processed, finished, visible, plugins, broken, editable, source,
                   asked, raised>>

\* init of a builder: the views wait until the filters are rendered, where there
\* are filters (grid-views-builder.js).
Finish(b) ==
    /\ b \in started \ finished
    /\ (b = "views" /\ Filters) => "filters" \in finished
    /\ finished' = finished \cup {b}
    /\ UNCHANGED <<loaded, processed, grid, started, visible, plugins, broken, editable, source,
                   asked, raised>>

\* #4. Done: selectAppearanceById, then $el.show in the same callback.  A board
\* whose plugin or views are not there, for what the builder has only logged, raises
\* an error when it is created or enabled; one that is not found does so later.
Done(ready) ==
    /\ grid = "built" /\ finished = Builders
    /\ ~visible /\ ~raised
    /\ "board" \notin broken => ready
    /\ raised' = (asked = "board" /\ ~ready)
    /\ visible' = ~raised'
    /\ UNCHANGED <<loaded, processed, grid, started, finished, plugins, broken, editable, source,
                   asked>>

Next ==
    \/ \E b \in Builders : Load(b)
    \/ \E behaviour \in {"enable_all", "enable_selected"}, ok \in BOOLEAN :
          PrepareEditing(behaviour, ok)
    \/ \E ok \in BOOLEAN : PrepareAppearances(ok)
    \/ InitDataGrid
    \/ \E cached \in BOOLEAN : Build(cached)
    \/ Rendered
    \/ \E b \in Builders : Finish(b)
    \/ \E ready \in BOOLEAN : Done(ready)

Spec == Init /\ [][Next]_vars

-----------------------------------------------------------------------------
\* The grid is visible in the end, with every editable column having an editor,
\* although parts of what was asked for could not be loaded: a builder settles
\* its promise on failure too (initialize, processDatagridOptions).  Only a page
\* that is to show a board may stay without its grid, if a board's modules were
\* not loaded.
GridAppears ==
    <>[](/\ visible \/ (asked = "board" /\ "board" \in broken)
         /\ {"editing", "board"} \subseteq plugins \cup broken
         /\ \A c \in editable : Meta[c].editor # "none")

=============================================================================

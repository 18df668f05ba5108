# DataGridBundle in TLA+

Specifications of the behaviour of OroDataGridBundle that tests hardly reach:
what the grid in the browser and the server behind it do when requests overlap,
fail, come late or are refused, and what the database and the page then agree
on. The modules are translated from the code under `src/`; `PROJECT.json` maps
every definition to the lines it stands for.

- [The system](#the-system): components, their state, what is hard about them
- [The plan](#the-plan): modules, in order, and what is left
- [The modules](#the-modules): how state and actions correspond to the code
- [The runs](#the-runs): questions, bounds, fairness
- [The proofs](#the-proofs): theorems, assumptions, inductive invariants
- [Disagreements](#disagreements): where the code does not do what it says
- [What is not modelled](#what-is-not-modelled)

## The system

A datagrid is a table of records of one query. On the server (PHP) a request
builds the grid from its configuration: `Manager` resolves the configuration,
`Builder` attaches a data source and the extensions that apply, and every
extension may change the configuration, the query, the result or the metadata
of the page. Nothing on the server lives longer than a request but the
database. In the browser (JavaScript) a grid lives as long as its page: a
Backbone collection with the paging state, a `Grid` view with actions, plugins
and listeners around it, and jQuery requests to the server, which run
concurrently, are not numbered and not aborted.

| Component | State it keeps | Operations | Talks to |
| --- | --- | --- | --- |
| Pager (server): `AbstractPager`, `Orm\Pager`, `OrmPagerExtension` | page, page size, count, OFFSET and LIMIT, within a request | `visitDatasource`, `init` | query builder; toolbar defaults |
| Pageable collection: `pageable-collection.js` | `state` (page, size, totals, sorters, filters, columns, view), models | `getPage`, `setPageSize`, `setSorting`, `fetch`, `parse`, `onRemove`, `updateState`, `loadMore` | server; listeners of `beforeFetch` that may hold a fetch back with a promise |
| Grid requests and mask: `grid.js` | `requestsCount`, mask, toolbar enabled | `_beforeRequest`, `_afterRequest`, `_onRemove`, refresh, reset | collection events; ajax actions that use the mask too |
| Toolbars: pagination, page size, counter, launchers, export menu | what each was last rendered with, enabled | render, enable, disable, click | grid, collection |
| Rows and their actions: `row.js`, `abstract-action.js`, action cell | click permit, timer, mouse-down; dialogs | click, double click, launch, confirm, execute | mask, server |
| Row selection: `select-state-model.js`, `grid.js`, select-row cells and header | ids and polarity, checkboxes, header | click a row or its box, select all, all visible, none; page changes | mass actions read it when they send |
| Column form and editable cells: the grid listeners | included and excluded ids, or a changeset; form fields | tick or edit, restore, submit, confirm a page change | collection fetches they hold back |
| Mass delete: `delete-mass-action.js`, `DeleteMassActionHandler`, `MassDeleteLimiter`, `DeletionIterableResult` | request type, dialog; batch, counts | count, confirm, delete in batches, reindex | select state, mask, ACL, message queue |
| Grid views: `grid-views/*`, `GridViewManager`, REST controller | saved views, default rows; models, flags, the mark of edited settings | create, save, share, rename, delete, use as default, choose, discard | collection state; other users' shared views |
| Inline editing: plugin, editor component, cell iterator | open editors, saves in flight, focused cell, lock | edit, save, revert, go to the next cell | collection (turns pages), save API, column manager, leaving the page |
| Board: plugin, board collection, transitions | order of the cards, property shown, pages loaded | move a card, load more, switch appearance | save API, collection |
| Column manager | order and visibility of columns, in four copies | toggle, reorder, search, apply a state | collection state, table, URL |
| Sorting: header cells, dropdown, `AbstractSorterExtension` | directions, current column | sort by header or dropdown, views | collection state, server |
| Datagrid component: `datagrid-component.js`, builders | promises, appearance selected | load, build, start, show, select appearance | every builder |
| Page cache and URL: `content-manager.js` | clone of the collection, hash | trace, restore | collection, page cache of the platform |
| Floating header: plugin, full screen | mode, clone, widths, scrollbar | follow the page, the window and the columns | grid layout |
| Configuration, building, totals, export | configuration trees, one query | per request, sequential | events |

What is hard:

- *Overlap on the page.* Handlers of one page run one at a time, but answers
  come in any order, and the state a request was sent with may have changed
  when it is answered. The only protection is the loading mask.
- *Held calls.* A `beforeFetch` listener may hold a fetch back until the user
  confirms, and the fetch then sends a different state.
- *Shared objects.* One action object, one mask, one select state serve every
  request that is in flight; sorters are handed from view to collection by
  reference.
- *Copies that follow each other.* Columns, sorting, appearance and settings
  are kept in several places and brought into line by events that come back to
  where they were sent from.
- *Check-then-act on the server.* Requests of several users interleave at
  their queries: counts are compared before a delete, defaults looked up before
  they are replaced, without a lock or a unique constraint.
- *Steps that fail half way.* Batches are flushed one by one, messages sent
  after the flush; builders fail, pages of the board do not come.

What makes each component correct:

- Pager and pagination: the pages partition the result; every handle leads to
  records, and all records can be reached.
- Collection and grid: the state can always be checked again; an undisturbed
  answer makes rows and state agree; the mask goes away again.
- Toolbars: they show the collection's state, and an export is of what is shown.
- Rows: the row action runs for one whole click, a confirmed action once.
- Row selection: what is checked is what a mass action takes, on all pages; an
  abstract set of chosen records (module `Selection`) is implemented.
- Column form and editable cells: what is submitted is what is shown; nothing
  is dropped unasked.
- Mass delete: what is deleted was confirmed and may be deleted; the search
  index follows.
- Grid views: the default that is shown is the one that is stored, and the one
  last chosen; a view brings back what it was saved with.
- Inline editing: what is shown and not stored is known as a change; nothing
  entered is lost unasked; the next cell is the next one, and the lock opens.
- Board: what is shown is what is stored once all saves are answered; who
  scrolls on sees every card.
- Columns, sorting, appearance: the copies agree.
- Component: the grid appears in the end. Page cache: who comes back gets what
  was left. Floating header: it floats when it would not be seen.

## The plan

In order of importance; a component's proofs follow its model.

1. `Pager`, `PageState`, `GridPaging`, `Pagination`, `Toolbar`: paging,
   requests, mask, toolbars. *Done, proved.*
2. `SelectState`, `Selection`, `RowSelection`: selection and its abstract
   specification; `RowActions`. *Done, proved.*
3. `ColumnForm`, `EditableCells`: listeners that hold fetches back. *Done,
   proved.*
4. `MassDelete`, which uses `SelectState`: the page's action and the server's
   handler with other users. *Done, proved.*
5. `GridViews`: default views on both sides; `ViewState`: the settings that
   views hold. *Done, proved (`ViewState` without multiple sorting).*
6. `InlineEditing`, `CellIterator`. *Done, proved.*
7. `BoardMoves`, `BoardLoading`, `Appearance`. *Done; `BoardMoves` and
   `Appearance` proved.*
8. `ColumnManager` and `Arrangement`, `Sorting`, `PageCache`. *Done, proved.*
9. `GridStart`, `FloatingHeader`. *Done; their properties are liveness.*

What is left, in this order: a composition of `ColumnForm` and `GridPaging`
through held fetches, which each of them models from its side now; the warning of
the export action; and the server's sequential algorithms (acceptor order,
configuration inheritance, `IterableResult`) as operators against reference
definitions.

## The modules

MC modules give constants their sets and symmetries. Where a definition is
named for a mistake (`SelectWithoutRemove`) it is the mutant of the definition
after it: `PROJECT.json` pairs it with the property it breaks. Ghost variables
are marked as such where they are declared; each records a case in which the
code is known not to keep a promise, so that the property says what holds in all
the others.

### Paging and toolbars

**`Pager`** (no state of its own): `VisitDatasource` is
`OrmPagerExtension::visitDatasource` with the setters and `init`, as a function
of the request's page and size, the grid's defaults and the number of results;
`RowsReturned` is what OFFSET and LIMIT select.

**`PageState`**: the collection's state record and `CheckState`, which is
`_checkState` with its range errors (`RaisesRangeError`), clamping, and the
unknown totals of a collection that has not been answered. **`Pagination`**: the
handles and the page field drawn from such a state, with their conversions
between indices, labels and pages.

**`GridPaging`**: `state` is `collection.state`, `rows` what the models are (the
answer for which page and size), `requests` the fetches and model requests in
flight, each waiting (held), sent, answered or `raised`, `total` the server's
data, `requestsCount` and `loading` the grid's, `ajax` the actions that use the
mask without the counter, and `widgets` whether the pager and the page sizes, as
they were last rendered, can be used. Actions are the toolbar's handlers, refresh
and reset, confirmation and refusal of a held fetch, removal of a row, answers,
failures, and other users. `WorkStep` are the steps that finish what was started.

What the user can ask for goes by `widgets` and not by `loading`: a reset sets the
totals to null, and the pager does not render without a total (`Render`). So
`Choices` has the pages of the handles and the field as they were last rendered,
and page 0, which `getPage` makes of the null that the field takes for a page
then. With page 0 the next answer raises (`FetchRaises`): the models are gone,
the state is changed as far as `_checkState` came, and the request is counted for
ever. The grid is `Intact` until then and followed no further. `NoRangeError` says
that this is the only way to raise, and that no intact grid is in a state that
would.

**`Toolbar`**: `bars` holds what every widget of both toolbars was last rendered
with. The order of calls is the code's: the collection's callbacks run before
the wrapper that enables the toolbars, so that `setPageSize`'s restored state is
rendered, while the counter, which renders on add, remove and reset only, keeps
the old total. `showLoading` and `hideLoading` are called by the counted requests
(fetches and deleted rows) and by the ajax actions (`ajax`), which look at no
counter: the end of any of them enables the toolbars with others still under way.
The ghost `uncovered` says so, and `overtaken` records which parts were not told:
after an overlapped revert the counter, after a refused page change bars and
menu. While the total is null the pager keeps what it showed, and its field can be
used (`TypePage` with page 0). A record is a page here, since what paging does is
in `GridPaging`.

### Rows, selection and forms

**`SelectState`**: the model's set of ids and polarity with the grid's handlers
on it. **`Selection`**: the promise, a set of chosen records. **`RowSelection`**:
`sel`, the rows' `checked` boxes, the `header` with its debounced update
(`pending`), the `page` shown and the records that exist. `ImplementsSelection`
is the refinement, with the chosen records as those the select state selects.

**`RowActions`**: the mouse over one row (`pointer`, `at`, `text`), the row's
`press`, `permit` and `timer`, the launcher of the action cell with the `ok`
handlers its confirmation has collected (`listeners`), the ajax `requests` and
the mask. `Reload` renders the row anew in the middle of anything.

**`ColumnForm`**: `included`, `excluded`, the `active` ticks of the rows shown,
`assigned` as the server has it, one fetch that may be held (`asking`) or in
flight (`request`), and the ghost `lost`, set when a fetch failed after the
changes were dropped for it. **`EditableCells`**: the same for a changeset of
cell values, with fetches that overlap and a second grid on the page whose load
restores the same changeset; the page has one such listener.

### Mass delete

**`MassDelete`**: on the page `sel`, `requestType`, `dialog`, `masked` and the
grid's fetches (`fetching`); on the server the action's `requests`, each with
the phase its handler has reached, the query it has narrowed (`restricted`,
`limited`), the rows of its iterator and the batch not yet flushed; the database
(`existing`) and the search `index`. The ghosts are `quiet` (nobody else touched
data or grid since the click), `orphans` (deleted by a process that died before
its message) and, of a request, `grown` (a record came since its first count).

`AclApplied` tells two kinds of grids apart. `MassActionDispatcher` hands the
handler a Doctrine `Query` with the grid's own ACL applied if the datasource is
an `OrmDatasource` without `skip_acl_apply`, and a `QueryBuilder` otherwise.
`MassDeleteLimiter` applies the ACL for DELETE, which changes a `Query` in place,
but of a `QueryBuilder` makes a `Query` that it throws away. So `restricted` is
what the limiter wants only where `AclApplied` is TRUE.

### Views and settings

**`GridViews`**: on the server the names of the saved `views` and the user's
default `rows`, in the database's two steps of a request (`Check`, `Commit`); on
the page the `models`, the `flags` of those shown as default, the `current` view
and the `requests`. The ghost `chosen` is the view last asked for as default, and
the ghost `orderly` is TRUE until requests overlap, an answer is lost, another
owner acts, a view gets the name of another or of the system view, the rename
dialog's default box is changed, or a page is loaded by a user without a default
row: in each of these cases the page and the server may disagree on the default. `ShownIsStored` is about the
rest, `DefaultLostOnlyWithView` about all of them.

**`ViewState`**: the settings of the grid and of its views. Sorters are objects
with `content`, since with multiple sorting they are changed in place and views
share them; the rest of the settings is replaced, so it is one value, but for the
type of the appearance. Views from before that column was added have none, which
comes to the page as an empty string; `toGridState` makes it undefined
(`ToGridState`), and what is undefined is stored as nothing again (`AsStored`).
Such a view counts as edited as soon as it is chosen, since the mark compares
without these conversions. `marked` is `viewDirty`; `stored` is the server's.

**`PageCache`**: the state reduced to page, view, filters and columns, what the
`rows` were asked for with, the `url` parameter and the clone in the cache. The
ghost `sound` is FALSE for a clone that was made between a change of the state
and its answer: it is brought back without a fetch, new state and old rows.

**`Sorting`**: `sorters` of the state, the `direction` every header cell shows,
the dropdown's `current` column and direction, the sorters the `rows` came with,
and the requests. `fresh` and `smooth` are ghosts: the last answer is to the last
request, and no request since the dropdown was rendered failed or crossed
another.

**`ColumnManager`**: the four copies of the columns (`table`, `managed` with
`order` and `renderable`, `state`, `url`), the search and the filter of the
manager. One action is one user step with the events it sets off, back and
forth, until the guard flags end them. A sort gives every column the place that
the number of columns before it says (`ByKeys` and `Arranged` of **`Arrangement`**,
stable as the browser's sort is), and a filtered collection is part of another in
the same order (`AsIn`); the columns of the board are such parts, too.

### Appearance, board, start

**`Appearance`**: `selected` is key and id of the component, `plugin` that of the
board, with what it keeps to put back, `state` the collection's, `sortable` the
columns that can be sorted by; `entry` is what the switch to the board found.
There are several boards. `enable` and `disable` change the collection, whose
event makes the component select again in the middle of the selection: nothing
comes of it, but from one board to another, where `disable` turns to the table
and the plugin is not forgotten yet. There `Select` enables twice: the second
plugin finds nothing to turn to or to keep, so that page size and sorting of
before are lost, and the first one's view stays on the page (`left`), with its
column not sortable for good.

**`BoardMoves`**: `order` of the board's collection, which may hold
a card twice, the property on the page (`group`) and on the server (`saved`),
drops that wait for their deferred handler, saves in flight. `blurred` are the
cards whose saves met another save, a refresh or a lost answer. **`BoardLoading`**:
the records on the `server`, the `models`, the page counter (`infinite`) and
`loadingMore`; `calm` is TRUE as long as nothing went against the counter since
the board was last filled, and no request for more has failed.

**`GridStart`**: the phases of the component's build as sets of builders that are
`loaded`, `processed`, `started` and `finished`, the plugins that could not be
loaded (`broken`) and the columns that got an editor. The last step selects the
appearance that was `asked` for and shows the grid, in one callback (`Done`): if
it is a board whose modules are not there, the selection raises before the grid
is shown.

**`FloatingHeader`**: positions are told apart by the conditions of the code, not
in pixels. What the plugin has looked at (`seen`, `looked`, `widths`) is kept
beside what there is (`page`, `table`, `rows`, `columns`), and `CheckLayout` is
the 400 ms timer.

### Inline editing

**`InlineEditing`**: `page` is what the page holds, one record because handlers
compose (leaving one cell and entering another is one call): the values `shown`
by the models, the `editors` (components, with the view's `draft`, `oldState` and
`formState`), the plugin's list `active`, and the `saves` in flight. `stored` is
the database, `fetch` the collection's fetch, which may be `asking` the user;
leaving the page asks in the same way. The ghost `strayed` holds the cells on
which page and database may come to disagree: an editor was opened again while
its save was in flight (the page rolls the value back), the answer to a save was
lost, its column was hidden while it held something, the page was left during a
save, or the user agreed to lose an edit. A fetch that succeeds clears it.
`HideColumn` stands for hiding a column and showing it again later: a hidden
column's cells are cells nobody edits.

**`CellIterator`**: `current`, the cell the walk started `from`, the `method`, the
page that is being fetched and `lockUserActions`. `page` is the state's, which
`getPage` sets before it fetches, and `shown` the one whose rows are there: they
are apart after a page has failed to come, in the walk or otherwise (`MissPage`),
and the next walk goes on behind the page that is not shown. The ghost `straight`
says that a walk did not start so. Records may be deleted: a page that comes
without rows gives the iterator no cell, `isEditable` raises, and the walk ends
with the lock on (`raised`). jQuery's promises are those of version 1 and 2,
which pass an error on to whoever resolved them. The walk starts from a cell that
can be edited; when no record with a cell to stop at is left, it turns pages for
ever.

### Composed modules

The MC modules of `grid_paging`, `row_selection`, `column_form`, `layout` and
`loading` hold several parts that share no state. Which one a behaviour steps
through is chosen at first (`part`): the parts meet through interfaces that each
models from its side (a held fetch, an answer, an `updateState`), and
interleaving them would multiply states without adding a step. The others stay
as they began.

## The runs

| Run | Question | Bounds |
| --- | --- | --- |
| `grid_paging` | Do pages partition the result, does every handle lead to records, are state, rows and toolbars right whatever overlaps? | *pager*: pages up to 6 (and below 1), sizes up to 5 (and 0), 7 results, windows up to 3; *grid*: two requests, sizes "All" and 1, two records; *toolbars*: two toolbars, two queries, two records, two requests, one ajax action |
| `row_selection` | Do boxes, header and select state agree, and is it a set of chosen records? Does the row action run for one whole click, and a confirmed action once? | four records, pages of any subset of them: a page, another one, and a record that is not chosen with either; *rows*: two plain cells, a link, a checkbox and the action cell, two requests |
| `column_form` | Is what is submitted what is shown, and is nothing dropped unasked? | two pages of three rows, restored ids on the first page; *cells*: two pages of one row, two columns, two values, two fetches |
| `mass_delete` | Does an undisturbed run delete what was confirmed, and are answers kept apart? | six records, five of them deletable, limits up to four, batches of two: limit and ACL alone and together, full and partial batches; the grid's own ACL applied |
| `mass_delete_refresh` | Does the index follow the database, and is nothing deleted that must not be, when runs overlap, others act and processes die? | two records, one of them deletable, two overlapping requests, one refresh; the grid's own ACL applied |
| `mass_delete_mixed` | Are answers kept apart when the grid is refreshed? (violated) | two records, two requests, one refresh |
| `mass_delete_acl` | Is nothing deleted that must not be where the grid's own ACL is not applied? (violated) | two records, one of them deletable, two requests, no refresh |
| `inline_editing` | Is everything unsaved known, asked about before it is lost, and sent when its cell is left? | two cells, two values and an invalid one, two editors, two saves in flight |
| `grid_views` | Is the default that is shown stored, and the last one chosen? Can it be lost or dangle? | two requests; three views and two own names in order, two and one in disorder; one view shared by another owner |
| `layout` | Do board, columns, sorting, settings and page cache agree with the server, with each other, and with what was left? | *moves*: three cards, two columns of the board, one of them with two values, two drops; *columns*: three managed columns, one required, one that is not managed, an old and a new saved view; *sorting*: two columns, two requests; *views*: two names of views, two sorters and two values of the rest, two requests, seven objects; *page*: two pages, a view, a filter, two requests |
| `loading` | Does everything come that must: the grid, its appearance, its cards, its head, the next cell to edit? And does the mask go? | *cards*: five records in pages of two, one newcomer, one change, one failure; *start*: three columns, all builders; *appearance*: two boards and one whose modules are missing, sizes "All" and 5, the initial 25 and the board's own; *header*: two positions of the page beside the top; *cells*: three records in two pages, two columns, at most three cells that can be edited, records deleted at any time; *paging*: one record, one page size, two requests, two ajax actions |
| `shared_sorters` | Does a reset bring back the initial state with multiple sorting? (violated) | one view, five objects, one request |

Two of anything that overlaps is enough for the hazards at hand: each is a race
of one step with the steps of one other request. The proofs remove the bounds
where they apply. A bound of 0 and sizes of one record make the boundaries of
paging happen in small totals; three columns and three cards are the fewest
where something can be moved past a neighbour that is not at an end.

*Fairness.* Only `loading` has liveness properties. Since a behaviour is one
part's, one weak fairness condition, of `FairStep`, says what each part is owed
(and a second one what the board's server is); it assumes

- for the mask, that some answer or failure of a request or an ajax action comes
  as long as one can (`Completion`): jQuery ends every request with success, error
  or timeout and the browser runs its callbacks. Nobody is assumed to act, neither
  the user, not even to answer a confirmation, nor other users, and the property
  asks for the mask to go once only the work that was started is left;
- for the cards, that the server reads and answers, and that the user, about whom
  `EverythingComes` speaks, scrolls on; not that requests succeed: the property is
  about behaviours that stay `calm`;
- for the start, that modules are loaded or fail to load and builders settle their
  promises, one way or the other, until the last step, which raises or shows the
  grid (`GridStart!Next` has no other steps);
- for the head, the plugin's timer (`CheckLayout`);
- for the iterator, that promises are resolved and requests answered (`Continue`,
  `Enter`, `Answer`, which may be a failure); not that the user walks on.

`CHECK_DEADLOCK` is off in `layout` and `loading` only, whose parts do stop: the
drops are bounded, and a grid that was started is started. Symmetry is used over slots, toolbars,
records, cells and values, which the modules only compare for equality, and never
in a run with a liveness property (`ImplementsSelection` is a safety property:
`Selection!Spec` has no fairness).

Six runs are cut by a `CONSTRAINT`, a `VIEW` or both, each about what no property
speaks of there:

- `grid_paging` has `MenuAlone`: from the first opening of an export menu on, no
  ajax action is started, no row deleted and the other toolbar's menu not opened.
  What the links say depends on none of these.
- `mass_delete` goes on only from states that are `Undisturbed` (the ghost
  `quiet`): `DeletesWhatWasConfirmed` says something of undisturbed runs only, and
  the disturbed ones, which `mass_delete_refresh` has, would make six records too
  many.
- `mass_delete_refresh` has `Followed`: a request whose selection a record has
  joined is followed until what it had removed is flushed and announced.
- `grid_views` keeps `SmallDisorder`: the full bounds while the ghost `orderly` is
  TRUE, two views and one name after that. Its `VIEW` leaves out the ghost `chosen`
  once `orderly` is FALSE, when no property reads it.
- `inline_editing` keeps `OneInOrder`: it goes on while one of the two cells has
  not strayed, since its properties are about such cells only, and opens no editor
  while two saves of the strayed one are in flight.
- `layout` follows its views while they are `orderly` (`Followed`): after that only
  what a reset brings is spoken of, which does not depend on it. Its `VIEW` takes
  sorters of the same content for the same: without multiple sorting none is
  changed in place (`shared_sorters` has it on, and one view).

`MaxEditable` bounds the initial states of the iterator's part instead: among six
cells at most three can be edited.

The type invariants (`TypeOK` of every module) are theorems where a proof needs
them and otherwise documentation of the state: they are not among the runs'
properties, which are about what could go wrong.

## The proofs

TLAPS checks the theorems for every value of the constants that the named
assumptions allow (finite sets of records and slots, natural bounds). Each proof
has an inductive invariant, which TLC checked on the instances of the runs before
it was proved; a table row says what it has to know beyond the property itself.

| Module | Theorems | Argument |
| --- | --- | --- |
| `GridPaging_proofs`, grid | `TypeCorrect`, `NeverOutOfRange`, `RequestCountCorrect`, `MaskNeverOrphaned`; `MaskCoversRequests` (without ajax actions); `CheckStateSafe`: a state with a page of at least 1 or no total is one that `_checkState` accepts, and returns as such a state | `IInv`: types, the count of the slots in flight, the mask's owner, and, while the grid is `Intact`, that the state *and the copies that size changes keep to restore* are such states. `NoRangeError` alone is not inductive: a failed size change brings an old state back. Page 0 is asked for while the total is unknown only, so that an answer that raises meets no other state |
| the same | `AnswersSync`; `FailuresRevert` (without ajax actions) | `SyncInv`: a fetch that nothing disturbed is the only one, and was sent with the state as it is (`SyncedWhileIntact`). `RevertInv`: while a page size is being changed, every fetch in flight was sent with another size or for the first page, so that its answer cannot pass for rows of the state that comes back. `WidgetsOK` is what keeps the user from asking for such rows: the mask makes page sizes unusable, and the pager too unless the total is unknown, when it asks for the first page or page 0 only; an ajax action takes the mask away, hence `MaxAjax = 0` |
| the same, pager and toolbars | `PagerCorrect`, `PaginationCorrect`, `ToolbarsCorrect`, `LinksCorrect` | pages as intervals, by division; the window and the handles over every state that an intact grid gets into (`PagingInv`); `BarInv`: every widget is enabled exactly as `BarOn` says (nothing is under way, or the end of something has uncovered the rest), and outside the named cases each was told the state as it is |
| `RowSelection_proofs` | `CheckboxesCorrect` (for rows that render their own checkboxes), `HeaderCorrect`, `Refinement` | the agreement of boxes and select state, with the state update as the one exception in one direction; each step maps to a step of `Selection` or a stutter |
| the same | `ClicksCorrect`, `ConfirmedOnce`, `PartsAreComponents` | `RowInv`: the press is known, a click is permitted exactly if it is whole and not the second, the timer runs exactly while a first one may become a double, and the menu's dialog listens once |
| `ColumnForm_proofs` | `FormCorrect`, `AsksCorrectly`, if restored ids are on the first page; `ChangesKept`; `PartsAreComponents` | included and excluded are disjoint, hold real changes only, and differ from the ticks of the page by nothing while no fetch is in flight |
| the same | `CellsCorrect` | `CellInv`: the changeset is the hidden input's; while nothing is in flight that drops changes, cells that are not in it are as they were read, and once no request is, those in it as they were entered |
| `MassDelete_proofs` | `TypeCorrect`, `IndexCorrect`, `AclCorrect` where the grid's own ACL is applied, and `AnswersCorrect` without refreshes | every record between database and index is in a flushed batch or an orphan. `AclCorrect`: what a request matches only shrinks unless it has `grown` (`PermittedAsRecordsGo`), so that its first count is at least what it matches now; if no fewer are deletable, all are (`EqualCounts`, on finite sets), and else the query is restricted. Others may delete between any two steps. `AnswersCorrect` needs that mask, dialog and fetches exclude each other while a request is in flight |
| the same | `ConfirmedCorrect`: where the grid's own ACL is applied, an undisturbed run that reports success deleted as many as the dialog said, and all unless it met the limit | `Kept`: in every phase of an undisturbed request, what it has counted and what its query still finds give, up to the limit, what the dialog promised, and the pages left are those for what is not loaded (`PagesMath`) |
| `GridViews_proofs` | `TypeCorrect`; `DefaultCorrect`: a default row refers to a view that exists, and the last one goes with its view only, however requests of this user and other owners interleave | types, the reference, and what a request knows in each of its phases. The steps that matter are the commit of a chosen default, which removes the rows its check found and adds one in the same flush, or fails when its view has gone meanwhile, and the deletion of a view, which takes its rows along |
| the same | `ShownCorrect`: in order, page, server and the user's last choice agree on the default | `Calm`: the stored row is the choice, and one agreement for each phase of the one request there may be (`Under`): sent, checked, flushed, refused |
| `InlineEditing_proofs` | `TypeCorrect`, `UnsavedCorrect`, `AskedCorrect`, `EntriesCorrect` | `Sound(page)`: listed editors are alive, and whoever saves a cell is its editor; none is listed while rows are fetched; each cell that has not strayed shows what is stored, or its one editor or one save knows what is (`Known`). Handlers are functions on one record, so the lemmas are about them and compose as they do |
| `Layout_proofs` | `ComesBackAlways`: who comes to an address gets its state, its rows unless the clone was made too early, and what was shown if all was settled | `CacheOK` ties clone and URL together, `SettledOK` both to what is shown, `NewestOK` the last request to the state. `ComesBack` is a property of one action, and follows from these on that action |
| the same | `MarkCorrect`, `ViewsCorrect` (without multiple sorting) | `ViewInv`: objects are not changed once they are there, so a request sends what its object held; in order, a view's model is in step with the server unless its one request has been served and not answered; and the settings have an empty type of appearance only with a view that has none (`TypedOK`), the one case in which the mark says more than the server |
| the same | `MovesSettle` | `CardOK`: a card that has not blurred has one save at most, which knows what the server has and what to go back to; a refresh in flight has read what is stored of the cards that are `clean` |
| the same | `DropsCorrect`, `UndoCorrect` | `PlacesInv`: a drop that nothing came between knows its neighbour in the column as it is, and a save that is alone knows the board as it was in an order that differs from the present one by its own card alone (`Was`). The rest is about orders in which a card may be twice: where `Put` leaves the first place of every card (`PutBehind`, `PutAhead`, `PutOnTop`), that a second place of the card always comes after its neighbour of before (`Later`), and that a card's place in a column is the number of its cards that come before (`ItemsAre`) |
| the same | `ColumnsCorrect` | `ManagerInv`: the table has every column once, the two technical ones outside, and the attribute `order` keeps these there whenever it is sorted; manager and settings are read off the table. `Resorted`: part of a list, sorted, is that part of the sorted list; `PushStep` and `ReorderStep` are what all the actions come down to |
| the same | `SortingCorrect`, if a grid without multiple sorting has one default sorter at most, which is what its configuration gives it | `SortInv`: a request marked as the last was sent with the state's sorters, after its answer headers and rows are of these sorters, and in a smooth course there is one request at most |
| `Loading_proofs` | `AppearanceCorrect`: plugin, key and id, state and columns agree, and going to a board and back to the table restores | selection and its inverse are functions on one record (`Now`), so the lemmas are about them: `Enable`, `Disable` and `Select` preserve `Consistent`, also from one board to another, where `Select` enables in the middle of disabling and again behind it. The second half needs `EntryOK`: what came with the switch can be put back as long as the plugin keeps it, which a view's `updateState` and a second board end |
| the same | `NextCellCorrect`: the cell that is edited next is the nearest one on the way, if the walk did not start behind a page that failed to come and no record was deleted | the way is an order of cells (`Ord`, `Order`); from a cell the iterator goes to the one that `Follows`, in its row, in the next row or on the next page; `WalkInv`: no wanted cell is nearer to the start than where the walk is, and between pages the state's page is that of the rows shown. No induction over the walk: each step keeps the invariant |

A hypothesis of a theorem is a constant's value for which the code does not keep
the promise otherwise: `MaxAjax = 0` (an ajax action hides the mask of others),
`MaxFetches = 0` (a refresh does so, which `mass_delete_mixed` shows),
`AclApplied` (`mass_delete_acl` shows why), `~TemplateRows`, `Restorable` on the
first page and multiple sorting (see the disagreements). The runs have the same
values, but for `MaxAjax` in `loading`, whose property is about the mask, and
`MaxFetches` in `mass_delete_refresh`, which does not ask about answers.

Only model-checked:

- `MaskEventuallyHidden`, `EverythingComes`, `GridAppears`, `HeadFollows` and
  `LockIsReleased`: liveness is beyond the prover.

## Disagreements

Shown by a violation run, each with the line it contradicts in `PROJECT.json`
("findings"):

- The answers of two mass deletions are told apart by a field they share
  (`mass_delete_mixed`).
- The limiter throws its restricted query away where it was given a
  `QueryBuilder`: the dialog counts the records that may be deleted, and all that
  were selected are deleted (`mass_delete_acl`; `MassDeleteLimiter.php:67`).
- With multiple sorting, a sort changes the sorters that the initial state or a
  saved view holds: the reset action brings back the changed ones
  (`shared_sorters`).

Met while modelling, with the code's own words against them, and listed there
without a run:

- "All visible" in a grid whose rows come from a template ticks every box and
  selects nothing (`row.js:370`): hence `TemplateRows`, a constant of
  `RowSelection`.
- Unticking the default box in the rename dialog of a view shows the system view
  as default and leaves the stored default as it was (`GridViewManager.php:76`).
- All column listeners of a page keep their dialogs in one object on the
  prototype (`abstract-grid-change-listener.js:20`): hence one listener on the page
  in `EditableCells`.
- `managedColumns[0]` is undefined, so the columns' numbers are never shifted
  (`column-manager-component.js:106`); what the doc says of `manageable` is the
  opposite of the code.
- `datagrid:doRefresh` and `datagrid:doReset` do nothing without their buttons
  (`grid.js:704`).
- The pager is not disabled during a reset. What is typed in its field then asks
  for page 0, on which the next answer raises: the models are gone and the mask
  stays (`pagination.js:205`). `NoRangeError` makes this one exception.
- The URL of the initial state is that of the user's default view
  (`pageable-collection.js:987`).

Met while modelling, and visible in the models when their properties are asked
without the exceptions they make:

- *Paging.* A one-page grid still gets the default page size when it is served
  (`OrmPagerExtension.php:58`; `Resources/doc/backend/extensions/pager.md:12`).
  When the refetch after a removal is declined, the last handle is for a page
  that is gone, and gets the last there is. An ajax action that ends while a page
  size is being fetched takes the mask away; the user may then ask for another
  page, and when the size fails its old state comes back over that page's rows.
- *Toolbars.* The end of an ajax action enables the toolbars with fetches or
  others in flight, and so does the last counted answer with ajax actions under
  way: hence `uncovered`. The counter keeps an old total after an overlapped revert. A
  refused page change leaves the state changed and the toolbars as they were. A
  refresh that is held loses its `refresh` parameter. A failed reset leaves the
  total unknown and the page size disabled.
- *Rows.* Three quick clicks run the row action. An ajax answer that comes when
  the row has gone raises before the mask is hidden. Every click leaves one more
  action in the grid's subviews.
- *Forms.* A column form shown again with a change to a row that is not on the
  first page loses that change when the row is unticked and ticked again
  (`column-form-listener.js:82`): hence `Restorable`. Changes are dropped before
  the fetch that replaces their rows, which may fail: hence `lost`. A cell that is
  set back to what it was still counts as a change.
- *Views.* A page without a stored default marks no view at all
  (`GridViewsExtension.php:118`); ticking the default box may leave two defaults
  on the page (`grid-views/view.js:360`); a view that shares its name with the
  default cannot become it (`GridViewManager.php:111`): hence `orderly`. A share
  sent while a save is in flight sends the settings of before; the answer to
  "save as" drops what was changed meanwhile; a deleted view's answer brings the
  system view, whatever has been chosen since.
  A view from before views had an appearance comes with an empty type, which
  `toGridState` makes undefined (`grid-views/model.js:81`): it counts as edited at
  once, and saving it changes nothing.
- *Sorting.* The dropdown is not disabled during requests. A view without sorters
  leaves it at the old column.
- *Page cache.* A page that is left between a view's `updateState` and the answer
  is cached with the new state and the old rows, and comes back so (`sound`).
- *Board.* A card dropped further down in its own column lands one place too far
  up; a card put before another stays in its old place of the order as well;
  saves, refreshes and answers that are lost leave board and server apart
  (`blurred`). A request for more cards that fails leaves `isLoadingMore` set and
  the counter advanced: no more cards come, also when the board is filled anew,
  since `isLoadingMore` is cleared by a success only.
  Removed records shift the pages, so that others are skipped (`calm`).
- *Appearance.* The page size "All" is 0 and is not restored on leaving the board;
  leaving it through a view without an appearance overwrites the view's sorters.
  From one board to another the plugin is made twice: page size and sorting of
  before are lost, the view of the first of the two stays on the page, and the
  column the board groups by cannot be sorted by again. A page that asks for a board whose modules
  could not be loaded never shows its grid (`datagrid-component.js:110`).
- *Columns.* A view that does not know a column numbers it by where it is now.
- *Floating header.* Disabling removes neither its click listener nor its dropdown
  handler; they add up. The scrollbar does not follow rows that change between
  filling the container exactly and overflowing it.
- *Cell iterator.* With no cell to edit it turns pages for ever. A page that comes
  without rows makes it raise and leaves the user's actions locked. A page that
  fails to come stays the state's page: the next walk goes on behind it, and passes
  it by.
- *Inline editing.* `removeActiveEditorComponents` skips every second editor of its
  list, because `dispose` takes each out of it (`inline-editing-plugin.js:412`).
  When the fetch that follows fails, a skipped editor is still open, no longer in
  the "Active editors set" (line 24), and what is entered in it is lost without a
  question. A cell that is opened again while its save is in flight shows the
  value before (`cell-popup-editor-component.js:91`): ESCAPE leaves that value on
  the page, and the save stores the other one; the first answer closes the editor
  and drops what was entered. Hiding a column disposes of its editors and leaves
  what they had put in the model, saved or not. All these cells count as
  `strayed`.

## What is not modelled

`PROJECT.json` lists every component with its status. Left out for good:
rendering and layout (grid widgets), YAML configuration merging, Doctrine's query
building, forms, templates, migrations, and the export job, which another bundle
runs: sequential code without state that two actors share, or code outside the
repository. Of the server, what runs in one request and only turns parameters into
a query or metadata is left out too (filters, totals, toolbar, board columns),
but for the pager, the sorter's defaults and the mass deletion.

Within modelled components the data that no property tells apart is abstracted:
what a filter or sorter holds, the text of messages, pixels, HTML. The client-side
mode of the collection is not used by the grids of this bundle. Also left out:
the export action's warning about many records; dialogs, widgets and navigation
that actions open, which leave the page; titles of views; the view events of the
cell editors that no view of this repository triggers; more than one editable
listener on a page; and handlers that raise after a view is gone (a toolbar's debounced callback
after its disposal, a header plugin that is disabled before it was connected). Where
a handler raises in the middle of its work, what it had done by then is modelled and
the part is followed no further (`FetchRaises`, `Done`, the iterator's empty page).

Two things outside the repository are assumed besides: OroUI's plugin manager
disables a plugin that is removed, if it is enabled, and then forgets it; and
jQuery's promises are those of versions 1 and 2, which do not catch what a callback
raises.

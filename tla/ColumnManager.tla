---------------------------- MODULE ColumnManager ----------------------------
(***************************************************************************)
(* The column manager (column-manager-component.js and its views).  The    *)
(* columns of the table are one collection, those the user may hide and    *)
(* move another with the same models, and the state of the grid's          *)
(* collection a third copy, which saved views set, the URL carries         *)
(* (_packColumnsStateData) and the server answers with (ColumnsExtension,  *)
(* ColumnsHelper).  Every change of one copy is brought to the others by   *)
(* events that come back to where they were sent from.                     *)
(***************************************************************************)
EXTENDS Naturals, Sequences, FiniteSets, SequencesExt, Arrangement

CONSTANTS
    Config,     \* the columns as configured
    SelectColumn, ActionsColumn,  \* columns the grid adds in front and at the end
    Managed,    \* configured columns the user may hide and move
    Required,   \* managed columns that may not be hidden
    Views,      \* columns of saved views, of before a column was added too
    Searches    \* sets of managed columns whose labels match a search text

AllColumns == <<SelectColumn>> \o Config \o <<ActionsColumn>>
MinVisible == 1

ColumnManagerAssumption ==
    /\ Config \in Seq(ToSet(Config))
    /\ \A i, j \in DOMAIN AllColumns : AllColumns[i] = AllColumns[j] => i = j
    /\ Managed \subseteq ToSet(Config)
    /\ Required \subseteq Managed
    /\ Managed \in Searches
    /\ \A v \in Views :
          /\ \A c \in DOMAIN v : v[c] \in [renderable : BOOLEAN, order : 0..Len(Config)]
          /\ \A c, d \in DOMAIN v : v[c].order = v[d].order => c = d

VARIABLES
    table,       \* the grid's columns, in order
    managed,     \* the managed ones, in the manager's order
    order,       \* their attribute order; for every column
    renderable,  \* managed columns that are shown
    disabled,    \* managed columns whose checkbox is disabled
    state,       \* collection.state.columns
    url,         \* columns in the URL: <<column, shown>>
    search,      \* managed columns that match the search text
    onlyShown    \* the manager lists shown columns only

vars == <<table, managed, order, renderable, disabled, state, url, search, onlyShown>>

\* sortBy: columns of the same order stay as they are.
Sorted(s, ord) == Arranged(ToSet(s), ByKeys(ToSet(s), s, ord))

Position(s, c) == PlaceIn(s, c) - 1

-----------------------------------------------------------------------------
\* updateVisibilityChange
Disabled(shown) ==
    {c \in shown : Cardinality(shown) <= MinVisible \/ c \in Required}

\* _createState
Created(ord, shown) == [c \in Managed |-> [renderable |-> c \in shown, order |-> ord[c]]]

\* _packColumnsStateData; in keys, the order of the state's properties.
Packed(s, keys) ==
    LET S     == ToSet(keys) \cap DOMAIN s
        names == Arranged(S, ByKeys(S, keys, [c \in S |-> s[c].order]))
    IN  [i \in DOMAIN names |-> <<names[i], s[names[i]].renderable>>]

\* ColumnsHelper.prepareColumnsParam: a column the URL does not name keeps its
\* configuration.
Unpacked(packed) ==
    [c \in ToSet(Config) |->
        LET at == {i \in DOMAIN packed : packed[i][1] = c}
        IN  IF at = {} THEN [renderable |-> TRUE, order |-> Position(Config, c)]
            ELSE LET i == CHOOSE j \in at : TRUE
                 IN  [renderable |-> packed[i][2], order |-> i - 1]]

\* _applyState's attributes of a column the state has, or has not.
OrderFrom(list, ord, c, s) == IF c \in DOMAIN s THEN s[c].order ELSE Position(list, c)
ShownBy(c, s)              == c \in DOMAIN s => s[c].renderable

-----------------------------------------------------------------------------
(***************************************************************************)
(* The page comes: the server orders the columns as the URL says, the grid *)
(* sorts them, the plugin numbers them anew (_createManagedCollection), the*)
(* managed ones from 0 (ColumnsCollection.reset), and the component        *)
(* applies the collection's state, without sorting the table.              *)
(***************************************************************************)
Started(packed) ==
    LET s     == Unpacked(packed)
        t     == <<SelectColumn>> \o Sorted(Config, [c \in DOMAIN s |-> s[c].order])
                    \o <<ActionsColumn>>
        list  == AsIn(Managed, t)
        fresh == [c \in ToSet(AllColumns) |-> IF c \in Managed THEN Position(list, c) ELSE Position(t, c)]
        ord   == [c \in ToSet(AllColumns) |-> IF c \in Managed THEN OrderFrom(list, fresh, c, s)
                                       ELSE fresh[c]]
    IN  [table |-> t, managed |-> Sorted(list, ord), order |-> ord, state |-> s,
         renderable |-> {c \in Managed : ShownBy(c, s)}]

Init ==
    /\ url = <<>>
    /\ LET page == Started(url)
       IN  /\ table = page.table /\ managed = page.managed /\ order = page.order
           /\ renderable = page.renderable /\ disabled = Disabled(page.renderable)
           /\ state = page.state
    /\ search = Managed
    /\ onlyShown = FALSE

ShowOnly(shown) ==
    /\ renderable' = shown
    /\ disabled' = Disabled(shown)

Reload ==
    /\ LET page == Started(url)
       IN  /\ table' = page.table /\ managed' = page.managed /\ order' = page.order
           /\ ShowOnly(page.renderable)
           /\ state' = page.state
    /\ search' = Managed
    /\ onlyShown' = FALSE
    /\ UNCHANGED url

\* _pushState and the updateState it triggers, which finds nothing to apply
\* (_applyState) and writes the URL (content manager).
Push ==
    /\ state' = Created(order', renderable')
    /\ url' = Packed(state', managed')

Listed(c) == c \in search /\ (onlyShown => c \in renderable)

\* The checkbox of a listed column.
Toggle(c) ==
    /\ Listed(c)
    /\ c \notin disabled
    /\ ShowOnly(IF c \in renderable THEN renderable \ {c} ELSE renderable \cup {c})
    /\ UNCHANGED <<table, managed, order, search, onlyShown>>
    /\ Push

\* onSelectAll: one push for each column that appears.
SelectAll ==
    /\ \E c \in Managed : Listed(c) /\ c \notin renderable
    /\ ShowOnly(renderable \cup {c \in Managed : Listed(c) /\ c \notin disabled})
    /\ UNCHANGED <<table, managed, order, search, onlyShown>>
    /\ Push

\* onReorder: list is the rows' order now, rows that are filtered out included.
Reorder(list) ==
    /\ order' = [c \in DOMAIN order |-> IF c \in Managed THEN Position(list, c) ELSE order[c]]
    /\ order' # order
    /\ managed' = Sorted(managed, order')
    /\ table' = Sorted(table, order')
    /\ UNCHANGED <<renderable, disabled, search, onlyShown>>
    /\ Push

Drag(c, i) ==
    /\ Listed(c)
    /\ Reorder(InsertAt(AsIn(Managed \ {c}, managed), i, c))

\* onMoveUp and onMoveDown: past the neighbour, seen or not.
Swap(c, up) ==
    LET i == Position(managed, c) + 1
        j == IF up THEN i - 1 ELSE i + 1
    IN  /\ Listed(c)
        /\ j \in DOMAIN managed
        /\ Reorder([managed EXCEPT ![i] = managed[j], ![j] = managed[i]])

Search(matches) ==
    /\ search # matches
    /\ search' = matches
    /\ UNCHANGED <<table, managed, order, renderable, disabled, state, url, onlyShown>>

ShowSelected(only) ==
    /\ onlyShown # only
    /\ onlyShown' = only
    /\ UNCHANGED <<table, managed, order, renderable, disabled, state, url, search>>

SortManagedOnly(ord) == managed' = Sorted(managed, ord) /\ table' = table

\* The managed columns are sorted, and the table upon their event.
SortAll(ord) == managed' = Sorted(managed, ord) /\ table' = Sorted(table, ord)

(***************************************************************************)
(* _applyState upon a saved view.  The columns change one by one, and what *)
(* their events would push is held back until all have changed.            *)
(***************************************************************************)
Apply(s) ==
    LET same == s = Created(order, renderable)
        ord  == [c \in DOMAIN order |-> IF c \in Managed THEN OrderFrom(managed, order, c, s)
                                        ELSE order[c]]
    IN  /\ state' = s
        /\ order' = IF same THEN order ELSE ord
        /\ IF same THEN UNCHANGED <<renderable, disabled>>
           ELSE ShowOnly({c \in Managed : ShownBy(c, s)})
        /\ IF same THEN UNCHANGED <<managed, table>> ELSE SortAll(ord)
        /\ url' = Packed(s, AllColumns)
        /\ UNCHANGED <<search, onlyShown>>

Next ==
    \/ Reload
    \/ \E c \in Managed : Toggle(c)
    \/ SelectAll
    \/ \E c \in Managed, i \in DOMAIN managed : Drag(c, i)
    \/ \E c \in Managed, up \in BOOLEAN : Swap(c, up)
    \/ \E matches \in Searches : Search(matches)
    \/ \E only \in BOOLEAN : ShowSelected(only)
    \/ \E s \in Views : Apply(s)

Spec == Init /\ [][Next]_vars

-----------------------------------------------------------------------------
TypeOK ==
    /\ ToSet(table) = ToSet(AllColumns) /\ Len(table) = Len(AllColumns)
    /\ ToSet(managed) = Managed /\ Len(managed) = Cardinality(Managed)
    /\ order \in [ToSet(AllColumns) -> Nat]
    /\ renderable \subseteq Managed
    /\ disabled \subseteq renderable

\* The copies agree: the table has the managed columns in the manager's order,
\* between the checkboxes and the actions, the columns are as the grid's state
\* says, where it does, and no column can be hidden that is required or the last
\* one (_pushState, _applyState, the sort handler, updateVisibilityChange).
CopiesAgree ==
    /\ AsIn(Managed, table) = managed
    /\ Head(table) = SelectColumn /\ table[Len(table)] = ActionsColumn
    /\ \A c \in Managed \cap DOMAIN state :
          state[c] = [renderable |-> c \in renderable, order |-> order[c]]
    /\ disabled = Disabled(renderable)

=============================================================================

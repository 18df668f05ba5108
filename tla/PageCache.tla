------------------------------- MODULE PageCache -------------------------------
(***************************************************************************)
(* The grid that is left and come back to (content-manager.js with         *)
(* pageable-collection.js): its state is kept in the page's URL, and a     *)
(* clone of the collection, rows included, in the page cache.  Who comes   *)
(* back gets the clone if it is what the URL says, and otherwise the page  *)
(* that the server makes from the URL.                                     *)
(*                                                                         *)
(* A state is reduced to a page, a view with what it sorts, the filters    *)
(* and the columns.  The page cache itself is outside the repository: it   *)
(* holds one value for the grid, and may have dropped it.                  *)
(***************************************************************************)
EXTENDS Naturals

CONSTANTS
    Views,      \* grid views
    All,        \* the system view, with no filters
    Filters,    \* what is filtered for, besides nothing
    Columns,    \* arrangements of the columns, besides the initial one
    MaxPage,
    Slots,      \* bound on the requests in flight
    None        \* no filter, nothing rearranged, no parameter in the URL

VARIABLES
    state,      \* collection.state
    rows,       \* what the request for the collection's models asked for
    sent,       \* what the requests in flight ask for
    newest,     \* ghost: the slot of the last of them
    settled,    \* ghost: the last request was answered, and after the others
    url,        \* the grid's parameter
    cached,     \* the clone in the page cache
    sound,      \* ghost: it was made when all was settled
    here,       \* the user is on the page
    default     \* the view the user has as default

vars == <<state, rows, sent, newest, settled, url, cached, sound, here, default>>

States  == [page : 1 .. MaxPage, view : Views, filters : Filters \cup {None},
            columns : Columns \cup {None}]
Initial == [page |-> 1, view |-> All, filters |-> None, columns |-> None]
Idle    == [page |-> 0]
Nothing == [state |-> Idle]

PageCacheAssumption ==
    /\ All \in Views /\ MaxPage \in Nat \ {0}
    /\ Filters # {}
    /\ None \notin Filters \cup Columns \cup States

-----------------------------------------------------------------------------
\* processFiltersParams and generateParameterStrings; processAdditionalParams;
\* and what processQueryParams adds to them.  The columns are not asked for.
FiltersParams(st)    == [filters |-> st.filters]
AdditionalParams(st) == [view |-> st.view]
Params(st) ==
    [page |-> st.page, view |-> AdditionalParams(st).view, filters |-> FiltersParams(st).filters]

Asked == {Params(st) : st \in States}

\* _encodeStateData and decodeStateData, which are inverse for these.
Encode(st)   == st
Decode(hash) == hash

\* stateHashValue(true)
HashOf(st) == IF Encode(st) = Encode(Initial) THEN None ELSE Encode(st)

Addresses == {HashOf(st) : st \in States}

TypeOK ==
    /\ state \in States /\ rows \in Asked
    /\ sent \in [Slots -> Asked \cup {Idle}] /\ newest \in Slots
    /\ url \in Addresses
    /\ cached = Nothing \/ (cached.state \in States /\ cached.rows \in Asked)
    /\ {settled, sound, here} \subseteq BOOLEAN
    /\ default \in Views

\* The state of a view: initialState and toGridState.
StateOf(v) ==
    [Initial EXCEPT !.view = v, !.filters = IF v = All THEN None ELSE CHOOSE f \in Filters : TRUE]

\* What the server makes of the parameter, with the default view if there is
\* none: combineCollectionOptions.
Served(hash) == IF hash = None THEN StateOf(default) ELSE Decode(hash)

\* updateState of content-manager.js.
Save(st, rs) ==
    /\ url' = HashOf(st)
    /\ cached' = [state |-> st, rows |-> rs]

\* The page is made, and its collection traced.
Open(st, rs) ==
    /\ state' = st /\ rows' = rs
    /\ Save(st, rs)
    /\ here' = TRUE

Init ==
    /\ default \in Views
    /\ \E hash \in Addresses :
          /\ state = Served(hash) /\ rows = Params(state)
          /\ url = HashOf(state) /\ cached = [state |-> state, rows |-> rows]
    /\ sent = [s \in Slots |-> Idle] /\ newest \in Slots
    /\ settled = TRUE /\ sound = TRUE /\ here = TRUE

-----------------------------------------------------------------------------
\* fetch, in server mode.
Fetch(st) ==
    \E s \in Slots :
        /\ sent[s] = Idle
        /\ sent' = [sent EXCEPT ![s] = Params(st)]
        /\ newest' = s
        /\ settled' = FALSE

\* getPage, and filters and sorting, which change the state and tell nobody.
Change(st) ==
    /\ here
    /\ state' = st
    /\ Fetch(st)
    /\ UNCHANGED <<rows, url, cached, sound, here, default>>

GetPage(n) == n # state.page /\ Change([state EXCEPT !.page = n])

Filter(f) == f # state.filters /\ Change([state EXCEPT !.filters = f, !.page = 1])

\* changeView and ResetCollectionAction: updateState and then fetch.
ChangeView(v) ==
    /\ here
    /\ state' = StateOf(v)
    /\ Save(state', rows)
    /\ sound' = FALSE
    /\ Fetch(state')
    /\ UNCHANGED <<rows, here, default>>

\* The column manager's updateState, which no fetch follows.
Rearrange(c) ==
    /\ here
    /\ state' = [state EXCEPT !.columns = c]
    /\ Save(state', rows)
    /\ sound' = settled
    /\ UNCHANGED <<rows, sent, newest, settled, here, default>>

\* (A definition named for a mistake is the mutant of the one after it.)
AnswerSavedBefore(s) ==
    /\ sent[s] # Idle
    /\ rows' = sent[s]
    /\ sent' = [sent EXCEPT ![s] = Idle]
    /\ settled' = (s = newest /\ \A t \in Slots : sent'[t] = Idle)
    /\ Save(state, rows)
    /\ sound' = settled'
    /\ UNCHANGED <<state, newest, here, default>>

\* The models are reset, and then saved.
Answer(s) ==
    /\ sent[s] # Idle
    /\ rows' = sent[s]
    /\ sent' = [sent EXCEPT ![s] = Idle]
    /\ settled' = (s = newest /\ \A t \in Slots : sent'[t] = Idle)
    /\ Save(state, rows')
    /\ sound' = settled'
    /\ UNCHANGED <<state, newest, here, default>>

Fail(s) ==
    /\ sent[s] # Idle
    /\ sent' = [sent EXCEPT ![s] = Idle]
    /\ UNCHANGED <<state, rows, newest, settled, url, cached, sound, here, default>>

\* GridViewsView.onUseAsDefault.
UseAsDefault(v) ==
    /\ here
    /\ default' = v
    /\ UNCHANGED <<state, rows, sent, newest, settled, url, cached, sound, here>>

\* page:beforeChange: nothing is traced any more; the page may be kept.
Leave ==
    /\ here
    /\ here' = FALSE
    /\ sent' = [s \in Slots |-> Idle]
    /\ \/ UNCHANGED cached
       \/ cached' = Nothing
    /\ UNCHANGED <<state, rows, newest, settled, url, sound, default>>

-----------------------------------------------------------------------------
\* contentManager.get: does the cached collection reflect the URL?
IsActual(address) == cached # Nothing /\ HashOf(cached.state) = address

\* DataGridComponent.build
Visit(address) ==
    /\ ~here
    /\ \/ IsActual(address) /\ Open(cached.state, cached.rows) /\ UNCHANGED <<settled, sound>>
       \/ /\ ~IsActual(address)
          /\ Open(Served(address), Params(Served(address)))
          /\ settled' = TRUE /\ sound' = TRUE
    /\ UNCHANGED <<sent, newest, default>>

Next ==
    \/ \E n \in 1 .. MaxPage : GetPage(n)
    \/ \E f \in Filters \cup {None} : Filter(f)
    \/ \E v \in Views : ChangeView(v) \/ UseAsDefault(v)
    \/ \E c \in Columns \cup {None} : Rearrange(c)
    \/ \E s \in Slots : Answer(s) \/ Fail(s)
    \/ Leave
    \/ \E address \in Addresses : Visit(address)

Spec == Init /\ [][Next]_vars

-----------------------------------------------------------------------------
\* Who comes to an address gets the state it stands for, with the rows of that
\* state unless the page was saved before they came; who comes back to where
\* it was left, all answered, gets what was shown.  No parameter stands for
\* the initial state, but the server takes the default view for it.
ComesBack ==
    [][\A address \in Addresses : Visit(address) =>
          LET stands == address # None \/ default = All \/ IsActual(address)
          IN  /\ stands => HashOf(state') = address
              /\ sound \/ ~IsActual(address) => rows' = Params(state')
              /\ stands /\ address = url /\ settled => state' = state /\ rows' = rows]_vars

=============================================================================

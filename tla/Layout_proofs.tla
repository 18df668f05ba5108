----------------------------- MODULE Layout_proofs -----------------------------
(***************************************************************************)
(* Proofs about five of the parts that MCLayout runs, each for any values  *)
(* of its constants: who comes back to the page gets what the address      *)
(* stands for (PageCache); saved views and the mark of edited settings     *)
(* (ViewState, for grids without multiple sorting); the sorting that is    *)
(* shown (Sorting); the columns and their manager (ColumnManager); cards   *)
(* that are moved over the board (BoardMoves).                             *)
(***************************************************************************)
EXTENDS MCLayout, Arrangement, FiniteSetTheorems, SequenceTheorems, WellFoundedInduction, TLAPS

\* What is cached is what the address of the page says, and if it was saved
\* when all was settled its rows are those of its state.
CacheOK ==
    cached # Nothing =>
        /\ cached.state \in States
        /\ url = HashOf(cached.state)
        /\ sound => cached.rows = Params(cached.state)

\* When the last request is answered, after the others, the page shows the rows
\* of its state, and that is what the address says and what is cached.
SettledOK ==
    settled =>
        /\ rows = Params(state)
        /\ url = HashOf(state)
        /\ cached # Nothing => cached.state = state /\ cached.rows = rows

\* The last request is for the state there is: whatever changes the state, but
\* for the columns, sends another.
NewestOK == sent[newest] # Idle => sent[newest] = Params(state)

Elsewhere == ~here => \A s \in Slots : sent[s] = Idle

IInv ==
    /\ state \in States
    /\ default \in Views
    /\ newest \in Slots
    /\ DOMAIN sent = Slots
    /\ CacheOK /\ SettledOK /\ NewestOK /\ Elsewhere

-----------------------------------------------------------------------------
\* The state of a view is a state, and that of the system view the initial one
\* (GridViewsView.changeView).
LEMMA StateOfView ==
    ASSUME PageCacheAssumption, NEW v \in Views
    PROVE  StateOf(v) \in States /\ StateOf(All) = Initial
<1>1. PICK f \in Filters : f = CHOOSE g \in Filters : TRUE
  BY DEF PageCacheAssumption
<1>2. 1 \in 1 .. MaxPage
  BY DEF PageCacheAssumption
<1>3. Initial \in States
  BY <1>2 DEF PageCacheAssumption, States, Initial
<1>4. StateOf(v) \in States
  BY <1>1, <1>3 DEF PageCacheAssumption, States, Initial, StateOf
<1>5. StateOf(All) = Initial
  <2>1. StateOf(All) \in States
    BY <1>3 DEF PageCacheAssumption, States, StateOf
  <2>2. /\ StateOf(All).page = Initial.page /\ StateOf(All).view = Initial.view
        /\ StateOf(All).filters = Initial.filters
        /\ StateOf(All).columns = Initial.columns
    BY DEF StateOf, Initial
  <2>. QED  BY <1>3, <2>1, <2>2 DEF States
<1>. QED  BY <1>4, <1>5

\* An address stands for one state: no parameter for the initial one
\* (stateHashValue, decodeStateData).
LEMMA HashOfState ==
    ASSUME PageCacheAssumption, NEW st \in States
    PROVE  /\ HashOf(st) = None => st = Initial
           /\ HashOf(st) # None => Decode(HashOf(st)) = st
<1>1. st # None
  BY DEF PageCacheAssumption
<1>. QED  BY <1>1 DEF HashOf, Encode, Decode

\* What the server makes of an address is a state, which the address stands for
\* if there is a parameter or no default view (combineCollectionOptions).
LEMMA ServedState ==
    ASSUME PageCacheAssumption, default \in Views, NEW address \in Addresses
    PROVE  /\ Served(address) \in States
           /\ address # None \/ default = All => HashOf(Served(address)) = address
<1>1. PICK st \in States : address = HashOf(st)
  BY DEF Addresses
<1>2. CASE address = None
  <2>1. Served(address) = StateOf(default)
    BY <1>2 DEF Served
  <2>2. HashOf(Initial) = None
    BY DEF HashOf
  <2>. QED  BY <1>2, <2>1, <2>2, StateOfView
<1>3. CASE address # None
  <2>1. Served(address) = st
    BY <1>1, <1>3, HashOfState DEF Served
  <2>. QED  BY <1>1, <1>3, <2>1
<1>. QED  BY <1>2, <1>3

-----------------------------------------------------------------------------
LEMMA InitInv == PageCacheAssumption /\ Init => IInv
<1>. SUFFICES ASSUME PageCacheAssumption, Init PROVE IInv
  OBVIOUS
<1>1. PICK hash \in Addresses :
          /\ state = Served(hash) /\ rows = Params(state)
          /\ url = HashOf(state) /\ cached = [state |-> state, rows |-> rows]
  BY DEF Init
<1>2. state \in States
  BY <1>1, ServedState DEF Init
<1>3. cached.state = state /\ cached.rows = rows
  BY <1>1
<1>. QED  BY <1>1, <1>2, <1>3 DEF Init, IInv, CacheOK, SettledOK, NewestOK, Elsewhere

\* A request for the state that comes with it (fetch).
LEMMA FetchInv ==
    ASSUME IInv, NEW st \in States, Fetch(st), state' = st, here, UNCHANGED here
    PROVE  /\ newest' \in Slots /\ DOMAIN sent' = Slots
           /\ SettledOK' /\ NewestOK' /\ Elsewhere'
<1>1. PICK s \in Slots : /\ sent[s] = Idle
                         /\ sent' = [sent EXCEPT ![s] = Params(st)]
                         /\ newest' = s
                         /\ settled' = FALSE
  BY DEF Fetch
<1>2. sent'[newest'] = Params(state')
  BY <1>1 DEF IInv
<1>. QED  BY <1>1, <1>2 DEF IInv, SettledOK, NewestOK, Elsewhere, Params, AdditionalParams,
                            FiltersParams

\* Pages, filters and sorting change the state and tell nobody (getPage).
LEMMA ChangeInv ==
    ASSUME IInv, NEW st \in States, Change(st)
    PROVE  IInv'
<1>1. /\ newest' \in Slots /\ DOMAIN sent' = Slots
      /\ SettledOK' /\ NewestOK' /\ Elsewhere'
  BY FetchInv DEF Change
<1>2. CacheOK'
  BY DEF Change, IInv, CacheOK, HashOf, Encode, Params, AdditionalParams, FiltersParams
<1>. QED  BY <1>1, <1>2 DEF Change, IInv

LEMMA NextInv == PageCacheAssumption /\ IInv /\ [Next]_vars => IInv'
<1>. SUFFICES ASSUME PageCacheAssumption, IInv, [Next]_vars PROVE IInv'
  OBVIOUS
<1>. USE DEF IInv
<1>1. ASSUME NEW n \in 1 .. MaxPage, GetPage(n) PROVE IInv'
  <2>1. [state EXCEPT !.page = n] \in States
    BY DEF States
  <2>. QED  BY <1>1, <2>1, ChangeInv DEF GetPage
<1>2. ASSUME NEW f \in Filters \cup {None}, Filter(f) PROVE IInv'
  <2>1. 1 \in 1 .. MaxPage
    BY DEF PageCacheAssumption
  <2>2. [state EXCEPT !.filters = f, !.page = 1] \in States
    BY <2>1 DEF States
  <2>. QED  BY <1>2, <2>2, ChangeInv DEF Filter
<1>3. ASSUME NEW v \in Views, ChangeView(v) PROVE IInv'
  <2>1. StateOf(v) \in States /\ state' = StateOf(v)
    BY <1>3, StateOfView DEF ChangeView
  <2>2. /\ newest' \in Slots /\ DOMAIN sent' = Slots
        /\ SettledOK' /\ NewestOK' /\ Elsewhere'
    BY <1>3, <2>1, FetchInv DEF ChangeView
  <2>3. CacheOK'
    BY <1>3, <2>1 DEF ChangeView, Save, CacheOK, HashOf, Encode
  <2>. QED  BY <1>3, <2>1, <2>2, <2>3 DEF ChangeView
<1>4. ASSUME NEW v \in Views, UseAsDefault(v) PROVE IInv'
  BY <1>4 DEF UseAsDefault, CacheOK, SettledOK, NewestOK, Elsewhere, HashOf, Encode, Params,
              AdditionalParams, FiltersParams
<1>5. ASSUME NEW c \in Columns \cup {None}, Rearrange(c) PROVE IInv'
  <2>1. state' \in States /\ Params(state') = Params(state)
    BY <1>5 DEF Rearrange, States, Params, AdditionalParams, FiltersParams
  <2>2. /\ url' = HashOf(state')
        /\ cached' = [state |-> state', rows |-> rows]
        /\ sound' = settled /\ settled' = settled /\ rows' = rows
    BY <1>5 DEF Rearrange, Save
  <2>3. cached'.state = state' /\ cached'.rows = rows
    BY <2>2
  <2>4. SettledOK'
    BY <2>1, <2>2, <2>3 DEF SettledOK, HashOf, Encode, Params, AdditionalParams, FiltersParams
  <2>5. settled => rows = Params(state')
    BY <2>1 DEF SettledOK
  <2>6. CacheOK'
    BY <2>1, <2>2, <2>3, <2>5 DEF CacheOK, HashOf, Encode, Params, AdditionalParams, FiltersParams
  <2>7. NewestOK' /\ Elsewhere'
    BY <1>5, <2>1 DEF Rearrange, NewestOK, Elsewhere
  <2>. QED  BY <1>5, <2>1, <2>4, <2>6, <2>7 DEF Rearrange
<1>6. ASSUME NEW s \in Slots, Answer(s) PROVE IInv'
  <2>1. /\ sent[s] # Idle /\ rows' = sent[s]
        /\ sent' = [sent EXCEPT ![s] = Idle]
        /\ settled' = (s = newest /\ \A t \in Slots : sent'[t] = Idle)
        /\ url' = HashOf(state) /\ cached' = [state |-> state, rows |-> rows']
        /\ sound' = settled'
        /\ UNCHANGED <<state, newest, here, default>>
    BY <1>6 DEF Answer, Save
  <2>2. cached'.state = state /\ cached'.rows = rows'
    BY <2>1
  <2>3. settled' => rows' = Params(state)
    BY <2>1 DEF NewestOK
  <2>4. CacheOK' /\ SettledOK'
    BY <2>1, <2>2, <2>3 DEF CacheOK, SettledOK, HashOf, Encode, Params, AdditionalParams,
                            FiltersParams
  <2>5. NewestOK' /\ Elsewhere'
    BY <2>1 DEF NewestOK, Elsewhere
  <2>. QED  BY <2>1, <2>4, <2>5
<1>7. ASSUME NEW s \in Slots, Fail(s) PROVE IInv'
  <2>1. NewestOK' /\ Elsewhere'
    BY <1>7 DEF Fail, NewestOK, Elsewhere
  <2>2. CacheOK' /\ SettledOK'
    BY <1>7 DEF Fail, CacheOK, SettledOK
  <2>. QED  BY <1>7, <2>1, <2>2 DEF Fail
<1>8. ASSUME Leave PROVE IInv'
  <2>1. NewestOK' /\ Elsewhere' /\ DOMAIN sent' = Slots
    BY <1>8 DEF Leave, NewestOK, Elsewhere
  <2>2. CacheOK' /\ SettledOK'
    BY <1>8 DEF Leave, CacheOK, SettledOK
  <2>. QED  BY <1>8, <2>1, <2>2 DEF Leave
<1>9. ASSUME NEW address \in Addresses, Visit(address) PROVE IInv'
  <2>1. /\ cached' = [state |-> state', rows |-> rows']
        /\ url' = HashOf(state')
        /\ UNCHANGED <<sent, newest, default>>
    BY <1>9 DEF Visit, Open, Save
  <2>2. cached'.state = state' /\ cached'.rows = rows'
    BY <2>1
  <2>3. /\ state' \in States
        /\ sound' => rows' = Params(state')
        /\ settled' => rows' = Params(state')
    <3>1. CASE IsActual(address)
      BY <1>9, <3>1 DEF Visit, Open, IsActual, CacheOK, SettledOK
    <3>2. CASE ~IsActual(address)
      BY <1>9, <3>2, ServedState DEF Visit, Open
    <3>. QED  BY <3>1, <3>2
  <2>4. CacheOK' /\ SettledOK'
    BY <2>1, <2>2, <2>3 DEF CacheOK, SettledOK
  <2>5. \A s \in Slots : sent[s] = Idle
    BY <1>9 DEF Visit, Elsewhere
  <2>6. NewestOK' /\ Elsewhere'
    BY <2>1, <2>5 DEF NewestOK, Elsewhere
  <2>. QED  BY <2>1, <2>3, <2>4, <2>6
<1>10. CASE UNCHANGED vars
  BY <1>10 DEF vars, CacheOK, SettledOK, NewestOK, Elsewhere
<1>. QED
  BY <1>1, <1>2, <1>3, <1>4, <1>5, <1>6, <1>7, <1>8, <1>9, <1>10 DEF Next

-----------------------------------------------------------------------------
\* One coming back, from what holds before it.
LEMMA VisitComesBack ==
    ASSUME PageCacheAssumption, IInv, NEW address \in Addresses, Visit(address)
    PROVE  LET stands == address # None \/ default = All \/ IsActual(address)
           IN  /\ stands => HashOf(state') = address
               /\ sound \/ ~IsActual(address) => rows' = Params(state')
               /\ stands /\ address = url /\ settled => state' = state /\ rows' = rows
<1>. DEFINE stands == address # None \/ default = All \/ IsActual(address)
<1>1. CASE IsActual(address)
  <2>1. state' = cached.state /\ rows' = cached.rows /\ cached # Nothing
    BY <1>1 DEF Visit, Open, IsActual
  <2>2. HashOf(state') = address
    BY <1>1, <2>1 DEF IsActual, HashOf, Encode
  <2>3. sound => rows' = Params(state')
    BY <2>1 DEF IInv, CacheOK, Params, AdditionalParams, FiltersParams
  <2>4. settled => state' = state /\ rows' = rows
    BY <2>1 DEF IInv, SettledOK
  <2>. QED  BY <1>1, <2>2, <2>3, <2>4
<1>2. CASE ~IsActual(address)
  <2>1. state' = Served(address) /\ rows' = Params(Served(address))
    BY <1>2 DEF Visit, Open
  <2>2. stands => HashOf(state') = address
    BY <1>2, <2>1, ServedState DEF IInv
  <2>3. rows' = Params(state')
    BY <2>1
  <2>4. ASSUME stands, address = url, settled PROVE state' = state /\ rows' = rows
    <3>1. HashOf(state') = HashOf(state) /\ rows = Params(state)
      BY <2>2, <2>4 DEF IInv, SettledOK
    <3>2. state' \in States /\ state \in States
      BY <2>1, ServedState DEF IInv
    <3>3. state' = state
      BY <3>1, <3>2, HashOfState
    <3>. QED  BY <3>1, <3>3, <2>3
  <2>. QED  BY <1>2, <2>2, <2>3, <2>4
<1>. QED  BY <1>1, <1>2

\* Who comes to an address gets the state it stands for, with its rows unless
\* the page was saved before they came, and finds what was left, all answered,
\* as it was (content-manager.js).
THEOREM ComesBackAlways == PageCacheAssumption => (Spec => ComesBack)
<1>. SUFFICES ASSUME PageCacheAssumption PROVE Spec => ComesBack
  OBVIOUS
<1>1. Init => IInv
  BY InitInv
<1>2. IInv /\ [Next]_vars => IInv'
  BY NextInv
<1>3. IInv /\ [Next]_vars =>
        [\A address \in Addresses : Visit(address) =>
            LET stands == address # None \/ default = All \/ IsActual(address)
            IN  /\ stands => HashOf(state') = address
                /\ sound \/ ~IsActual(address) => rows' = Params(state')
                /\ stands /\ address = url /\ settled => state' = state /\ rows' = rows]_vars
  BY VisitComesBack
<1>. QED  BY <1>1, <1>2, <1>3, PTL DEF Spec, ComesBack

-----------------------------------------------------------------------------
(* Saved views and the mark of edited settings. *)

Contents == ViewSorters \cup {Blank}

SaveTypes ==
    [kind : Saves!Kinds, view : ViewNames, given : Saves!References,
     sent : [rest : Rest, type : Saves!Types, sorters : Contents], served : BOOLEAN]

ViewTypes ==
    /\ content \in [Saves!Objects -> Contents]
    /\ settings \in [view : ViewNames \cup {All}, given : Saves!References]
    /\ \A v \in DOMAIN models : v \in ViewNames \cup {All} /\ models[v] \in Saves!References
    /\ saves \subseteq SaveTypes
    /\ IsFiniteSet(saves) /\ Cardinality(saves) <= MaxSaves

\* The server has the view with the settings of its model.
InStep(v) ==
    /\ v \in DOMAIN models <=> v \in DOMAIN stored
    /\ v \in DOMAIN stored => Saves!AsStored(Saves!Value(models[v], content)) = stored[v]

\* What a request will leave in models is what it leaves on the server.
RequestOK(r) ==
    /\ r.kind \in {"save", "share"} => r.view \in DOMAIN models
    /\ r.kind = "share" => r.given = models[r.view]
    /\ r.served => IF r.kind = "delete" THEN r.view \notin DOMAIN stored
                   ELSE r.view \in DOMAIN stored /\ stored[r.view] = r.sent

OrderlyOK ==
    orderly =>
        /\ \A r, t \in saves : r = t
        /\ \A r \in saves : RequestOK(r)
        /\ \A v \in ViewNames \cup {All} : (\A r \in saves : r.served => r.view # v) => InStep(v)

\* What is sent is what the objects hold that came with it: nobody changes them.
SentOK == \A r \in saves : r.sent = Saves!AsStored(Saves!Value(r.given, content))

\* The settings have no type of appearance only as they came with a view that has
\* none, and no save of that view has another.
TypedOK ==
    /\ models[All].type = "grid"
    /\ settings.given.type = "empty" =>
          /\ settings.view \in DOMAIN models /\ models[settings.view].type = "empty"
          /\ \A r \in saves :
                r.kind = "save" /\ r.view = settings.view => r.given.type = "empty"

MarkedOK == marked <=> Saves!Dirty(settings, models, content)

ViewInv ==
    /\ ViewTypes /\ SentOK /\ OrderlyOK /\ MarkedOK /\ TypedOK
    /\ All \in DOMAIN models /\ InStep(All)

LEMMA ViewAssumption ==
    /\ All \notin ViewNames /\ Blank \notin ViewSorters
    /\ IsFiniteSet(ViewNames) /\ MaxSaves \in Nat /\ MaxObjects \in Nat
    /\ MaxObjects > Cardinality(ViewNames) + MaxSaves + 2
<1>1. \A S : Saves!Cardinality(S) = Cardinality(S)
  BY DEF Saves!Cardinality, Cardinality
<1>2. \A S : Saves!IsFiniteSet(S) = IsFiniteSet(S)
  BY DEF Saves!IsFiniteSet, IsFiniteSet
<1>. QED  BY <1>1, <1>2, LayoutAssumption DEF Saves!ViewStateAssumption

LEMMA HeldHas ==
    ASSUME NEW st, NEW ms, NEW rs
    PROVE  /\ st.given.object \in Saves!Held(st, ms, rs)
           /\ \A v \in DOMAIN ms : ms[v].object \in Saves!Held(st, ms, rs)
           /\ \A r \in rs : r.given.object \in Saves!Held(st, ms, rs)
BY DEF Saves!Held

\* What the conversions of the type do to settings.
LEMMA Converted ==
    ASSUME NEW r \in Saves!References, NEW c
    PROVE  /\ Saves!ToGridState(r) \in Saves!References /\ Saves!ToGridState(r).type # "empty"
           /\ Saves!ToGridState(r).object = r.object
           /\ Saves!Value(Saves!ToGridState(r), c) = Saves!ToGridState(Saves!Value(r, c))
           /\ Saves!ToGridState(Saves!AsStored(Saves!Value(r, c)))
                 = Saves!ToGridState(Saves!Value(r, c))
           /\ Saves!ToGridState(Saves!Value(r, c)) = Saves!Value(r, c) <=> r.type # "empty"
<1>1. r = [rest |-> r.rest, type |-> r.type, object |-> r.object] /\ r.type \in Saves!Types
  BY DEF Saves!References
<1>. DEFINE type == IF r.type = "empty" THEN "undefined" ELSE r.type
<1>2. Saves!ToGridState(r) = [rest |-> r.rest, type |-> type, object |-> r.object]
  BY <1>1 DEF Saves!ToGridState
<1>3. type \in Saves!Types /\ type # "empty"
  BY <1>1 DEF Saves!Types
<1>4. /\ Saves!Value(r, c) = [rest |-> r.rest, type |-> r.type, sorters |-> c[r.object]]
      /\ Saves!ToGridState(Saves!Value(r, c))
           = [rest |-> r.rest, type |-> type, sorters |-> c[r.object]]
  BY DEF Saves!Value, Saves!ToGridState
<1>5. Saves!Value(Saves!ToGridState(r), c) = [rest |-> r.rest, type |-> type, sorters |-> c[r.object]]
  BY <1>2 DEF Saves!Value
<1>6. Saves!ToGridState(Saves!AsStored(Saves!Value(r, c)))
        = [rest |-> r.rest, type |-> type, sorters |-> c[r.object]]
  BY <1>1, <1>4 DEF Saves!AsStored, Saves!ToGridState, Saves!Types
<1>7. Saves!ToGridState(Saves!Value(r, c)) = Saves!Value(r, c) <=> r.type # "empty"
  BY <1>1, <1>4
<1>8. Saves!ToGridState(r) \in Saves!References
  BY <1>1, <1>2, <1>3 DEF Saves!References
<1>. HIDE DEF type
<1>. QED  BY <1>2, <1>3, <1>4, <1>5, <1>6, <1>7, <1>8

\* Settings that are stored alike and are not the same differ in the type.
LEMMA StoredAlike ==
    ASSUME NEW r \in Saves!References, NEW t \in Saves!References, NEW c,
           Saves!AsStored(Saves!Value(r, c)) = Saves!AsStored(Saves!Value(t, c)),
           Saves!Value(r, c) # Saves!Value(t, c)
    PROVE  r.type = "empty" \/ t.type = "empty"
<1>1. /\ r.type \in Saves!Types /\ t.type \in Saves!Types
      /\ Saves!Value(r, c) = [rest |-> r.rest, type |-> r.type, sorters |-> c[r.object]]
      /\ Saves!Value(t, c) = [rest |-> t.rest, type |-> t.type, sorters |-> c[t.object]]
  BY DEF Saves!References, Saves!Value
<1>. QED  BY <1>1 DEF Saves!Types, Saves!AsStored

\* There is always an object that nothing refers to: there are more objects
\* than settings, views and requests.
LEMMA NewObject ==
    ASSUME ViewTypes
    PROVE  Saves!New \in Saves!Objects /\ Saves!New \notin Saves!Held(settings, models, saves)
<1>. DEFINE Own     == {settings.given.object}
            OfViews == {models[v].object : v \in DOMAIN models}
            OfSaves == {r.given.object : r \in saves}
            N       == Cardinality(ViewNames)
<1>1. N \in Nat /\ IsFiniteSet(ViewNames \cup {All}) /\ Cardinality(ViewNames \cup {All}) = N + 1
  BY ViewAssumption, FS_CardinalityType, FS_AddElement
<1>2. IsFiniteSet(DOMAIN models) /\ Cardinality(DOMAIN models) <= N + 1
  <2>1. DOMAIN models \subseteq ViewNames \cup {All}
    BY DEF ViewTypes
  <2>. QED  BY <1>1, <2>1, FS_Subset
<1>3. IsFiniteSet(OfViews) /\ Cardinality(OfViews) <= N + 1 /\ Cardinality(OfViews) \in Nat
  <2>. DEFINE f == [v \in DOMAIN models |-> models[v].object]
  <2>1. f \in Surjection(DOMAIN models, OfViews)
    BY DEF Surjection
  <2>2. IsFiniteSet(OfViews) /\ Cardinality(OfViews) <= Cardinality(DOMAIN models)
    BY <1>2, <2>1, FS_Surjection
  <2>3. Cardinality(DOMAIN models) \in Nat /\ Cardinality(OfViews) \in Nat
    BY <1>2, <2>2, FS_CardinalityType
  <2>. QED  BY <1>1, <1>2, <2>2, <2>3
<1>4. IsFiniteSet(OfSaves) /\ Cardinality(OfSaves) <= MaxSaves /\ Cardinality(OfSaves) \in Nat
  <2>. DEFINE f == [r \in saves |-> r.given.object]
  <2>1. f \in Surjection(saves, OfSaves)
    BY DEF Surjection
  <2>2. IsFiniteSet(OfSaves) /\ Cardinality(OfSaves) <= Cardinality(saves)
    BY <2>1, FS_Surjection DEF ViewTypes
  <2>3. Cardinality(saves) \in Nat /\ Cardinality(OfSaves) \in Nat
    BY <2>2, FS_CardinalityType DEF ViewTypes
  <2>. QED  BY <2>2, <2>3, ViewAssumption DEF ViewTypes
<1>5. IsFiniteSet(Own) /\ Cardinality(Own) = 1
  BY FS_Singleton
<1>. HIDE DEF Own, OfViews, OfSaves, N
<1>6. /\ IsFiniteSet(Own \cup OfViews) /\ Cardinality(Own \cup OfViews) <= N + 2
      /\ Cardinality(Own \cup OfViews) \in Nat
  <2>1. /\ IsFiniteSet(Own \cup OfViews)
        /\ Cardinality(Own \cup OfViews)
             = Cardinality(Own) + Cardinality(OfViews) - Cardinality(Own \cap OfViews)
    BY <1>3, <1>5, FS_Union
  <2>2. Cardinality(Own \cap OfViews) \in Nat
    BY <1>5, FS_Intersection, FS_CardinalityType
  <2>. QED  BY <1>1, <1>3, <1>5, <2>1, <2>2, FS_CardinalityType
<1>. DEFINE All3 == (Own \cup OfViews) \cup OfSaves
<1>7. IsFiniteSet(All3) /\ Cardinality(All3) <= N + 2 + MaxSaves /\ Cardinality(All3) \in Nat
  <2>1. /\ IsFiniteSet(All3)
        /\ Cardinality(All3) = Cardinality(Own \cup OfViews) + Cardinality(OfSaves)
                                  - Cardinality((Own \cup OfViews) \cap OfSaves)
    BY <1>4, <1>6, FS_Union
  <2>2. Cardinality((Own \cup OfViews) \cap OfSaves) \in Nat
    BY <1>6, FS_Intersection, FS_CardinalityType
  <2>. QED  BY <1>1, <1>4, <1>6, <2>1, <2>2, ViewAssumption, FS_CardinalityType
<1>8. All3 = Saves!Held(settings, models, saves)
  BY DEF Saves!Held, Own, OfViews, OfSaves
<1>9. IsFiniteSet(Saves!Objects) /\ Cardinality(Saves!Objects) = MaxObjects
  <2>1. /\ IsFiniteSet(1 .. MaxObjects)
        /\ Cardinality(1 .. MaxObjects) = IF 1 > MaxObjects THEN 0 ELSE MaxObjects - 1 + 1
    BY ViewAssumption, FS_Interval
  <2>. QED  BY <2>1, ViewAssumption DEF Saves!Objects
<1>10. \E o \in Saves!Objects : o \notin All3
  <2>1. ASSUME Saves!Objects \subseteq All3 PROVE FALSE
    <3>1. Cardinality(Saves!Objects) <= Cardinality(All3)
      BY <1>7, <2>1, FS_Subset
    <3>. QED  BY <1>1, <1>7, <1>9, <3>1, ViewAssumption DEF N
  <2>. QED  BY <2>1
<1>. QED  BY <1>8, <1>10 DEF Saves!New

\* What is referred to keeps its content.
LEMMA KeptValue ==
    ASSUME NEW c \in [Saves!Objects -> Contents], Saves!Keep(c), NEW r \in Saves!References,
           r.object \in Saves!Held(settings', models', saves')
    PROVE  /\ content' \in [Saves!Objects -> Contents]
           /\ Saves!Value(r, content') = Saves!Value(r, c)
<1>1. content' = [o \in Saves!Objects |->
                    IF o \in Saves!Held(settings', models', saves') THEN c[o] ELSE Blank]
  BY DEF Saves!Keep
<1>2. content' \in [Saves!Objects -> Contents]
  BY <1>1 DEF Contents
<1>3. r.object \in Saves!Objects
  BY DEF Saves!References
<1>. QED  BY <1>1, <1>2, <1>3 DEF Saves!Value

\* All that stays referred to keeps its value, whatever else changes.
LEMMA KeptValues ==
    ASSUME ViewInv, Saves!Keep(content), settings'.given \in Saves!References
    PROVE  /\ content' \in [Saves!Objects -> Contents]
           /\ Saves!Value(settings'.given, content') = Saves!Value(settings'.given, content)
           /\ \A v \in DOMAIN models' : models'[v] \in Saves!References =>
                 Saves!Value(models'[v], content') = Saves!Value(models'[v], content)
           /\ \A r \in saves' : r.given \in Saves!References =>
                 Saves!Value(r.given, content') = Saves!Value(r.given, content)
<1>1. content \in [Saves!Objects -> Contents]
  BY DEF ViewInv, ViewTypes
<1>2. /\ settings'.given.object \in Saves!Held(settings', models', saves')
      /\ \A v \in DOMAIN models' : models'[v].object \in Saves!Held(settings', models', saves')
      /\ \A r \in saves' : r.given.object \in Saves!Held(settings', models', saves')
  BY HeldHas
<1>3. \A r \in Saves!References : r.object \in Saves!Held(settings', models', saves') =>
         /\ content' \in [Saves!Objects -> Contents]
         /\ Saves!Value(r, content') = Saves!Value(r, content)
  BY <1>1, KeptValue
<1>. QED  BY <1>2, <1>3

\* Steps that change the settings, and neither views nor requests.
LEMMA SettingsStep ==
    ASSUME ViewInv, UNCHANGED <<models, stored, saves, orderly>>, Saves!Render,
           settings' \in [view : ViewNames \cup {All}, given : Saves!References],
           content' \in [Saves!Objects -> Contents],
           \A v \in DOMAIN models :
              Saves!Value(models[v], content') = Saves!Value(models[v], content),
           \A r \in saves : Saves!Value(r.given, content') = Saves!Value(r.given, content),
           settings'.given.type = "empty" => settings'.view = settings.view /\ settings.given.type = "empty"
    PROVE  ViewInv'
<1>1. ViewTypes'
  BY DEF ViewInv, ViewTypes
<1>2. SentOK' /\ MarkedOK' /\ TypedOK'
  BY DEF ViewInv, SentOK, MarkedOK, TypedOK, Saves!Render
<1>3. \A v : InStep(v) => InStep(v)'
  BY DEF InStep
<1>4. OrderlyOK' /\ InStep(All)' /\ All \in DOMAIN models'
  BY <1>3 DEF ViewInv, OrderlyOK, RequestOK
<1>. QED  BY <1>1, <1>2, <1>4 DEF ViewInv

\* A request that is sent with settings of the collection or of a view.
LEMMA SendStep ==
    ASSUME ViewInv, NEW kind \in Saves!Kinds, NEW v \in ViewNames, NEW given \in Saves!References,
           Saves!Send(kind, v, given), UNCHANGED <<content, settings, models, marked, stored>>,
           kind \in {"save", "share"} => v \in DOMAIN models,
           kind = "share" => given = models[v],
           kind = "save" => given = settings.given
    PROVE  ViewInv'
<1>. DEFINE new == [kind |-> kind, view |-> v, given |-> given,
                    sent |-> Saves!AsStored(Saves!Value(given, content)), served |-> FALSE]
<1>1. /\ Saves!Cardinality(saves) < MaxSaves
      /\ saves' = saves \cup {new} /\ orderly' = (orderly /\ saves = {})
  BY DEF Saves!Send
<1>2. Saves!Cardinality(saves) = Cardinality(saves)
  BY DEF Saves!Cardinality, Cardinality
<1>3. Saves!AsStored(Saves!Value(given, content))
        \in [rest : Rest, type : Saves!Types, sorters : Contents]
  <2>1. /\ given.rest \in Rest /\ given.type \in Saves!Types
        /\ content[given.object] \in Contents
    BY DEF ViewInv, ViewTypes, Saves!References
  <2>. QED  BY <2>1 DEF Saves!Value, Saves!AsStored, Saves!Types
<1>4. new \in SaveTypes
  BY <1>3 DEF SaveTypes
<1>5. /\ new.kind = kind /\ new.view = v /\ new.given = given /\ new.served = FALSE
      /\ new.sent = Saves!AsStored(Saves!Value(given, content))
  OBVIOUS
<1>. HIDE DEF new
<1>6. IsFiniteSet(saves') /\ Cardinality(saves') <= MaxSaves
  <2>1. /\ IsFiniteSet(saves \cup {new})
        /\ Cardinality(saves \cup {new})
             = IF new \in saves THEN Cardinality(saves) ELSE Cardinality(saves) + 1
    BY FS_AddElement DEF ViewInv, ViewTypes
  <2>2. Cardinality(saves) \in Nat
    BY FS_CardinalityType DEF ViewInv, ViewTypes
  <2>. QED  BY <1>1, <1>2, <2>1, <2>2, ViewAssumption
<1>7. ViewTypes'
  BY <1>1, <1>4, <1>6 DEF ViewInv, ViewTypes
<1>8. SentOK' /\ MarkedOK' /\ TypedOK'
  BY <1>1, <1>5 DEF ViewInv, SentOK, MarkedOK, TypedOK
<1>9. \A w : InStep(w)' <=> InStep(w)
  BY DEF InStep
<1>10. OrderlyOK'
  BY <1>1, <1>5, <1>9 DEF ViewInv, OrderlyOK, RequestOK
<1>. QED  BY <1>7, <1>8, <1>9, <1>10 DEF ViewInv

\* A request that is gone, and what there is then.
LEMMA FewerSaves ==
    ASSUME ViewTypes, NEW r \in saves
    PROVE  /\ saves \ {r} \subseteq SaveTypes
           /\ IsFiniteSet(saves \ {r}) /\ Cardinality(saves \ {r}) <= MaxSaves
           /\ Cardinality(saves \ {r}) = Cardinality(saves) - 1
<1>1. /\ IsFiniteSet(saves \ {r})
      /\ Cardinality(saves \ {r}) = IF r \in saves THEN Cardinality(saves) - 1
                                    ELSE Cardinality(saves)
  BY FS_RemoveElement DEF ViewTypes
<1>2. Cardinality(saves) \in Nat
  BY FS_CardinalityType DEF ViewTypes
<1>. QED  BY <1>1, <1>2, ViewAssumption DEF ViewTypes

LEMMA ServeStep ==
    ASSUME ViewInv, NEW r \in saves, Saves!Serve(r)
    PROVE  ViewInv'
<1>. DEFINE served == [r EXCEPT !.served = TRUE]
<1>1. /\ ~r.served
      /\ r.kind = "create" => r.view \notin DOMAIN stored
      /\ r.kind # "create" => r.view \in DOMAIN stored
      /\ saves' = (saves \ {r}) \cup {served}
      /\ stored' = IF r.kind = "delete"
                   THEN [v \in DOMAIN stored \ {r.view} |-> stored[v]]
                   ELSE [v \in DOMAIN stored \cup {r.view} |->
                            IF v = r.view THEN r.sent ELSE stored[v]]
      /\ UNCHANGED <<content, settings, models, marked, orderly>>
  BY DEF Saves!Serve
<1>2. r \in SaveTypes
  BY DEF ViewInv, ViewTypes
<1>3. /\ served \in SaveTypes /\ served.kind = r.kind /\ served.view = r.view
      /\ served.given = r.given /\ served.sent = r.sent /\ served.served = TRUE
  BY <1>2 DEF SaveTypes
<1>. HIDE DEF served
<1>4. IsFiniteSet(saves') /\ Cardinality(saves') <= MaxSaves
  <2>1. /\ IsFiniteSet(saves \ {r}) /\ Cardinality(saves \ {r}) = Cardinality(saves) - 1
    BY FewerSaves DEF ViewInv
  <2>2. /\ IsFiniteSet((saves \ {r}) \cup {served})
        /\ Cardinality((saves \ {r}) \cup {served})
             = IF served \in saves \ {r} THEN Cardinality(saves \ {r})
               ELSE Cardinality(saves \ {r}) + 1
    BY <2>1, FS_AddElement
  <2>3. Cardinality(saves) \in Nat
    BY FS_CardinalityType DEF ViewInv, ViewTypes
  <2>. QED  BY <1>1, <2>1, <2>2, <2>3, ViewAssumption DEF ViewInv, ViewTypes
<1>5. ViewTypes'
  BY <1>1, <1>3, <1>4 DEF ViewInv, ViewTypes
<1>6. SentOK' /\ MarkedOK' /\ TypedOK'
  BY <1>1, <1>3 DEF ViewInv, SentOK, MarkedOK, TypedOK
<1>7. \A v : v # r.view => (InStep(v)' <=> InStep(v))
  BY <1>1 DEF InStep
<1>8. All \in DOMAIN models' /\ InStep(All)'
  <2>1. r.view # All
    BY <1>2, ViewAssumption DEF SaveTypes
  <2>. QED  BY <1>1, <1>7, <2>1 DEF ViewInv
<1>9. OrderlyOK'
  <2>. SUFFICES ASSUME orderly PROVE OrderlyOK'
    BY <1>1 DEF OrderlyOK
  <2>1. saves' = {served} /\ RequestOK(r)
    BY <1>1 DEF ViewInv, OrderlyOK
  <2>2. RequestOK(served)'
    BY <1>1, <1>3, <2>1 DEF RequestOK
  <2>3. \A v \in ViewNames \cup {All} : v # r.view => InStep(v)
    BY <2>1 DEF ViewInv, OrderlyOK
  <2>. QED  BY <1>3, <1>7, <2>1, <2>2, <2>3 DEF OrderlyOK
<1>. QED  BY <1>5, <1>6, <1>8, <1>9 DEF ViewInv

\* What an answer makes of the views and the settings.
LEMMA AnswerModels ==
    ASSUME ViewInv, NEW r \in saves, Saves!Answer(r)
    PROVE  /\ DOMAIN models' = IF r.kind = "create" THEN DOMAIN models \cup {r.view}
                               ELSE IF r.kind = "delete" THEN DOMAIN models \ {r.view}
                               ELSE DOMAIN models
           /\ \A v \in DOMAIN models' :
                 models'[v] = IF r.kind \in {"save", "create"} /\ v = r.view THEN r.given
                              ELSE models[v]
           /\ settings' \in [view : ViewNames \cup {All}, given : Saves!References]
           /\ settings' = settings \/ settings'.given.type # "empty"
           /\ r.kind = "delete" /\ r.view \in DOMAIN models => settings'.given.type # "empty"
<1>1. /\ r.kind \in Saves!Kinds /\ r.view \in ViewNames /\ r.given \in Saves!References
      /\ r.view # All /\ All \in DOMAIN models /\ models[All] \in Saves!References
      /\ settings \in [view : ViewNames \cup {All}, given : Saves!References]
  BY ViewAssumption DEF ViewInv, ViewTypes, SaveTypes
<1>2. CASE r.kind = "save"
  <2>1. /\ models' = [v \in DOMAIN models |-> IF v = r.view THEN r.given ELSE models[v]]
        /\ settings' = settings
    BY <1>2 DEF Saves!Answer
  <2>. QED  BY <1>1, <1>2, <2>1
<1>3. CASE r.kind = "share"
  <2>1. models' = models /\ settings' = settings
    BY <1>3 DEF Saves!Answer
  <2>. QED  BY <1>1, <1>3, <2>1
<1>4. CASE r.kind = "create"
  <2>1. /\ models' = [v \in DOMAIN models \cup {r.view} |->
                         IF v = r.view THEN r.given ELSE models[v]]
        /\ settings' = [view |-> r.view, given |-> Saves!ToGridState(models'[r.view])]
    BY <1>4 DEF Saves!Answer, Saves!ChangeView
  <2>2. models'[r.view] = r.given
    BY <2>1
  <2>. QED  BY <1>1, <1>4, <2>1, <2>2, Converted
<1>5. CASE r.kind = "delete"
  <2>1. /\ models' = [v \in DOMAIN models \ {r.view} |-> models[v]]
        /\ IF r.view \in DOMAIN models
           THEN settings' = [view |-> All, given |-> Saves!ToGridState(models'[All])]
           ELSE settings' = settings
    BY <1>5 DEF Saves!Answer, Saves!ChangeView
  <2>2. models'[All] = models[All]
    BY <1>1, <2>1
  <2>. QED  BY <1>1, <1>5, <2>1, <2>2, Converted
<1>. QED  BY <1>1, <1>2, <1>3, <1>4, <1>5 DEF Saves!Kinds

LEMMA AnswerStep ==
    ASSUME ViewInv, NEW r \in saves, Saves!Answer(r)
    PROVE  ViewInv'
<1>1. /\ r.served /\ saves' = saves \ {r} /\ UNCHANGED <<stored, orderly>>
      /\ Saves!Keep(content) /\ Saves!Render
  BY DEF Saves!Answer
<1>2. /\ r.kind \in Saves!Kinds /\ r.view \in ViewNames /\ r.given \in Saves!References
      /\ r.view # All
  BY ViewAssumption DEF ViewInv, ViewTypes, SaveTypes
<1>3. /\ settings' \in [view : ViewNames \cup {All}, given : Saves!References]
      /\ \A v \in DOMAIN models' : v \in ViewNames \cup {All} /\ models'[v] \in Saves!References
  <2>1. ASSUME NEW v \in DOMAIN models'
        PROVE  v \in ViewNames \cup {All} /\ models'[v] \in Saves!References
    <3>1. v = r.view \/ v \in DOMAIN models
      BY <2>1, AnswerModels
    <3>2. v \in DOMAIN models => v \in ViewNames \cup {All} /\ models[v] \in Saves!References
      BY DEF ViewInv, ViewTypes
    <3>3. v \notin DOMAIN models => r.kind = "create"
      BY <2>1, AnswerModels
    <3>. QED  BY <1>2, <2>1, <3>1, <3>2, <3>3, AnswerModels
  <2>. QED  BY <2>1, AnswerModels
<1>4. \A q1 \in saves' : q1.given \in Saves!References
  BY <1>1 DEF ViewInv, ViewTypes, SaveTypes
<1>5. /\ content' \in [Saves!Objects -> Contents]
      /\ \A v \in DOMAIN models' :
            Saves!Value(models'[v], content') = Saves!Value(models'[v], content)
      /\ \A q1 \in saves' : Saves!Value(q1.given, content') = Saves!Value(q1.given, content)
  BY <1>1, <1>3, <1>4, KeptValues
<1>6. ViewTypes'
  BY <1>1, <1>3, <1>5, FewerSaves DEF ViewInv, ViewTypes
<1>7. SentOK' /\ MarkedOK' /\ TypedOK'
  <2>1. SentOK' /\ MarkedOK'
    BY <1>1, <1>5 DEF ViewInv, SentOK, MarkedOK, Saves!Render
  <2>2. models'[All] = models[All] /\ All \in DOMAIN models'
    BY <1>2, AnswerModels DEF ViewInv
  <2>3. ASSUME settings'.given.type = "empty"
        PROVE  /\ settings'.view \in DOMAIN models' /\ models'[settings'.view].type = "empty"
               /\ \A t \in saves' : t.kind = "save" /\ t.view = settings'.view => t.given.type = "empty"
    <3>1. settings' = settings /\ ~(r.kind = "delete" /\ r.view \in DOMAIN models)
      BY <2>3, AnswerModels
    <3>2. /\ settings.view \in DOMAIN models /\ models[settings.view].type = "empty"
          /\ \A t \in saves : t.kind = "save" /\ t.view = settings.view => t.given.type = "empty"
      BY <2>3, <3>1 DEF ViewInv, TypedOK
    <3>3. settings.view \in DOMAIN models'
      BY <3>1, <3>2, AnswerModels
    <3>4. r.kind # "create"
      <4>. SUFFICES ASSUME r.kind = "create" PROVE FALSE
        OBVIOUS
      <4>1. settings' = [view |-> r.view, given |-> Saves!ToGridState(models'[r.view])]
        BY DEF Saves!Answer, Saves!ChangeView
      <4>2. models'[r.view] = r.given
        BY AnswerModels
      <4>3. settings'.given = Saves!ToGridState(r.given)
        BY <4>1, <4>2
      <4>. QED  BY <1>2, <2>3, <4>3, Converted
    <3>. QED  BY <1>1, <3>1, <3>2, <3>3, <3>4, AnswerModels
  <2>. QED  BY <2>1, <2>2, <2>3 DEF ViewInv, TypedOK
<1>8. ASSUME NEW v, v # r.view, InStep(v) PROVE InStep(v)'
  <2>1. /\ v \in DOMAIN models' <=> v \in DOMAIN models
        /\ v \in DOMAIN models' => models'[v] = models[v]
    <3>1. /\ DOMAIN models' = IF r.kind = "create" THEN DOMAIN models \cup {r.view}
                              ELSE IF r.kind = "delete" THEN DOMAIN models \ {r.view}
                              ELSE DOMAIN models
          /\ \A w \in DOMAIN models' :
                models'[w] = IF r.kind \in {"save", "create"} /\ w = r.view THEN r.given
                             ELSE models[w]
      BY AnswerModels
    <3>. QED  BY <1>8, <3>1
  <2>2. v \in DOMAIN models' => Saves!Value(models[v], content') = Saves!Value(models[v], content)
    BY <1>5, <2>1
  <2>. QED  BY <1>1, <1>8, <2>1, <2>2 DEF InStep
<1>9. All \in DOMAIN models' /\ InStep(All)'
  BY <1>2, <1>8, AnswerModels DEF ViewInv
<1>10. OrderlyOK'
  <2>. SUFFICES ASSUME orderly PROVE OrderlyOK'
    BY <1>1 DEF OrderlyOK
  <2>1. saves' = {} /\ RequestOK(r)
    BY <1>1 DEF ViewInv, OrderlyOK
  <2>2. \A v \in ViewNames \cup {All} : v # r.view => InStep(v)
    BY <2>1, <1>1 DEF ViewInv, OrderlyOK
  <2>3. r.sent = Saves!AsStored(Saves!Value(r.given, content))
    BY DEF ViewInv, SentOK
  <2>4. InStep(r.view)'
    <3>. DEFINE v == r.view
    <3>1. CASE r.kind = "delete"
      <4>1. v \notin DOMAIN models' /\ v \notin DOMAIN stored'
        BY <1>1, <2>1, <3>1, AnswerModels DEF RequestOK
      <4>. QED  BY <4>1 DEF InStep
    <3>2. CASE r.kind # "delete"
      <4>1. v \in DOMAIN stored /\ stored[v] = Saves!AsStored(Saves!Value(r.given, content))
        BY <1>1, <2>1, <2>3, <3>2 DEF RequestOK
      <4>2. v \in DOMAIN models'
        BY <1>2, <2>1, <3>2, AnswerModels DEF RequestOK, Saves!Kinds
      <4>3. models'[v] = r.given
        <5>1. CASE r.kind = "share"
          BY <2>1, <4>2, <5>1, AnswerModels DEF RequestOK
        <5>2. CASE r.kind \in {"save", "create"}
          BY <4>2, <5>2, AnswerModels
        <5>. QED  BY <1>2, <3>2, <5>1, <5>2 DEF Saves!Kinds
      <4>. QED  BY <1>1, <1>5, <4>1, <4>2, <4>3 DEF InStep
    <3>. QED  BY <3>1, <3>2
  <2>. QED  BY <1>8, <2>1, <2>2, <2>4 DEF OrderlyOK
<1>. QED  BY <1>6, <1>7, <1>9, <1>10 DEF ViewInv

LEMMA FailStep ==
    ASSUME ViewInv, NEW r \in saves, Saves!Fail(r)
    PROVE  ViewInv'
<1>1. /\ saves' = saves \ {r} /\ orderly' = (orderly /\ ~r.served)
      /\ UNCHANGED <<settings, models, marked, stored>> /\ Saves!Keep(content)
  BY DEF Saves!Fail
<1>2. /\ content' \in [Saves!Objects -> Contents]
      /\ Saves!Value(settings'.given, content') = Saves!Value(settings'.given, content)
      /\ \A v \in DOMAIN models' :
            Saves!Value(models'[v], content') = Saves!Value(models'[v], content)
      /\ \A q1 \in saves' : Saves!Value(q1.given, content') = Saves!Value(q1.given, content)
  BY <1>1, KeptValues DEF ViewInv, ViewTypes, SaveTypes
<1>3. ViewTypes'
  BY <1>1, <1>2, FewerSaves DEF ViewInv, ViewTypes
<1>4. SentOK' /\ MarkedOK' /\ TypedOK'
  BY <1>1, <1>2 DEF ViewInv, SentOK, MarkedOK, TypedOK, Saves!Dirty
<1>5. \A v : InStep(v)' <=> InStep(v)
  BY <1>1, <1>2 DEF InStep
<1>6. OrderlyOK'
  BY <1>1, <1>5 DEF ViewInv, OrderlyOK, RequestOK
<1>. QED  BY <1>1, <1>3, <1>4, <1>5, <1>6 DEF ViewInv

\* Sorting gives the settings an object of their own; the views keep theirs.
LEMMA SortStep ==
    ASSUME ViewInv, NEW s \in ViewSorters, Saves!Sort(s)
    PROVE  ViewInv'
<1>. DEFINE o == Saves!New
            c == [content EXCEPT ![o] = s]
<1>1. /\ UNCHANGED <<models, stored, saves, orderly>> /\ Saves!Render
      /\ settings' = [settings EXCEPT !.given.object = o] /\ Saves!Keep(c)
  BY DEF Saves!Sort, Saves!SetSorting
<1>2. o \in Saves!Objects /\ o \notin Saves!Held(settings, models, saves)
  BY NewObject DEF ViewInv
<1>. HIDE DEF o
<1>3. c \in [Saves!Objects -> Contents]
  BY <1>2 DEF ViewInv, ViewTypes, Contents
<1>4. /\ settings' \in [view : ViewNames \cup {All}, given : Saves!References]
      /\ settings'.given \in Saves!References
      /\ settings'.view = settings.view /\ settings'.given.type = settings.given.type
  BY <1>1, <1>2 DEF ViewInv, ViewTypes, Saves!References
<1>5. \A x1 \in Saves!References : x1.object \in Saves!Held(settings, models, saves) =>
        Saves!Value(x1, c) = Saves!Value(x1, content)
  BY <1>2 DEF ViewInv, ViewTypes, Saves!Value, Saves!References
<1>6. content' \in [Saves!Objects -> Contents]
  BY <1>1, <1>3, <1>4, KeptValue, HeldHas
<1>7. ASSUME NEW x1 \in Saves!References, x1.object \in Saves!Held(settings, models, saves),
             x1.object \in Saves!Held(settings', models', saves')
      PROVE  Saves!Value(x1, content') = Saves!Value(x1, content)
  BY <1>1, <1>3, <1>5, <1>7, KeptValue
<1>8. /\ \A v \in DOMAIN models : /\ models[v] \in Saves!References
                                 /\ models[v].object \in Saves!Held(settings, models, saves)
                                 /\ models[v].object \in Saves!Held(settings', models, saves)
      /\ \A r \in saves : /\ r.given \in Saves!References
                          /\ r.given.object \in Saves!Held(settings, models, saves)
                          /\ r.given.object \in Saves!Held(settings', models, saves)
  BY HeldHas DEF ViewInv, ViewTypes, SaveTypes
<1>9. /\ \A v \in DOMAIN models :
            Saves!Value(models[v], content') = Saves!Value(models[v], content)
      /\ \A r \in saves : Saves!Value(r.given, content') = Saves!Value(r.given, content)
  BY <1>1, <1>7, <1>8
<1>. QED  BY <1>1, <1>4, <1>6, <1>9, SettingsStep

\* New filters and columns, the settings of a view, and of the system view.
LEMMA GivenStep ==
    ASSUME ViewInv, UNCHANGED <<models, stored, saves, orderly>>,
           Saves!Keep(content), Saves!Render,
           settings' \in [view : ViewNames \cup {All}, given : Saves!References],
           settings'.given.type = "empty" => settings'.view = settings.view /\ settings.given.type = "empty"
    PROVE  ViewInv'
<1>1. settings'.given \in Saves!References
  OBVIOUS
<1>2. /\ \A v \in DOMAIN models : models[v] \in Saves!References
      /\ \A r \in saves : r.given \in Saves!References
  BY DEF ViewInv, ViewTypes, SaveTypes
<1>. QED  BY <1>1, <1>2, KeptValues, SettingsStep

LEMMA NextViewInv == ViewInv /\ [Saves!Next]_(Saves!vars) => ViewInv'
<1>. SUFFICES ASSUME ViewInv, [Saves!Next]_(Saves!vars) PROVE ViewInv'
  OBVIOUS
<1>1. /\ settings \in [view : ViewNames \cup {All}, given : Saves!References]
      /\ settings.given \in Saves!References
      /\ \A v \in DOMAIN models : v \in ViewNames \cup {All} /\ models[v] \in Saves!References
      /\ All \in DOMAIN models
  BY DEF ViewInv, ViewTypes
<1>2. ASSUME NEW rest \in Rest, NEW type \in Saves!Types, Saves!Rearrange(rest, type)
      PROVE  ViewInv'
  <2>1. /\ settings' = [settings EXCEPT !.given.rest = rest, !.given.type = type]
        /\ type \in {settings.given.type, "grid"}
    BY <1>2 DEF Saves!Rearrange
  <2>2. /\ settings' \in [view : ViewNames \cup {All}, given : Saves!References]
        /\ settings'.view = settings.view
        /\ settings'.given.type = "empty" => settings.given.type = "empty"
    BY <1>1, <2>1 DEF Saves!References
  <2>. QED  BY <1>2, <2>2, GivenStep DEF Saves!Rearrange
<1>3. ASSUME NEW v \in ViewNames \cup {All}, Saves!Choose(v) PROVE ViewInv'
  <2>1. /\ settings' \in [view : ViewNames \cup {All}, given : Saves!References]
        /\ settings'.given.type # "empty"
    BY <1>1, <1>3, Converted DEF Saves!Choose, Saves!ChangeView
  <2>. QED  BY <1>3, <2>1, GivenStep DEF Saves!Choose
<1>4. CASE Saves!Reset
  <2>1. /\ settings' \in [view : ViewNames \cup {All}, given : Saves!References]
        /\ settings'.given.type # "empty"
    BY <1>1, <1>4 DEF Saves!Reset, ViewInv, TypedOK
  <2>. QED  BY <1>4, <2>1, GivenStep DEF Saves!Reset
<1>5. CASE Saves!Save
  <2>1. settings.view \in DOMAIN models
    BY <1>5 DEF Saves!Save, ViewInv, MarkedOK, Saves!Dirty
  <2>. QED  BY <1>1, <1>5, <2>1, SendStep DEF Saves!Save, Saves!Kinds
<1>6. CASE Saves!Share
  <2>1. settings.view \in DOMAIN models /\ settings.view \in ViewNames
        /\ models[settings.view] \in Saves!References
    BY <1>1, <1>6 DEF Saves!Share
  <2>. QED  BY <1>6, <2>1, SendStep DEF Saves!Share, Saves!Kinds
<1>7. CASE Saves!Delete
  <2>1. settings.view \in DOMAIN models /\ settings.view \in ViewNames
        /\ models[settings.view] \in Saves!References
    BY <1>1, <1>7 DEF Saves!Delete
  <2>. QED  BY <1>7, <2>1, SendStep DEF Saves!Delete, Saves!Kinds
<1>8. ASSUME NEW v \in ViewNames \cup {All}, Saves!SaveAs(v) PROVE ViewInv'
  BY <1>1, <1>8, SendStep DEF Saves!SaveAs, Saves!Kinds
<1>9. CASE UNCHANGED Saves!vars
  <2>1. \A v : InStep(v)' <=> InStep(v)
    BY <1>9 DEF Saves!vars, InStep
  <2>2. OrderlyOK'
    BY <1>9, <2>1 DEF Saves!vars, ViewInv, OrderlyOK, RequestOK
  <2>. QED  BY <1>9, <2>1, <2>2 DEF Saves!vars, ViewInv, ViewTypes, SentOK, MarkedOK, TypedOK
<1>. QED
  BY <1>2, <1>3, <1>4, <1>5, <1>6, <1>7, <1>8, <1>9, SortStep, ServeStep, AnswerStep, FailStep
  DEF Saves!Next

LEMMA InitViewInv == Saves!Init => ViewInv
<1>. SUFFICES ASSUME Saves!Init PROVE ViewInv
  OBVIOUS
<1>1. \A S : Saves!Cardinality(S) = Cardinality(S)
  BY DEF Saves!Cardinality, Cardinality
<1>2. PICK own \in Saves!Settings, w0 \in ViewNames \cup {All}, vs \in SUBSET ViewNames :
        \E f \in [vs \cup {All} -> 2 .. Cardinality(vs) + 2] :
        /\ \A v, w \in DOMAIN f : f[v] = f[w] => v = w
        /\ stored \in [vs \cup {All} -> Saves!Settings]
        /\ stored[All].type = "grid"
        /\ own.type \in {"grid"} \cup {stored[v].type : v \in vs \cap {w0}}
        /\ \A v \in vs : stored[v].type # "undefined"
        /\ models = [v \in DOMAIN stored |->
              [rest |-> stored[v].rest, type |-> stored[v].type, object |-> f[v]]]
        /\ settings = [view |-> w0,
                       given |-> [rest |-> own.rest, type |-> own.type, object |-> 1]]
        /\ content = [o \in Saves!Objects |->
              IF o = 1 THEN own.sorters
              ELSE IF o \in Saves!Held(settings, models, {})
                   THEN stored[CHOOSE v \in DOMAIN f : f[v] = o].sorters
              ELSE Blank]
        /\ saves = {} /\ orderly = TRUE
        /\ marked = Saves!Dirty(settings, models, content)
  BY <1>1 DEF Saves!Init
<1>3. PICK f \in [vs \cup {All} -> 2 .. Cardinality(vs) + 2] :
        /\ \A v, w \in DOMAIN f : f[v] = f[w] => v = w
        /\ stored \in [vs \cup {All} -> Saves!Settings]
        /\ stored[All].type = "grid"
        /\ own.type \in {"grid"} \cup {stored[v].type : v \in vs \cap {w0}}
        /\ \A v \in vs : stored[v].type # "undefined"
        /\ models = [v \in DOMAIN stored |->
              [rest |-> stored[v].rest, type |-> stored[v].type, object |-> f[v]]]
        /\ settings = [view |-> w0,
                       given |-> [rest |-> own.rest, type |-> own.type, object |-> 1]]
        /\ content = [o \in Saves!Objects |->
              IF o = 1 THEN own.sorters
              ELSE IF o \in Saves!Held(settings, models, {})
                   THEN stored[CHOOSE v \in DOMAIN f : f[v] = o].sorters
              ELSE Blank]
        /\ saves = {} /\ orderly = TRUE
        /\ marked = Saves!Dirty(settings, models, content)
  BY <1>2
<1>. DEFINE V == vs \cup {All}
<1>4. Cardinality(vs) \in Nat /\ Cardinality(vs) + 2 <= MaxObjects /\ MaxObjects \in Nat
      /\ MaxObjects >= 1
  <2>1. IsFiniteSet(vs) /\ Cardinality(vs) <= Cardinality(ViewNames)
    BY FS_Subset, ViewAssumption
  <2>. QED  BY <2>1, ViewAssumption, FS_CardinalityType
<1>5. \A v \in V : f[v] \in 2 .. Cardinality(vs) + 2
  BY <1>3
<1>6. \A v \in V : f[v] \in Saves!Objects /\ f[v] # 1
  BY <1>4, <1>5 DEF Saves!Objects
<1>7. DOMAIN models = V /\ DOMAIN stored = V /\ DOMAIN f = V
  BY <1>3
<1>8. \A v \in V : /\ models[v] = [rest |-> stored[v].rest, type |-> stored[v].type, object |-> f[v]]
                   /\ stored[v] \in Saves!Settings /\ stored[v].sorters \in ViewSorters
                   /\ models[v] \in Saves!References
  BY <1>3, <1>6, <1>7 DEF Saves!Settings, Saves!References
<1>9. \A v \in V : f[v] \in Saves!Held(settings, models, {})
                   /\ (CHOOSE w \in DOMAIN f : f[w] = f[v]) = v
  <2>1. ASSUME NEW v \in V PROVE (CHOOSE w \in DOMAIN f : f[w] = f[v]) = v
    BY <1>3, <1>7, <2>1
  <2>2. ASSUME NEW v \in V PROVE f[v] \in Saves!Held(settings, models, {})
    <3>1. models[v] = [rest |-> stored[v].rest, type |-> stored[v].type, object |-> f[v]]
      BY <1>8, <2>2
    <3>2. models[v].object = f[v]
      BY <3>1
    <3>. QED  BY <1>7, <2>2, <3>2, HeldHas
  <2>. QED  BY <2>1, <2>2
<1>10. \A v \in V : content[f[v]] = stored[v].sorters
  BY <1>3, <1>6, <1>9
<1>11. \A v \in V : Saves!Value(models[v], content) = stored[v]
  <2>. SUFFICES ASSUME NEW v \in V PROVE Saves!Value(models[v], content) = stored[v]
    OBVIOUS
  <2>1. /\ models[v] = [rest |-> stored[v].rest, type |-> stored[v].type, object |-> f[v]]
        /\ stored[v] \in Saves!Settings
    BY <1>8
  <2>2. content[f[v]] = stored[v].sorters
    BY <1>10
  <2>. QED  BY <2>1, <2>2 DEF Saves!Value, Saves!Settings
<1>12. content \in [Saves!Objects -> Contents]
  <2>1. ASSUME NEW o \in Saves!Objects PROVE content[o] \in Contents
    <3>1. CASE o = 1
      BY <1>3, <2>1, <3>1 DEF Contents, Saves!Settings
    <3>2. CASE o # 1 /\ o \in Saves!Held(settings, models, {})
      <4>1. PICK v \in V : o = f[v]
        <5>1. settings.given.object = 1
          BY <1>3
        <5>2. \E v \in DOMAIN models : o = models[v].object
          BY <3>2, <5>1 DEF Saves!Held
        <5>3. PICK v \in V : o = models[v].object
          BY <1>7, <5>2
        <5>4. models[v] = [rest |-> stored[v].rest, type |-> stored[v].type, object |-> f[v]]
          BY <1>8
        <5>. QED  BY <5>3, <5>4
      <4>. QED  BY <1>8, <1>10, <4>1 DEF Contents
    <3>3. CASE o # 1 /\ o \notin Saves!Held(settings, models, {})
      BY <1>3, <2>1, <3>3 DEF Contents
    <3>. QED  BY <3>1, <3>2, <3>3
  <2>. QED  BY <1>3, <2>1
<1>13. settings \in [view : ViewNames \cup {All}, given : Saves!References]
  BY <1>3, <1>4 DEF Saves!Settings, Saves!References, Saves!Objects
<1>14. IsFiniteSet(saves) /\ Cardinality(saves) <= MaxSaves
  BY <1>3, FS_EmptySet, ViewAssumption
<1>15. ViewTypes
  BY <1>3, <1>7, <1>8, <1>12, <1>13, <1>14 DEF ViewTypes
<1>16. \A v : InStep(v)
  <2>1. ASSUME NEW v \in V PROVE Saves!AsStored(stored[v]) = stored[v]
    <3>1. stored[v].type # "undefined" /\ stored[v] \in Saves!Settings
      BY <1>3, <1>8, <2>1
    <3>. QED  BY <3>1 DEF Saves!AsStored, Saves!Settings
  <2>. QED  BY <1>7, <1>11, <2>1 DEF InStep
<1>17. TypedOK
  <2>1. models[All].type = "grid"
    BY <1>3, <1>8
  <2>2. settings.given.type = own.type /\ settings.view = w0
    BY <1>3
  <2>3. own.type = "empty" => w0 \in vs /\ stored[w0].type = "empty"
    BY <1>3
  <2>. QED  BY <1>3, <1>7, <1>8, <2>1, <2>2, <2>3 DEF TypedOK
<1>. QED  BY <1>3, <1>7, <1>15, <1>16, <1>17 DEF ViewInv, OrderlyOK, SentOK, MarkedOK

\* The grid is marked as edited when saving it would change what the server has for
\* the view, and otherwise only for a view that came without a type of appearance,
\* for any views, settings and number of requests.
THEOREM MarkCorrect == Saves!Spec => []EditedIsMarked
<1>1. ASSUME ViewInv PROVE EditedIsMarked
  <2>. DEFINE given == Saves!Value(settings.given, content)
              own   == Saves!Value(models[settings.view], content)
  <2>. SUFFICES ASSUME orderly, saves = {}, settings.view \in DOMAIN stored
                PROVE  /\ Saves!AsStored(given) # stored[settings.view] => marked
                       /\ marked => \/ Saves!AsStored(given) # stored[settings.view]
                                    \/ models[settings.view].type = "empty"
    BY DEF EditedIsMarked, Saves!EditedIsMarked
  <2>1. InStep(settings.view)
    BY <1>1 DEF ViewInv, OrderlyOK, ViewTypes
  <2>2. /\ settings.view \in DOMAIN models /\ Saves!AsStored(own) = stored[settings.view]
        /\ marked <=> given # own
    BY <1>1, <2>1 DEF ViewInv, MarkedOK, InStep, Saves!Dirty
  <2>3. settings.given \in Saves!References /\ models[settings.view] \in Saves!References
    BY <1>1, <2>2 DEF ViewInv, ViewTypes
  <2>4. marked /\ Saves!AsStored(given) = stored[settings.view]
           => settings.given.type = "empty" \/ models[settings.view].type = "empty"
    BY <2>2, <2>3, StoredAlike
  <2>5. settings.given.type = "empty" => models[settings.view].type = "empty"
    BY <1>1 DEF ViewInv, TypedOK
  <2>. QED  BY <2>2, <2>4, <2>5
<1>. QED  BY <1>1, InitViewInv, NextViewInv, PTL DEF Saves!Spec

LEMMA ChosenStep ==
    ASSUME ViewInv
    PROVE  /\ \A v \in ViewNames \cup {All} :
                 Saves!Choose(v) /\ orderly /\ saves = {} /\ v \in DOMAIN stored =>
                     /\ Saves!Value(settings'.given, content') = Saves!ToGridState(stored[v])
                     /\ marked' <=> models[v].type = "empty"
           /\ Saves!Reset => Saves!Value(settings'.given, content') = stored[All] /\ ~marked'
<1>1. ASSUME NEW v \in ViewNames \cup {All}, Saves!Choose(v), orderly, saves = {},
             v \in DOMAIN stored
      PROVE  /\ Saves!Value(settings'.given, content') = Saves!ToGridState(stored[v])
             /\ marked' <=> models[v].type = "empty"
  <2>1. InStep(v) /\ v \in DOMAIN models /\ models[v] \in Saves!References
    BY <1>1 DEF ViewInv, OrderlyOK, ViewTypes, Saves!Choose
  <2>2. /\ settings' = [view |-> v, given |-> Saves!ToGridState(models[v])]
        /\ models' = models /\ Saves!Keep(content) /\ Saves!Render
    BY <1>1 DEF Saves!Choose, Saves!ChangeView
  <2>3. settings'.view = v /\ settings'.given = Saves!ToGridState(models[v])
    BY <2>2
  <2>4. /\ settings'.given \in Saves!References
        /\ Saves!Value(settings'.given, content) = Saves!ToGridState(Saves!Value(models[v], content))
        /\ Saves!ToGridState(stored[v]) = Saves!ToGridState(Saves!Value(models[v], content))
        /\ (Saves!ToGridState(Saves!Value(models[v], content)) = Saves!Value(models[v], content))
              <=> models[v].type # "empty"
    BY <1>1, <2>1, <2>3, Converted DEF InStep
  <2>5. /\ Saves!Value(settings'.given, content') = Saves!Value(settings'.given, content)
        /\ Saves!Value(models[v], content') = Saves!Value(models[v], content)
    BY <2>1, <2>2, <2>4, KeptValues
  <2>6. marked' <=> Saves!Value(settings'.given, content') # Saves!Value(models[v], content')
    BY <2>1, <2>2, <2>3 DEF Saves!Render, Saves!Dirty
  <2>. QED  BY <2>4, <2>5, <2>6
<1>2. ASSUME Saves!Reset
      PROVE  Saves!Value(settings'.given, content') = stored[All] /\ ~marked'
  <2>1. /\ InStep(All) /\ All \in DOMAIN models /\ All \in DOMAIN stored
        /\ models[All] \in Saves!References /\ models[All].type = "grid"
    BY DEF ViewInv, InStep, TypedOK, ViewTypes
  <2>2. /\ settings' = [view |-> All, given |-> models[All]]
        /\ models' = models /\ Saves!Keep(content) /\ Saves!Render
    BY <1>2 DEF Saves!Reset
  <2>3. settings'.view = All /\ settings'.given = models[All]
    BY <2>2
  <2>4. Saves!Value(models[All], content') = Saves!Value(models[All], content)
    BY <2>1, <2>2, <2>3, KeptValues
  <2>5. Saves!AsStored(Saves!Value(models[All], content)) = Saves!Value(models[All], content)
    BY <2>1 DEF Saves!AsStored, Saves!Value
  <2>6. ~marked'
    BY <2>2, <2>3 DEF Saves!Render, Saves!Dirty
  <2>. QED  BY <2>1, <2>3, <2>4, <2>5, <2>6 DEF InStep
<1>. QED  BY <1>1, <1>2

\* A view that is chosen brings what it was saved with, but for a type of
\* appearance it never had, and the reset what the page came with, for any views,
\* settings and number of requests.
THEOREM ViewsCorrect == Saves!Spec => ViewsComeBack
<1>1. ViewInv /\ [Saves!Next]_(Saves!vars) =>
        [/\ \A v \in ViewNames \cup {All} :
               Saves!Choose(v) /\ orderly /\ saves = {} /\ v \in DOMAIN stored =>
                   /\ Saves!Value(settings'.given, content') = Saves!ToGridState(stored[v])
                   /\ marked' <=> models[v].type = "empty"
         /\ Saves!Reset => Saves!Value(settings'.given, content') = stored[All] /\ ~marked'
        ]_(Saves!vars)
  BY ChosenStep
<1>. QED  BY <1>1, InitViewInv, NextViewInv, PTL
          DEF Saves!Spec, ViewsComeBack, Saves!ViewsComeBack

-----------------------------------------------------------------------------
(***************************************************************************)
(* The board.  Of a card that is not blurred, a save that is under way     *)
(* knows what the browser and the server have of it, and a refresh that    *)
(* has been read knows what the server has of the cards with no save.      *)
(***************************************************************************)
SaveFields(B) == [card : B, to : B, back : B, value : B, stale : B, step : B, alone : B, before : B]

BoardTypes ==
    /\ group = [c \in Moves!Cards |-> group[c]]
    /\ saved = [c \in Moves!Cards |-> saved[c]]
    /\ \E B : sends \subseteq SaveFields(B)
    /\ \A s \in sends : s.step \in {"sent", "saved", "refused"}
    /\ refresh # None => /\ refresh = [value |-> refresh.value, clean |-> refresh.clean]
                         /\ refresh.value = [c \in Moves!Cards |-> refresh.value[c]]

\* What a save of a card says of it.
Knows(s) ==
    /\ group[s.card] = s.to
    /\ s.step = "saved" => saved[s.card] = s.to
    /\ s.step # "saved" => s.stale \/ saved[s.card] = s.value

CardOK(c) ==
    /\ \A s, t \in sends : (s.card = c /\ t.card = c) => s = t
    /\ \A s \in sends : s.card = c => Knows(s)
    /\ ~Moves!InFlight(c) => group[c] = saved[c]

RefreshOK ==
    refresh # None => \A c \in Moves!Cards :
        c \in refresh.clean => /\ \A s \in sends : s.card # c
                               /\ refresh.value[c] = saved[c]

BoardInv == BoardTypes /\ RefreshOK /\ \A c \in Moves!Cards : c \notin blurred => CardOK(c)

\* Sends that differ in what they know of the board's order alone.
LEMMA NotAloneSame ==
    ASSUME NEW B, NEW s \in SaveFields(B)
    PROVE  LET t == Moves!NotAlone(s)
           IN  /\ t.card = s.card /\ t.to = s.to /\ t.value = s.value /\ t.step = s.step
               /\ t.stale = s.stale
               /\ t \in SaveFields(B \cup {FALSE, None})
BY DEF Moves!NotAlone, SaveFields

LEMMA InitBoardInv == Moves!Init => BoardInv
<1>. SUFFICES ASSUME Moves!Init PROVE BoardInv
  OBVIOUS
<1>1. Initially \in [Moves!Cards -> Moves!Values]
  BY LayoutAssumption DEF LayoutAssumption, Moves!BoardMovesAssumption
<1>2. sends = {} /\ refresh = None /\ group = Initially /\ saved = Initially
  BY DEF Moves!Init
<1>3. sends \subseteq SaveFields({})
  BY <1>2
<1>4. BoardTypes
  BY <1>1, <1>2, <1>3 DEF BoardTypes
<1>. QED  BY <1>2, <1>4 DEF BoardInv, RefreshOK, CardOK

LEMMA StartStep == BoardInv /\ Moves!Start => BoardInv'
<1>. SUFFICES ASSUME BoardInv, Moves!Start PROVE BoardInv'
  OBVIOUS
<1>. DEFINE d  == Head(drops)
            c  == d.card
            v  == Head(Ids[d.column])
            s0 == [card |-> c, to |-> v, back |-> Moves!RestoreUpdates(c, d.stale),
                   value |-> IF d.stale THEN d.was ELSE group[c], stale |-> d.stale,
                   step |-> "sent", alone |-> Moves!Alone(d),
                   before |-> IF Moves!Alone(d) THEN Moves!Board ELSE None]
<1>1. /\ group' = [group EXCEPT ![c] = v]
      /\ sends' = {Moves!NotAlone(s) : s \in sends} \cup {s0}
      /\ blurred' = IF Moves!InFlight(c) \/ refresh # None THEN blurred \cup {c} ELSE blurred
      /\ refresh' = IF refresh = None THEN None ELSE [refresh EXCEPT !.clean = @ \ {c}]
      /\ saved' = saved
  BY DEF Moves!Start
<1>2. PICK B : sends \subseteq SaveFields(B)
  BY DEF BoardInv, BoardTypes
<1>. DEFINE B1 == B \cup {FALSE, None} \cup {s0.card, s0.to, s0.back, s0.value, s0.stale,
                                             s0.step, s0.alone, s0.before}
<1>3. s0 \in SaveFields(B1)
  <2>. HIDE DEF B1
  <2>1. {s0.card, s0.to, s0.back, s0.value, s0.stale, s0.step, s0.alone, s0.before} \subseteq B1
    BY DEF B1
  <2>. QED  BY <2>1 DEF SaveFields
<1>. HIDE DEF s0
<1>4. s0.card = c /\ s0.to = v /\ s0.step = "sent" /\ s0.stale = d.stale
      /\ (~d.stale => s0.value = group[c])
  BY DEF s0
<1>5. \A t \in sends' : \/ t = s0
                        \/ \E s \in sends : /\ t = Moves!NotAlone(s)
                                            /\ t.card = s.card /\ t.to = s.to /\ t.value = s.value
                                            /\ t.step = s.step /\ t.stale = s.stale
  <2>1. ASSUME NEW t \in sends', t # s0
        PROVE  \E s \in sends : /\ t = Moves!NotAlone(s)
                                /\ t.card = s.card /\ t.to = s.to /\ t.value = s.value
                                /\ t.step = s.step /\ t.stale = s.stale
    <3>1. PICK s \in sends : t = Moves!NotAlone(s)
      BY <1>1, <2>1
    <3>. QED  BY <1>2, <3>1, NotAloneSame
  <2>. QED  BY <2>1
<1>6. BoardTypes'
  <2>1. sends' \subseteq SaveFields(B1)
    <3>1. SaveFields(B \cup {FALSE, None}) \subseteq SaveFields(B1)
      <4>1. B \cup {FALSE, None} \subseteq B1
        OBVIOUS
      <4>. HIDE DEF B1
      <4>. QED  BY <4>1 DEF SaveFields
    <3>2. \A s \in sends : Moves!NotAlone(s) \in SaveFields(B \cup {FALSE, None})
      BY <1>2, NotAloneSame
    <3>. HIDE DEF B1
    <3>. QED  BY <1>1, <1>3, <3>1, <3>2
  <2>2. \A t \in sends' : t.step \in {"sent", "saved", "refused"}
    BY <1>4, <1>5 DEF BoardInv, BoardTypes
  <2>3. refresh' # None => /\ refresh' = [value |-> refresh'.value, clean |-> refresh'.clean]
                           /\ refresh'.value = [k \in Moves!Cards |-> refresh'.value[k]]
    BY <1>1 DEF BoardInv, BoardTypes
  <2>. QED  BY <1>1, <2>1, <2>2, <2>3 DEF BoardInv, BoardTypes
<1>7. RefreshOK'
  BY <1>1, <1>4, <1>5 DEF BoardInv, BoardTypes, RefreshOK
<1>8. ASSUME NEW k \in Moves!Cards, k \notin blurred' PROVE CardOK(k)'
  <2>1. k \notin blurred /\ CardOK(k)
    BY <1>1, <1>8 DEF BoardInv
  <2>2. CASE k = c
    <3>1. (\A s \in sends : s.card # c) /\ group[c] = saved[c]
      BY <1>1, <1>8, <2>1, <2>2 DEF CardOK, Moves!InFlight
    <3>2. \A t \in sends' : t.card = c => t = s0
      BY <1>5, <3>1
    <3>3. s0 \in sends'
      BY <1>1
    <3>4. group'[c] = v /\ saved'[c] = saved[c]
      BY <1>1, <1>8, <2>2 DEF BoardInv, BoardTypes
    <3>. QED  BY <1>4, <2>2, <3>1, <3>2, <3>3, <3>4 DEF CardOK, Knows, Moves!InFlight
  <2>3. CASE k # c
    <3>1. group'[k] = group[k] /\ saved'[k] = saved[k]
      BY <1>1, <1>8, <2>3 DEF BoardInv, BoardTypes
    <3>2. \A t \in sends' : t.card = k =>
             \E s \in sends : /\ t = Moves!NotAlone(s)
                              /\ t.card = s.card /\ t.to = s.to /\ t.value = s.value
                              /\ t.step = s.step /\ t.stale = s.stale
      BY <1>4, <1>5, <2>3
    <3>3. \A s \in sends : s.card = k => \E t \in sends' : t.card = k
      BY <1>1, <1>2, NotAloneSame
    <3>. QED  BY <2>1, <3>1, <3>2, <3>3 DEF CardOK, Knows, Moves!InFlight
  <2>. QED  BY <2>2, <2>3
<1>. QED  BY <1>6, <1>7, <1>8 DEF BoardInv

LEMMA SaveStep ==
    ASSUME BoardInv, NEW s \in sends, NEW ok \in BOOLEAN, Moves!Save(s, ok)
    PROVE  BoardInv'
<1>. DEFINE t == [s EXCEPT !.step = IF ok THEN "saved" ELSE "refused"]
<1>1. PICK B : sends \subseteq SaveFields(B)
  BY DEF BoardInv, BoardTypes
<1>2. t \in SaveFields(B \cup {"saved", "refused"})
  BY <1>1 DEF SaveFields
<1>3. /\ t.card = s.card /\ t.to = s.to /\ t.value = s.value /\ t.stale = s.stale
      /\ t.step = IF ok THEN "saved" ELSE "refused"
  BY <1>1 DEF SaveFields
<1>. HIDE DEF t
<1>4. /\ sends' = (sends \ {s}) \cup {t} /\ s.step = "sent"
      /\ saved' = IF ok THEN [saved EXCEPT ![s.card] = s.to] ELSE saved
      /\ group' = group /\ refresh' = refresh /\ blurred' = blurred
  BY DEF Moves!Save, t
<1>5. BoardTypes'
  <2>1. sends' \subseteq SaveFields(B \cup {"saved", "refused"})
    <3>1. SaveFields(B) \subseteq SaveFields(B \cup {"saved", "refused"})
      BY DEF SaveFields
    <3>. QED  BY <1>1, <1>2, <1>4, <3>1
  <2>2. saved' = [k \in Moves!Cards |-> saved'[k]]
    BY <1>4 DEF BoardInv, BoardTypes
  <2>. QED  BY <1>3, <1>4, <2>1, <2>2 DEF BoardInv, BoardTypes
<1>6. RefreshOK'
  BY <1>3, <1>4 DEF BoardInv, BoardTypes, RefreshOK
<1>7. ASSUME NEW k \in Moves!Cards, k \notin blurred' PROVE CardOK(k)'
  <2>1. CardOK(k)
    BY <1>4, <1>7 DEF BoardInv
  <2>2. CASE s.card = k
    <3>1. \A u \in sends' : u.card = k => u = t
      BY <1>4, <2>1, <2>2 DEF CardOK
    <3>2. Knows(s)
      BY <2>1, <2>2 DEF CardOK
    <3>3. Knows(t)'
      BY <1>3, <1>4, <2>2, <3>2 DEF Knows, BoardInv, BoardTypes
    <3>4. t \in sends' /\ t.card = k
      BY <1>3, <1>4, <2>2
    <3>. QED  BY <3>1, <3>3, <3>4 DEF CardOK, Moves!InFlight
  <2>3. CASE s.card # k
    <3>1. group'[k] = group[k] /\ saved'[k] = saved[k]
      BY <1>4, <2>3 DEF BoardInv, BoardTypes
    <3>2. \A u : (u \in sends' /\ u.card = k) <=> (u \in sends /\ u.card = k)
      BY <1>3, <1>4, <2>3
    <3>. QED  BY <2>1, <3>1, <3>2 DEF CardOK, Knows, Moves!InFlight
  <2>. QED  BY <2>2, <2>3
<1>. QED  BY <1>5, <1>6, <1>7 DEF BoardInv

LEMMA SuccessStep ==
    ASSUME BoardInv, NEW s \in sends, Moves!Success(s)
    PROVE  BoardInv'
<1>1. /\ sends' = sends \ {s} /\ s.step = "saved" /\ group' = group /\ saved' = saved
      /\ refresh' = refresh /\ blurred' = blurred
  BY DEF Moves!Success
<1>2. BoardTypes' /\ RefreshOK'
  BY <1>1 DEF BoardInv, BoardTypes, RefreshOK
<1>3. ASSUME NEW k \in Moves!Cards, k \notin blurred' PROVE CardOK(k)'
  BY <1>1, <1>3 DEF BoardInv, CardOK, Knows, Moves!InFlight
<1>. QED  BY <1>2, <1>3 DEF BoardInv

LEMMA FailureStep ==
    ASSUME BoardInv, NEW s \in sends, Moves!Failure(s)
    PROVE  BoardInv'
<1>1. /\ sends' = {Moves!NotAlone(t) : t \in sends \ {s}} /\ s.step # "sent"
      /\ group' = [group EXCEPT ![s.card] = s.value] /\ saved' = saved /\ refresh' = refresh
      /\ blurred' = IF s.step = "saved" \/ s.stale THEN blurred \cup {s.card} ELSE blurred
  BY DEF Moves!Failure
<1>2. PICK B : sends \subseteq SaveFields(B)
  BY DEF BoardInv, BoardTypes
<1>3. \A u \in sends' : \E t \in sends : /\ u = Moves!NotAlone(t) /\ t # s
                                         /\ u.card = t.card /\ u.to = t.to /\ u.value = t.value
                                         /\ u.step = t.step /\ u.stale = t.stale
  <2>1. ASSUME NEW u \in sends'
        PROVE  \E t \in sends : /\ u = Moves!NotAlone(t) /\ t # s
                                /\ u.card = t.card /\ u.to = t.to /\ u.value = t.value
                                /\ u.step = t.step /\ u.stale = t.stale
    <3>1. PICK t \in sends \ {s} : u = Moves!NotAlone(t)
      BY <1>1
    <3>. QED  BY <1>2, <3>1, NotAloneSame
  <2>. QED  BY <2>1
<1>4. BoardTypes'
  <2>1. sends' \subseteq SaveFields(B \cup {FALSE, None})
    BY <1>1, <1>2, NotAloneSame
  <2>2. group' = [k \in Moves!Cards |-> group'[k]]
    BY <1>1 DEF BoardInv, BoardTypes
  <2>. QED  BY <1>1, <1>3, <2>1, <2>2 DEF BoardInv, BoardTypes
<1>5. RefreshOK'
  BY <1>1, <1>3 DEF BoardInv, BoardTypes, RefreshOK
<1>6. ASSUME NEW k \in Moves!Cards, k \notin blurred' PROVE CardOK(k)'
  <2>1. k \notin blurred /\ CardOK(k)
    BY <1>1, <1>6 DEF BoardInv
  <2>2. CASE s.card = k
    <3>1. \A u \in sends' : u.card # k
      BY <1>3, <2>1, <2>2 DEF CardOK
    <3>2. s.step = "refused" /\ ~s.stale
      BY <1>1, <1>6, <2>2 DEF BoardInv, BoardTypes
    <3>3. saved[k] = s.value
      BY <2>1, <2>2, <3>2 DEF CardOK, Knows
    <3>4. group'[k] = saved'[k]
      BY <1>1, <2>2, <3>3 DEF BoardInv, BoardTypes
    <3>. QED  BY <3>1, <3>4 DEF CardOK, Moves!InFlight
  <2>3. CASE s.card # k
    <3>1. group'[k] = group[k] /\ saved'[k] = saved[k]
      BY <1>1, <2>3 DEF BoardInv, BoardTypes
    <3>2. \A u \in sends' : u.card = k =>
             \E t \in sends : /\ u = Moves!NotAlone(t)
                              /\ u.card = t.card /\ u.to = t.to /\ u.value = t.value
                              /\ u.step = t.step /\ u.stale = t.stale
      BY <1>3
    <3>3. \A t \in sends : t.card = k => \E u \in sends' : u.card = k
      BY <1>1, <1>2, <2>3, NotAloneSame
    <3>. QED  BY <2>1, <3>1, <3>2, <3>3 DEF CardOK, Knows, Moves!InFlight
  <2>. QED  BY <2>2, <2>3
<1>. QED  BY <1>4, <1>5, <1>6 DEF BoardInv

LEMMA BringRefreshStep == BoardInv /\ Moves!BringRefresh => BoardInv'
<1>. SUFFICES ASSUME BoardInv, Moves!BringRefresh PROVE BoardInv'
  OBVIOUS
<1>1. /\ refresh # None /\ group' = refresh.value /\ saved' = saved /\ refresh' = None
      /\ sends' = {[Moves!NotAlone(s) EXCEPT !.stale = TRUE] : s \in sends}
      /\ blurred' = Moves!Cards \ refresh.clean
  <2>1. sends' = {[Moves!NotAlone(s) EXCEPT !.stale = TRUE] : s \in sends}
    BY Zenon DEF Moves!BringRefresh
  <2>2. /\ refresh # None /\ group' = refresh.value /\ saved' = saved /\ refresh' = None
        /\ blurred' = Moves!Cards \ refresh.clean
    BY Zenon DEF Moves!BringRefresh
  <2>. QED  BY <2>1, <2>2
<1>2. PICK B : sends \subseteq SaveFields(B)
  BY DEF BoardInv, BoardTypes
<1>3. ASSUME NEW u \in sends'
      PROVE  /\ u \in SaveFields(B \cup {TRUE, FALSE, None})
             /\ \E s \in sends : u.card = s.card /\ u.step = s.step
  <2>1. PICK s \in sends : u = [Moves!NotAlone(s) EXCEPT !.stale = TRUE]
    BY <1>1, <1>3
  <2>2. /\ Moves!NotAlone(s) \in SaveFields(B \cup {FALSE, None})
        /\ Moves!NotAlone(s).card = s.card /\ Moves!NotAlone(s).step = s.step
    BY <1>2, NotAloneSame
  <2>. DEFINE t == Moves!NotAlone(s)
  <2>3. t \in SaveFields(B \cup {FALSE, None}) /\ u = [t EXCEPT !.stale = TRUE]
    BY <2>1, <2>2
  <2>. HIDE DEF t
  <2>4. u \in SaveFields(B \cup {TRUE, FALSE, None}) /\ u.card = t.card /\ u.step = t.step
    <3>. DEFINE D == B \cup {TRUE, FALSE, None}
    <3>1. TRUE \in D /\ B \cup {FALSE, None} \subseteq D
      OBVIOUS
    <3>. HIDE DEF D
    <3>2. t \in SaveFields(D)
      BY <2>3, <3>1 DEF SaveFields
    <3>3. u \in SaveFields(D) /\ u.card = t.card /\ u.step = t.step
      BY <2>3, <3>1, <3>2 DEF SaveFields
    <3>. QED  BY <3>3 DEF D
  <2>. QED  BY <2>2, <2>4 DEF t
<1>4. BoardTypes'
  <2>1. sends' \subseteq SaveFields(B \cup {TRUE, FALSE, None})
    BY <1>3
  <2>. QED  BY <1>1, <1>3, <2>1 DEF BoardInv, BoardTypes
<1>5. ASSUME NEW k \in Moves!Cards, k \notin blurred' PROVE CardOK(k)'
  <2>1. (\A s \in sends : s.card # k) /\ refresh.value[k] = saved[k]
    BY <1>1, <1>5 DEF BoardInv, RefreshOK
  <2>2. \A u \in sends' : u.card # k
    BY <1>3, <2>1
  <2>. QED  BY <1>1, <2>1, <2>2 DEF CardOK, Moves!InFlight
<1>. QED  BY <1>1, <1>4, <1>5 DEF BoardInv, RefreshOK

LEMMA NextBoardInv == BoardInv /\ [Moves!Next]_(Moves!vars) => BoardInv'
<1>. SUFFICES ASSUME BoardInv, [Moves!Next]_(Moves!vars) PROVE BoardInv'
  OBVIOUS
<1>1. ASSUME UNCHANGED <<group, saved, sends, refresh, blurred>> PROVE BoardInv'
  <2>1. BoardTypes' /\ RefreshOK'
    BY <1>1 DEF BoardInv, BoardTypes, RefreshOK
  <2>2. \A k : CardOK(k)' <=> CardOK(k)
    BY <1>1 DEF CardOK, Knows, Moves!InFlight
  <2>. QED  BY <1>1, <2>1, <2>2 DEF BoardInv
<1>2. CASE \E c \in Moves!Cards, k \in BoardColumns, pos \in 0 .. Len(Loaded) : Moves!Drop(c, k, pos)
  BY <1>1, <1>2 DEF Moves!Drop
<1>3. CASE \E c \in Moves!Cards : Moves!CloseMessage(c)
  BY <1>1, <1>3 DEF Moves!CloseMessage
<1>4. CASE Moves!ReadRefresh
  <2>1. /\ refresh' = [value |-> saved, clean |-> {c \in Moves!Cards : ~Moves!InFlight(c)}]
        /\ group' = group /\ saved' = saved /\ sends' = sends /\ blurred' = blurred
    BY <1>4 DEF Moves!ReadRefresh
  <2>2. BoardTypes' /\ RefreshOK'
    BY <2>1 DEF BoardInv, BoardTypes, RefreshOK, Moves!InFlight
  <2>3. \A k : CardOK(k)' <=> CardOK(k)
    BY <2>1 DEF CardOK, Knows, Moves!InFlight
  <2>. QED  BY <2>1, <2>2, <2>3 DEF BoardInv
<1>5. CASE UNCHANGED Moves!vars
  BY <1>1, <1>5 DEF Moves!vars
<1>. QED
  BY <1>2, <1>3, <1>4, <1>5, StartStep, SaveStep, SuccessStep, FailureStep, BringRefreshStep
  DEF Moves!Next

\* When everything about a card is answered the board has it where the server has
\* it, unless its saves met another save, a refresh or a lost answer: for any
\* cards, columns and number of drops.
THEOREM MovesSettle == Moves!Spec => []SettledIsSaved
<1>1. BoardInv => SettledIsSaved
  BY DEF BoardInv, CardOK, SettledIsSaved, Moves!SettledIsSaved
<1>. QED  BY <1>1, InitBoardInv, NextBoardInv, PTL DEF Moves!Spec

-----------------------------------------------------------------------------
(***************************************************************************)
(* Sequences that something is put into or taken out of.                   *)
(***************************************************************************)

\* t is s with c put in at i; without what it has at i.
With(t, s, i, c) ==
    t = [j \in 1 .. Len(s) + 1 |-> IF j < i THEN s[j] ELSE IF j = i THEN c ELSE s[j - 1]]

Less(t, s, i) == t = [j \in 1 .. Len(s) - 1 |-> IF j < i THEN s[j] ELSE s[j + 1]]

LEMMA SubSeqIs ==
    ASSUME NEW S, NEW s \in Seq(S), NEW a \in Nat \ {0}, NEW b \in 0 .. Len(s), a <= b + 1
    PROVE  /\ SubSeq(s, a, b) \in Seq(S) /\ Len(SubSeq(s, a, b)) = b - a + 1
           /\ \A j \in a .. b : SubSeq(s, a, b)[j - a + 1] = s[j]
<1>1. a \in Int /\ b \in Int /\ \A j \in a .. b : s[j] \in S
  OBVIOUS
<1>2. /\ SubSeq(s, a, b) \in Seq(S)
      /\ Len(SubSeq(s, a, b)) = IF a <= b THEN b - a + 1 ELSE 0
      /\ \A j \in 1 .. b - a + 1 : SubSeq(s, a, b)[j] = s[a + j - 1]
  BY <1>1, SubSeqProperties
<1>3. ASSUME NEW j \in a .. b PROVE SubSeq(s, a, b)[j - a + 1] = s[j]
  <2>1. j - a + 1 \in 1 .. b - a + 1 /\ a + (j - a + 1) - 1 = j
    BY <1>1, <1>3
  <2>. QED  BY <1>2, <2>1
<1>4. Len(SubSeq(s, a, b)) = b - a + 1
  BY <1>1, <1>2
<1>. QED  BY <1>2, <1>3, <1>4

LEMMA RemoveIs ==
    ASSUME NEW S, NEW s \in Seq(S), NEW i \in 1 .. Len(s)
    PROVE  Less(SubSeq(s, 1, i - 1) \o SubSeq(s, i + 1, Len(s)), s, i)
<1>. DEFINE before == SubSeq(s, 1, i - 1)
            after  == SubSeq(s, i + 1, Len(s))
            n      == Len(s)
            g      == before \o after
<1>1. n \in Nat /\ i \in 1 .. n
  OBVIOUS
<1>2. before \in Seq(S) /\ Len(before) = i - 1 /\ \A j \in 1 .. i - 1 : before[j - 1 + 1] = s[j]
  <2>. DEFINE b == i - 1
  <2>1. 1 \in Nat \ {0} /\ b \in 0 .. Len(s) /\ 1 <= b + 1 /\ b - 1 + 1 = b
    BY <1>1
  <2>. HIDE DEF b
  <2>2. /\ SubSeq(s, 1, b) \in Seq(S) /\ Len(SubSeq(s, 1, b)) = b - 1 + 1
        /\ \A j \in 1 .. b : SubSeq(s, 1, b)[j - 1 + 1] = s[j]
    BY <2>1, SubSeqIs
  <2>. QED  BY <2>1, <2>2 DEF b
<1>3. after \in Seq(S) /\ Len(after) = n - i /\ \A j \in i + 1 .. n : after[j - (i + 1) + 1] = s[j]
  <2>1. i + 1 \in Nat \ {0} /\ n \in 0 .. Len(s) /\ i + 1 <= n + 1 /\ n - (i + 1) + 1 = n - i
    BY <1>1
  <2>. HIDE DEF n
  <2>2. /\ SubSeq(s, i + 1, n) \in Seq(S) /\ Len(SubSeq(s, i + 1, n)) = n - (i + 1) + 1
        /\ \A j \in i + 1 .. n : SubSeq(s, i + 1, n)[j - (i + 1) + 1] = s[j]
    BY <2>1, SubSeqIs
  <2>. QED  BY <2>1, <2>2, Zenon DEF n
<1>. HIDE DEF before, after, n
<1>4. /\ g \in Seq(S) /\ Len(g) = n - 1
      /\ \A j \in 1 .. n - 1 : g[j] = IF j <= i - 1 THEN before[j] ELSE after[j - (i - 1)]
  <2>1. /\ before \o after \in Seq(S)
        /\ Len(before \o after) = Len(before) + Len(after)
        /\ \A j \in 1 .. Len(before) + Len(after) :
              (before \o after)[j] = IF j <= Len(before) THEN before[j]
                                     ELSE after[j - Len(before)]
    BY <1>2, <1>3, ConcatProperties
  <2>2. Len(before) + Len(after) = n - 1
    BY <1>1, <1>2, <1>3
  <2>. QED  BY <1>2, <2>1, <2>2
<1>. HIDE DEF g
<1>5. ASSUME NEW j \in 1 .. n - 1 PROVE g[j] = IF j < i THEN s[j] ELSE s[j + 1]
  <2>1. CASE j < i
    <3>1. j \in 1 .. i - 1 /\ j - 1 + 1 = j
      BY <1>1, <2>1
    <3>. QED  BY <1>1, <1>2, <1>4, <2>1, <3>1
  <2>2. CASE ~(j < i)
    <3>1. j + 1 \in i + 1 .. n /\ (j + 1) - (i + 1) + 1 = j - (i - 1) /\ ~(j <= i - 1)
      BY <1>1, <2>2
    <3>2. after[(j + 1) - (i + 1) + 1] = s[j + 1]
      BY <1>3, <3>1
    <3>. QED  BY <1>4, <2>2, <3>1, <3>2
  <2>. QED  BY <2>1, <2>2
<1>6. g = [j \in 1 .. n - 1 |-> g[j]]
  BY <1>1, <1>4
<1>7. g = [j \in 1 .. n - 1 |-> IF j < i THEN s[j] ELSE s[j + 1]]
  BY <1>5, <1>6
<1>. QED  BY <1>7 DEF Less, g, n, before, after

LEMMA InsertIs ==
    ASSUME NEW S, NEW s \in Seq(S), NEW i \in 1 .. Len(s) + 1, NEW c \in S
    PROVE  With(SubSeq(s, 1, i - 1) \o <<c>> \o SubSeq(s, i, Len(s)), s, i, c)
<1>. DEFINE before == SubSeq(s, 1, i - 1)
            after  == SubSeq(s, i, Len(s))
            n      == Len(s)
            b      == before \o <<c>>
            g      == b \o after
<1>1. n \in Nat /\ i \in 1 .. n + 1
  OBVIOUS
<1>2. before \in Seq(S) /\ Len(before) = i - 1 /\ \A j \in 1 .. i - 1 : before[j - 1 + 1] = s[j]
  <2>1. 1 \in Nat \ {0} /\ i - 1 \in 0 .. Len(s) /\ 1 <= i - 1 + 1 /\ i - 1 - 1 + 1 = i - 1
    BY <1>1
  <2>. QED  BY <2>1, SubSeqIs
<1>3. after \in Seq(S) /\ Len(after) = n - i + 1 /\ \A j \in i .. n : after[j - i + 1] = s[j]
  <2>1. i \in Nat \ {0} /\ n \in 0 .. Len(s) /\ i <= n + 1
    BY <1>1
  <2>. HIDE DEF n
  <2>2. /\ SubSeq(s, i, n) \in Seq(S) /\ Len(SubSeq(s, i, n)) = n - i + 1
        /\ \A j \in i .. n : SubSeq(s, i, n)[j - i + 1] = s[j]
    BY <2>1, SubSeqIs
  <2>. QED  BY <2>2 DEF n
<1>. HIDE DEF before, after, n
<1>4. b \in Seq(S) /\ Len(b) = i /\ (\A j \in 1 .. i - 1 : b[j] = s[j]) /\ b[i] = c
  <2>1. \A j \in 1 .. i - 1 : before[j] = s[j]
    <3>1. \A j \in 1 .. i - 1 : j - 1 + 1 = j
      BY <1>1
    <3>. QED  BY <1>2, <3>1
  <2>. QED  BY <1>1, <1>2, <2>1
<1>. HIDE DEF b
<1>5. /\ g \in Seq(S) /\ Len(g) = n + 1
      /\ \A j \in 1 .. n + 1 : g[j] = IF j <= i THEN b[j] ELSE after[j - i]
  <2>1. /\ b \o after \in Seq(S) /\ Len(b \o after) = Len(b) + Len(after)
        /\ \A j \in 1 .. Len(b) + Len(after) :
              (b \o after)[j] = IF j <= Len(b) THEN b[j] ELSE after[j - Len(b)]
    BY <1>3, <1>4, ConcatProperties
  <2>2. Len(b) + Len(after) = n + 1
    BY <1>1, <1>3, <1>4
  <2>. QED  BY <1>4, <2>1, <2>2
<1>. HIDE DEF g
<1>6. ASSUME NEW j \in 1 .. n + 1
      PROVE  g[j] = IF j < i THEN s[j] ELSE IF j = i THEN c ELSE s[j - 1]
  <2>1. CASE j <= i
    BY <1>1, <1>4, <1>5, <2>1
  <2>2. CASE ~(j <= i)
    <3>1. j - 1 \in i .. n /\ (j - 1) - i + 1 = j - i
      BY <1>1, <2>2
    <3>2. after[(j - 1) - i + 1] = s[j - 1]
      BY <1>3, <3>1
    <3>. QED  BY <1>1, <1>5, <2>2, <3>1, <3>2
  <2>. QED  BY <2>1, <2>2
<1>7. g = [j \in 1 .. n + 1 |-> g[j]]
  BY <1>1, <1>5
<1>8. g = [j \in 1 .. n + 1 |-> IF j < i THEN s[j] ELSE IF j = i THEN c ELSE s[j - 1]]
  BY <1>6, <1>7
<1>. QED  BY <1>8 DEF With, g, b, n, before, after

LEMMA FrontIs ==
    ASSUME NEW S, NEW s \in Seq(S), NEW c \in S
    PROVE  With(<<c>> \o s, s, 1, c)
<1>. DEFINE g == <<c>> \o s
            n == Len(s)
<1>1. n \in Nat /\ <<c>> \in Seq(S) /\ Len(<<c>>) = 1 /\ <<c>>[1] = c
  OBVIOUS
<1>2. /\ g \in Seq(S) /\ Len(g) = Len(<<c>>) + n
      /\ \A j \in 1 .. Len(<<c>>) + n :
            g[j] = IF j <= Len(<<c>>) THEN <<c>>[j] ELSE s[j - Len(<<c>>)]
  BY <1>1, ConcatProperties
<1>. HIDE DEF g, n
<1>3. \A j \in 1 .. n + 1 : g[j] = IF j < 1 THEN s[j] ELSE IF j = 1 THEN c ELSE s[j - 1]
  BY <1>1, <1>2
<1>4. g = [j \in 1 .. n + 1 |-> g[j]]
  BY <1>1, <1>2
<1>5. g = [j \in 1 .. n + 1 |-> IF j < 1 THEN s[j] ELSE IF j = 1 THEN c ELSE s[j - 1]]
  BY <1>3, <1>4
<1>. QED  BY <1>5 DEF With, g, n

-----------------------------------------------------------------------------
(***************************************************************************)
(* Sorting.  A request that is the last asks for the sorters there are;    *)
(* while all goes smoothly there is one request at most, and when there is *)
(* none the headers and the rows are right.  Without multiple sorting      *)
(* there is one sorter at most, and the dropdown shows it.                 *)
(***************************************************************************)
Answers(B) == [sent : B, last : BOOLEAN]

LastOK ==
    /\ \E B : requests \in Seq(Answers(B))
    /\ \A i \in DOMAIN requests : requests[i].last => requests[i].sent = sorters

HeadersOK ==
    fresh => /\ \A c \in Sorts!Names : direction[c] = Sorts!DirectionOf(sorters, c)
             /\ sorted = Sorts!Served(sorters)

SmoothOK ==
    smooth => /\ Len(requests) <= 1
              /\ \A i \in DOMAIN requests : requests[i].last
              /\ requests = <<>> => fresh

Single(s) == s = <<>> \/ \E c \in Sorts!Names, d \in Sorts!Directions : s = << <<c, d>> >>

DropdownOK ==
    ~setup.multiple =>
        /\ Single(sorters)
        /\ direction \in [Sorts!Names -> Sorts!Directions \cup {None}]
        /\ current \in [column : Sorts!Names \cup {None}, direction : Sorts!Directions \cup {None}]
        /\ smooth /\ sorters # <<>>
              => current = [column |-> sorters[1][1], direction |-> sorters[1][2]]

SortInv ==
    /\ setup.multiple \in BOOLEAN /\ fresh \in BOOLEAN /\ smooth \in BOOLEAN
    /\ LastOK /\ HeadersOK /\ SmoothOK /\ DropdownOK

LEMMA SortAssumption ==
    /\ None \notin Sorts!Names /\ None \notin Sorts!Directions
    /\ SortColumns \in Seq(Sorts!Names) /\ Len(SortColumns) > 0
    /\ \A i, j \in DOMAIN SortColumns : SortColumns[i] = SortColumns[j] => i = j
    /\ \A c \in Sorts!Names : \E i \in DOMAIN SortColumns : SortColumns[i] = c
BY LayoutAssumption
DEF LayoutAssumption, Sorts!SortingAssumption, Sorts!Names, Sorts!ToSet

\* The direction of a column, with one sorter or none.
LEMMA DirectionOfSingle ==
    ASSUME NEW c \in Sorts!Names
    PROVE  /\ Sorts!DirectionOf(<<>>, c) = None
           /\ \A k \in Sorts!Names, d \in Sorts!Directions :
                Sorts!DirectionOf(<< <<k, d>> >>, c) = IF c = k THEN d ELSE None
<1>1. Sorts!ToSet(<<>>) = {}
  BY DEF Sorts!ToSet
<1>2. ASSUME NEW k \in Sorts!Names, NEW d \in Sorts!Directions
      PROVE  Sorts!DirectionOf(<< <<k, d>> >>, c) = IF c = k THEN d ELSE None
  <2>1. Sorts!ToSet(<< <<k, d>> >>) = {<<k, d>>}
    BY DEF Sorts!ToSet
  <2>2. (CHOOSE e \in {<<k, d>>} : e[1] = k) = <<k, d>>
    OBVIOUS
  <2>. QED  BY <2>1, <2>2 DEF Sorts!DirectionOf
<1>. QED  BY <1>1, <1>2 DEF Sorts!DirectionOf

\* What the dropdown follows when one column changes its direction and others
\* lose theirs.
LEMMA FollowedOne ==
    ASSUME NEW old, NEW new, NEW cur, NEW c \in Sorts!Names,
           \A k \in Sorts!Names : k # c => new[k] = old[k] \/ new[k] = None
    PROVE  Sorts!Followed(old, new, cur) =
              IF new[c] # old[c] /\ new[c] # None
              THEN [column |-> c, direction |-> new[c]] ELSE cur
<1>. DEFINE changed == {i \in DOMAIN SortColumns : /\ new[SortColumns[i]] # old[SortColumns[i]]
                                                  /\ new[SortColumns[i]] # None}
<1>1. PICK j \in DOMAIN SortColumns : SortColumns[j] = c
  BY SortAssumption
<1>2. \A i \in DOMAIN SortColumns : SortColumns[i] \in Sorts!Names
  BY SortAssumption
<1>3. CASE new[c] # old[c] /\ new[c] # None
  <2>1. changed = {j}
    BY <1>1, <1>2, <1>3, SortAssumption
  <2>2. j \in Nat
    BY <1>1, SortAssumption
  <2>3. Sorts!Max({j}) = j
    BY <2>2 DEF Sorts!Max
  <2>. QED  BY <1>1, <1>3, <2>1, <2>3 DEF Sorts!Followed
<1>4. CASE ~(new[c] # old[c] /\ new[c] # None)
  <2>1. changed = {}
    BY <1>1, <1>2, <1>4, SortAssumption
  <2>. QED  BY <1>4, <2>1 DEF Sorts!Followed
<1>. QED  BY <1>3, <1>4

LEMMA CellDirectionsType ==
    ASSUME NEW s, NEW old, Single(s)
    PROVE  Sorts!CellDirections(s, old) \in [Sorts!Names -> Sorts!Directions \cup {None}]
BY DirectionOfSingle DEF Single, Sorts!CellDirections

\* The dropdown as it is rendered.
LEMMA RenderedSingle ==
    ASSUME NEW s, Single(s),
           NEW cur \in [column : Sorts!Names \cup {None}, direction : Sorts!Directions \cup {None}]
    PROVE  /\ Sorts!Rendered(s, cur) \in [column : Sorts!Names \cup {None},
                                          direction : Sorts!Directions \cup {None}]
           /\ s # <<>> => Sorts!Rendered(s, cur) = [column |-> s[1][1], direction |-> s[1][2]]
BY DEF Single, Sorts!Rendered

\* Sorters of a grid without multiple sorting.
LEMMA SingleSorters ==
    ASSUME NEW s \in Sorts!Sorters, Len(s) <= 1
    PROVE  Single(s)
<1>1. PICK n \in 0 .. Len(SortColumns) : s \in [1 .. n -> Sorts!Names \X Sorts!Directions]
  BY DEF Sorts!Sorters
<1>2. Len(s) = n /\ n \in Nat
  BY <1>1, SortAssumption
<1>3. CASE n = 0
  BY <1>1, <1>3 DEF Single
<1>4. CASE n = 1
  <2>1. s[1] \in Sorts!Names \X Sorts!Directions
    BY <1>1, <1>4
  <2>2. s = << <<s[1][1], s[1][2]>> >>
    BY <1>1, <1>4, <2>1
  <2>. QED  BY <2>1, <2>2 DEF Single
<1>. QED  BY <1>2, <1>3, <1>4

\* A request that is answered or fails is removed from the others.
LEMMA RemovedAt ==
    ASSUME NEW S, NEW s \in Seq(S), NEW i \in DOMAIN s
    PROVE  /\ Sorts!RemoveAt(s, i) \in Seq(S)
           /\ Len(Sorts!RemoveAt(s, i)) = Len(s) - 1
           /\ \A j \in DOMAIN Sorts!RemoveAt(s, i) :
                 \E k \in DOMAIN s : Sorts!RemoveAt(s, i)[j] = s[k]
<1>. DEFINE t == Sorts!RemoveAt(s, i)
            n == Len(s)
<1>1. n \in Nat /\ i \in 1 .. n /\ DOMAIN s = 1 .. n /\ \A j \in 1 .. n : s[j] \in S
  OBVIOUS
<1>2. t = [j \in 1 .. n - 1 |-> IF j < i THEN s[j] ELSE s[j + 1]]
  BY <1>1, RemoveIs DEF Less, Sorts!RemoveAt
<1>. HIDE DEF t, n
<1>3. DOMAIN t = 1 .. n - 1 /\ n - 1 \in Nat
      /\ \A j \in 1 .. n - 1 : \E k \in 1 .. n : t[j] = s[k]
  <2>1. ASSUME NEW j \in 1 .. n - 1 PROVE \E k \in 1 .. n : t[j] = s[k]
    <3>1. j \in 1 .. n /\ j + 1 \in 1 .. n /\ t[j] = IF j < i THEN s[j] ELSE s[j + 1]
      BY <1>1, <1>2, <2>1
    <3>. QED  BY <3>1
  <2>. QED  BY <1>1, <1>2, <2>1
<1>4. t \in [1 .. n - 1 -> S]
  BY <1>1, <1>2
<1>5. t \in Seq(S) /\ Len(t) = n - 1
  BY <1>3, <1>4
<1>. QED  BY <1>1, <1>3, <1>5 DEF t, n

LEMMA InitSortInv ==
    Sorts!Init /\ (setup.multiple \/ Len(Defaults) <= 1) => SortInv
<1>. SUFFICES ASSUME Sorts!Init, setup.multiple \/ Len(Defaults) <= 1 PROVE SortInv
  OBVIOUS
<1>1. /\ sorters = Sorts!Served(<<>>) /\ sorted = Sorts!Served(<<>>) /\ requests = <<>>
      /\ direction = Sorts!CellDirections(sorters, [c \in Sorts!Names |-> None])
      /\ current = Sorts!Rendered(sorters, [column |-> None, direction |-> None])
      /\ fresh = TRUE /\ smooth = TRUE /\ setup.multiple \in BOOLEAN
  BY DEF Sorts!Init
<1>2. requests \in Seq(Answers({}))
  BY <1>1
<1>3. Sorts!Served(sorters) = sorters
  BY <1>1 DEF Sorts!Served
<1>4. ASSUME ~setup.multiple PROVE Single(sorters)
  <2>1. CASE Defaults = <<>>
    <3>1. sorters = << <<SortColumns[1], "ascending">> >>
      BY <1>1, <2>1 DEF Sorts!Served
    <3>2. SortColumns[1] \in Sorts!Names
      BY SortAssumption
    <3>. QED  BY <3>1, <3>2 DEF Single, Sorts!Directions
  <2>2. CASE Defaults # <<>>
    <3>1. sorters = Defaults
      BY <1>1, <2>2 DEF Sorts!Served
    <3>2. Defaults \in Sorts!Sorters
      BY LayoutAssumption DEF LayoutAssumption, Sorts!SortingAssumption
    <3>. QED  BY <1>4, <3>1, <3>2, SingleSorters
  <2>. QED  BY <2>1, <2>2
<1>5. DropdownOK
  <2>1. ASSUME ~setup.multiple
        PROVE  direction \in [Sorts!Names -> Sorts!Directions \cup {None}]
    BY <1>1, <1>4, <2>1, CellDirectionsType
  <2>2. [column |-> None, direction |-> None] \in
           [column : Sorts!Names \cup {None}, direction : Sorts!Directions \cup {None}]
    OBVIOUS
  <2>. QED  BY <1>1, <1>4, <2>1, <2>2, RenderedSingle DEF DropdownOK
<1>6. HeadersOK
  BY <1>1, <1>3 DEF HeadersOK, Sorts!CellDirections
<1>. QED  BY <1>1, <1>2, <1>5, <1>6 DEF SortInv, LastOK, SmoothOK

\* A request is sent: the earlier ones are no longer the last.
LEMMA FetchStep ==
    ASSUME SortInv, Sorts!Fetch, smooth' \in BOOLEAN, smooth' => requests = <<>>
    PROVE  /\ LastOK' /\ HeadersOK' /\ SmoothOK'
           /\ setup' = setup /\ fresh' = FALSE
<1>. DEFINE r == [sent |-> sorters', last |-> TRUE]
<1>1. PICK B : requests \in Seq(Answers(B))
  BY DEF SortInv, LastOK
<1>2. /\ requests' = Append([i \in DOMAIN requests |-> [requests[i] EXCEPT !.last = FALSE]], r)
      /\ setup' = setup /\ fresh' = FALSE
  BY DEF Sorts!Fetch
<1>. DEFINE old == [i \in DOMAIN requests |-> [requests[i] EXCEPT !.last = FALSE]]
            B1  == B \cup {sorters'}
<1>3. old \in Seq(Answers(B1)) /\ Len(old) = Len(requests)
      /\ \A i \in DOMAIN old : ~old[i].last
  <2>1. ASSUME NEW q1 \in Answers(B)
        PROVE  [q1 EXCEPT !.last = FALSE] \in Answers(B1) /\ [q1 EXCEPT !.last = FALSE].last = FALSE
    BY DEF Answers
  <2>. HIDE DEF B1
  <2>2. DOMAIN old = 1 .. Len(requests) /\ Len(requests) \in Nat
    BY <1>1
  <2>3. ASSUME NEW i \in 1 .. Len(requests) PROVE old[i] \in Answers(B1) /\ old[i].last = FALSE
    <3>1. requests[i] \in Answers(B) /\ old[i] = [requests[i] EXCEPT !.last = FALSE]
      BY <1>1, <2>2
    <3>. HIDE DEF old
    <3>. QED  BY <2>1, <3>1
  <2>4. old = [i \in 1 .. Len(requests) |-> old[i]]
    BY <2>2
  <2>. HIDE DEF old
  <2>5. old \in [1 .. Len(requests) -> Answers(B1)]
    BY <2>3, <2>4
  <2>6. old \in Seq(Answers(B1)) /\ Len(old) = Len(requests)
    BY <2>2, <2>5
  <2>. QED  BY <2>2, <2>3, <2>6
<1>4. r \in Answers(B1)
  BY DEF Answers
<1>. HIDE DEF old, B1, r
<1>5. requests' = Append(old, r) /\ requests' \in Seq(Answers(B1))
  BY <1>2, <1>3, <1>4 DEF old
<1>6. LastOK'
  <2>1. \A i \in DOMAIN requests' : requests'[i].last => requests'[i] = r
    BY <1>3, <1>5
  <2>2. r.sent = sorters'
    BY DEF r
  <2>. QED  BY <1>5, <2>1, <2>2 DEF LastOK
<1>7. SmoothOK'
  <2>. SUFFICES ASSUME smooth' PROVE Len(requests') <= 1 /\ (\A i \in DOMAIN requests' : requests'[i].last)
                                     /\ requests' # <<>>
    BY DEF SmoothOK
  <2>1. Len(old) = 0
    BY <1>3
  <2>2. Len(requests') = 1 /\ requests'[1] = r
    BY <1>3, <1>5, <2>1
  <2>3. r.last
    BY DEF r
  <2>. QED  BY <1>5, <2>2, <2>3
<1>. QED  BY <1>2, <1>6, <1>7 DEF HeadersOK

LEMMA SortStepOK ==
    ASSUME SortInv, NEW c \in Sorts!Names, NEW d \in Sorts!Directions \cup {None}, NEW cur,
           Sorts!Sort(c, d, cur),
           ~setup.multiple => /\ d # None
                              /\ cur \in [column : Sorts!Names \cup {None},
                                          direction : Sorts!Directions \cup {None}]
                              /\ smooth /\ direction[c] = d /\ sorters = << <<c, d>> >>
                                    => cur = [column |-> c, direction |-> d]
    PROVE  SortInv'
<1>1. /\ sorters' = Sorts!SetSorting(sorters, c, d) /\ direction' = [direction EXCEPT ![c] = d]
      /\ current' = Sorts!Followed(direction, direction', cur)
      /\ smooth' = (smooth /\ requests = <<>>) /\ Sorts!Fetch
  BY DEF Sorts!Sort
<1>2. LastOK' /\ HeadersOK' /\ SmoothOK' /\ setup' = setup /\ fresh' = FALSE
  BY <1>1, FetchStep
<1>3. ASSUME ~setup.multiple PROVE DropdownOK'
  <2>1. sorters' = << <<c, d>> >>
    BY <1>1, <1>3 DEF Sorts!SetSorting
  <2>2. direction \in [Sorts!Names -> Sorts!Directions \cup {None}] /\ Single(sorters)
    BY <1>3 DEF SortInv, DropdownOK
  <2>3. direction' \in [Sorts!Names -> Sorts!Directions \cup {None}] /\ direction'[c] = d
    BY <1>1, <2>2
  <2>4. \A k \in Sorts!Names : k # c => direction'[k] = direction[k] \/ direction'[k] = None
    BY <1>1, <2>2
  <2>5. current' = IF d # direction[c] /\ d # None
                   THEN [column |-> c, direction |-> d] ELSE cur
    <3>1. Sorts!Followed(direction, direction', cur)
             = IF direction'[c] # direction[c] /\ direction'[c] # None
               THEN [column |-> c, direction |-> direction'[c]] ELSE cur
      BY <2>4, FollowedOne
    <3>. QED  BY <1>1, <2>3, <3>1
  <2>6. ASSUME smooth, requests = <<>>, d = direction[c] PROVE sorters = << <<c, d>> >>
    <3>1. d = Sorts!DirectionOf(sorters, c)
      BY <2>6 DEF SortInv, SmoothOK, HeadersOK
    <3>. QED  BY <1>3, <2>2, <3>1, DirectionOfSingle DEF Single
  <2>7. smooth' => current' = [column |-> c, direction |-> d]
    BY <1>1, <1>3, <2>5, <2>6
  <2>8. current' \in [column : Sorts!Names \cup {None}, direction : Sorts!Directions \cup {None}]
    BY <1>3, <2>5
  <2>. QED  BY <1>2, <1>3, <2>1, <2>3, <2>7, <2>8 DEF DropdownOK, Single
<1>4. smooth' \in BOOLEAN
  BY <1>1
<1>. QED  BY <1>2, <1>3, <1>4 DEF SortInv, DropdownOK

LEMMA AnswerSortStep ==
    ASSUME SortInv, NEW i \in DOMAIN requests, Sorts!Answer(i)
    PROVE  SortInv'
<1>1. /\ requests' = Sorts!RemoveAt(requests, i) /\ sorted' = Sorts!Served(requests[i].sent)
      /\ fresh' = requests[i].last /\ direction' = Sorts!CellDirections(sorters, direction)
      /\ current' = Sorts!Followed(direction, direction', current)
      /\ setup' = setup /\ sorters' = sorters /\ smooth' = smooth
  BY DEF Sorts!Answer
<1>2. PICK B : requests \in Seq(Answers(B))
  BY DEF SortInv, LastOK
<1>3. /\ requests' \in Seq(Answers(B))
      /\ Len(requests') = Len(requests) - 1
      /\ \A j \in DOMAIN requests' : \E k \in DOMAIN requests : requests'[j] = requests[k]
  <2>1. /\ Sorts!RemoveAt(requests, i) \in Seq(Answers(B))
        /\ Len(Sorts!RemoveAt(requests, i)) = Len(requests) - 1
        /\ \A j \in DOMAIN Sorts!RemoveAt(requests, i) :
              \E k \in DOMAIN requests : Sorts!RemoveAt(requests, i)[j] = requests[k]
    BY <1>2, RemovedAt
  <2>. QED  BY <1>1, <2>1
<1>4. requests[i] \in Answers(B) /\ fresh' \in BOOLEAN
  <2>1. requests[i] \in Answers(B)
    BY <1>2
  <2>. QED  BY <1>1, <2>1 DEF Answers
<1>5. LastOK'
  BY <1>1, <1>3 DEF SortInv, LastOK
<1>6. HeadersOK'
  BY <1>1 DEF SortInv, LastOK, HeadersOK, Sorts!CellDirections
<1>7. SmoothOK'
  <2>. SUFFICES ASSUME smooth PROVE SmoothOK'
    BY <1>1 DEF SmoothOK
  <2>1. Len(requests) <= 1 /\ \A k \in DOMAIN requests : requests[k].last
    BY DEF SortInv, SmoothOK
  <2>2. fresh'
    BY <1>1, <2>1
  <2>. QED  BY <1>2, <1>3, <2>1, <2>2 DEF SmoothOK
<1>8. ASSUME ~setup.multiple PROVE DropdownOK'
  <2>1. /\ Single(sorters) /\ direction \in [Sorts!Names -> Sorts!Directions \cup {None}]
        /\ current \in [column : Sorts!Names \cup {None}, direction : Sorts!Directions \cup {None}]
    BY <1>8 DEF SortInv, DropdownOK
  <2>2. direction' \in [Sorts!Names -> Sorts!Directions \cup {None}]
    BY <1>1, <2>1, CellDirectionsType
  <2>3. \A c \in Sorts!Names : direction'[c] = Sorts!DirectionOf(sorters, c)
    BY <1>1 DEF Sorts!CellDirections
  <2>4. CASE sorters = <<>>
    <3>1. \A c \in Sorts!Names : direction'[c] = None
      BY <2>3, <2>4, DirectionOfSingle
    <3>2. SortColumns[1] \in Sorts!Names
      BY SortAssumption
    <3>3. current' = current
      BY <1>1, <3>1, <3>2, FollowedOne
    <3>. QED  BY <1>1, <1>8, <2>1, <2>2, <2>4, <3>3 DEF DropdownOK
  <2>5. ASSUME NEW c \in Sorts!Names, NEW d \in Sorts!Directions, sorters = << <<c, d>> >>
        PROVE  DropdownOK'
    <3>1. direction'[c] = d /\ \A k \in Sorts!Names : k # c => direction'[k] = None
      BY <2>3, <2>5, DirectionOfSingle
    <3>2. current' = IF d # direction[c] /\ d # None
                     THEN [column |-> c, direction |-> d] ELSE current
      BY <1>1, <3>1, FollowedOne
    <3>3. smooth => current = [column |-> c, direction |-> d]
      BY <1>8, <2>5 DEF SortInv, DropdownOK
    <3>4. current' \in [column : Sorts!Names \cup {None}, direction : Sorts!Directions \cup {None}]
      BY <2>1, <3>2
    <3>. QED  BY <1>1, <1>8, <2>1, <2>2, <2>5, <3>2, <3>3, <3>4 DEF DropdownOK
  <2>. QED  BY <2>1, <2>4, <2>5 DEF Single
<1>. QED  BY <1>1, <1>4, <1>5, <1>6, <1>7, <1>8 DEF SortInv, DropdownOK

LEMMA NextSortInv == SortInv /\ [Sorts!Next]_(Sorts!vars) => SortInv'
<1>. SUFFICES ASSUME SortInv, [Sorts!Next]_(Sorts!vars) PROVE SortInv'
  OBVIOUS
<1>. DEFINE Dropdowns == [column : Sorts!Names \cup {None}, direction : Sorts!Directions \cup {None}]
<1>1. ASSUME NEW c \in Sorts!Names, Sorts!ClickHeader(c) PROVE SortInv'
  <2>. DEFINE d == IF direction[c] = "ascending" THEN "descending"
                   ELSE IF /\ direction[c] = "descending"
                           /\ setup.multiple /\ c \notin ToggleColumns THEN None
                   ELSE "ascending"
  <2>1. Sorts!Sort(c, d, current)
    BY <1>1 DEF Sorts!ClickHeader
  <2>2. d \in Sorts!Directions \cup {None}
    BY DEF Sorts!Directions
  <2>3. ~setup.multiple => d # None /\ direction[c] # d /\ current \in Dropdowns
    BY SortAssumption DEF SortInv, DropdownOK, Sorts!Directions
  <2>. HIDE DEF d
  <2>. QED  BY <2>1, <2>2, <2>3, SortStepOK
<1>2. CASE Sorts!ToggleDirection
  <2>. DEFINE d == IF current.direction = "descending" THEN "ascending" ELSE "descending"
              cur == [current EXCEPT !.direction = d]
  <2>1. ~setup.multiple
    BY <1>2 DEF Sorts!ToggleDirection
  <2>2. current \in Dropdowns /\ d \in Sorts!Directions /\ cur \in Dropdowns /\ d # None
        /\ d # current.direction
    BY <2>1, SortAssumption DEF SortInv, DropdownOK, Sorts!Directions
  <2>3. CASE current.column # None
    <3>1. Sorts!Sort(current.column, d, cur)
      BY <1>2, <2>3 DEF Sorts!ToggleDirection
    <3>2. current.column \in Sorts!Names
      BY <2>2, <2>3
    <3>3. smooth /\ sorters = << <<current.column, d>> >> => current.direction = d
      BY <2>1 DEF SortInv, DropdownOK
    <3>. HIDE DEF d, cur
    <3>. QED  BY <2>2, <3>1, <3>2, <3>3, SortStepOK
  <2>4. CASE current.column = None
    <3>1. /\ current' = cur /\ setup' = setup /\ sorters' = sorters /\ direction' = direction
          /\ sorted' = sorted /\ requests' = requests /\ fresh' = fresh /\ smooth' = smooth
      BY <1>2, <2>4 DEF Sorts!ToggleDirection
    <3>2. smooth => sorters = <<>>
      <4>1. Single(sorters)
        BY <2>1 DEF SortInv, DropdownOK
      <4>2. ASSUME NEW k \in Sorts!Names, NEW e \in Sorts!Directions, sorters = << <<k, e>> >>, smooth
            PROVE  FALSE
        BY <2>1, <2>4, <4>2, SortAssumption DEF SortInv, DropdownOK
      <4>. QED  BY <4>1, <4>2 DEF Single
    <3>3. DropdownOK'
      BY <2>1, <2>2, <3>1, <3>2 DEF SortInv, DropdownOK
    <3>. QED  BY <3>1, <3>3 DEF SortInv, LastOK, HeadersOK, SmoothOK
  <2>. QED  BY <2>3, <2>4
<1>3. ASSUME NEW c \in Sorts!Names, NEW d \in Sorts!Directions, Sorts!ChooseColumn(c, d)
      PROVE  SortInv'
  <2>. DEFINE cur == [current EXCEPT !.direction = d]
  <2>1. /\ ~setup.multiple /\ Sorts!Sort(c, d, cur)
        /\ smooth => [column |-> c, direction |-> d] # current
    BY <1>3 DEF Sorts!ChooseColumn
  <2>2. cur \in Dropdowns /\ d # None
    BY <2>1, SortAssumption DEF SortInv, DropdownOK
  <2>3. smooth => sorters # << <<c, d>> >>
    BY <2>1 DEF SortInv, DropdownOK
  <2>. HIDE DEF cur
  <2>. QED  BY <2>1, <2>2, <2>3, SortStepOK
<1>4. CASE Sorts!ChooseNone
  <2>1. /\ ~setup.multiple /\ sorters' = <<>> /\ direction' = direction
        /\ current' = [column |-> None, direction |-> None]
        /\ smooth' = (smooth /\ requests = <<>>) /\ Sorts!Fetch
    BY <1>4 DEF Sorts!ChooseNone
  <2>2. LastOK' /\ HeadersOK' /\ SmoothOK' /\ setup' = setup /\ fresh' = FALSE
    BY <2>1, FetchStep
  <2>3. DropdownOK'
    BY <2>1, <2>2 DEF SortInv, DropdownOK, Single
  <2>. QED  BY <2>1, <2>2, <2>3 DEF SortInv
<1>5. ASSUME NEW s \in SorterViews, Sorts!ApplyState(s) PROVE SortInv'
  <2>1. /\ setup.multiple \/ Len(s) <= 1
        /\ sorters' = s /\ direction' = direction /\ current' = Sorts!Rendered(s, current)
        /\ smooth' = (s # <<>> /\ requests = <<>>) /\ Sorts!Fetch
    BY <1>5 DEF Sorts!ApplyState
  <2>2. LastOK' /\ HeadersOK' /\ SmoothOK' /\ setup' = setup /\ fresh' = FALSE
    BY <2>1, FetchStep
  <2>3. ASSUME ~setup.multiple PROVE DropdownOK'
    <3>1. Single(s)
      BY <2>1, <2>3, SingleSorters, LayoutAssumption DEF LayoutAssumption, Sorts!SortingAssumption
    <3>2. current \in Dropdowns
      BY <2>3 DEF SortInv, DropdownOK
    <3>. QED  BY <2>1, <2>2, <2>3, <3>1, <3>2, RenderedSingle DEF SortInv, DropdownOK
  <2>. QED  BY <2>1, <2>2, <2>3 DEF SortInv, DropdownOK
<1>6. CASE Sorts!ShowOrHideColumn
  <2>1. /\ current' = Sorts!Rendered(sorters, current) /\ smooth' = (fresh /\ requests = <<>>)
        /\ setup' = setup /\ sorters' = sorters /\ direction' = direction
        /\ sorted' = sorted /\ requests' = requests /\ fresh' = fresh
    BY <1>6 DEF Sorts!ShowOrHideColumn
  <2>2. ASSUME ~setup.multiple PROVE DropdownOK'
    <3>1. /\ Single(sorters) /\ current \in Dropdowns
          /\ direction \in [Sorts!Names -> Sorts!Directions \cup {None}]
      BY <2>2 DEF SortInv, DropdownOK
    <3>2. /\ current' \in Dropdowns
          /\ sorters # <<>> => current' = [column |-> sorters[1][1], direction |-> sorters[1][2]]
      BY <2>1, <3>1, RenderedSingle
    <3>. QED  BY <2>1, <2>2, <3>1, <3>2 DEF DropdownOK
  <2>3. SmoothOK'
    <3>. SUFFICES ASSUME smooth' PROVE SmoothOK'
      BY DEF SmoothOK
    <3>1. fresh /\ requests = <<>>
      BY <2>1
    <3>. QED  BY <2>1, <3>1 DEF SmoothOK
  <2>. QED  BY <2>1, <2>2, <2>3 DEF SortInv, LastOK, HeadersOK, DropdownOK
<1>7. ASSUME NEW i \in DOMAIN requests, Sorts!Fail(i) PROVE SortInv'
  <2>1. /\ requests' = Sorts!RemoveAt(requests, i) /\ fresh' = fresh /\ smooth' = FALSE
        /\ setup' = setup /\ sorters' = sorters /\ direction' = direction
        /\ sorted' = sorted /\ current' = current
    BY <1>7 DEF Sorts!Fail
  <2>2. PICK B : requests \in Seq(Answers(B))
    BY DEF SortInv, LastOK
  <2>3. /\ requests' \in Seq(Answers(B))
        /\ \A j \in DOMAIN requests' : \E k \in DOMAIN requests : requests'[j] = requests[k]
    <3>1. /\ Sorts!RemoveAt(requests, i) \in Seq(Answers(B))
          /\ \A j \in DOMAIN Sorts!RemoveAt(requests, i) :
                \E k \in DOMAIN requests : Sorts!RemoveAt(requests, i)[j] = requests[k]
      BY <2>2, RemovedAt
    <3>. QED  BY <2>1, <3>1
  <2>4. LastOK'
    BY <2>1, <2>3 DEF SortInv, LastOK
  <2>. QED  BY <2>1, <2>4 DEF SortInv, HeadersOK, SmoothOK, DropdownOK
<1>8. CASE UNCHANGED Sorts!vars
  BY <1>8 DEF Sorts!vars, SortInv, LastOK, HeadersOK, SmoothOK, DropdownOK
<1>. QED
  BY <1>1, <1>2, <1>3, <1>4, <1>5, <1>6, <1>7, <1>8, AnswerSortStep DEF Sorts!Next

\* After the answer to the last request the headers show the sorters and the rows
\* are sorted by them, and the dropdown shows the first, for any columns, views and
\* number of requests: if a grid without multiple sorting has one default sorter
\* at most.
THEOREM SortingCorrect ==
    Sorts!Spec /\ (setup.multiple \/ Len(Defaults) <= 1) => []SortedAsShown
<1>1. SortInv => SortedAsShown
  BY DEF SortInv, HeadersOK, DropdownOK, SortedAsShown, Sorts!SortedAsShown
<1>. QED  BY <1>1, InitSortInv, NextSortInv, PTL DEF Sorts!Spec

-----------------------------------------------------------------------------
(***************************************************************************)
(* The column manager.  Its lists are arrangements of sets of columns, and *)
(* what is proved of it rests on what an arrangement is: it has every      *)
(* member once, in the given order (ArrangedIs).                           *)
(***************************************************************************)

\* R orders the members of S.
Orders(S, R) ==
    /\ \A c \in S : <<c, c>> \notin R
    /\ \A c, d \in S : c = d \/ <<c, d>> \in R \/ <<d, c>> \in R
    /\ \A c, d, e \in S : <<c, d>> \in R /\ <<d, e>> \in R => <<c, e>> \in R

Earlier(S, R, e) == {d \in S : <<d, e>> \in R}
Rank(S, R, e)    == Cardinality(Earlier(S, R, e))

\* s has every member of S, once.
Lists(s, S) ==
    /\ s \in [1 .. Cardinality(S) -> S]
    /\ \A e \in S : PlaceIn(s, e) \in 1 .. Cardinality(S) /\ s[PlaceIn(s, e)] = e
    /\ \A i \in DOMAIN s : PlaceIn(s, s[i]) = i

LEMMA RankIs ==
    ASSUME NEW S, IsFiniteSet(S), NEW R, Orders(S, R)
    PROVE  /\ Cardinality(S) \in Nat
           /\ \A e \in S : Rank(S, R, e) \in 0 .. Cardinality(S) - 1
           /\ \A c, d \in S : <<c, d>> \in R <=> Rank(S, R, c) < Rank(S, R, d)
           /\ \A c, d \in S : Rank(S, R, c) = Rank(S, R, d) => c = d
<1>1. Cardinality(S) \in Nat
  BY FS_CardinalityType
<1>2. ASSUME NEW T \in SUBSET S, NEW U \in SUBSET T, T # U
      PROVE  /\ Cardinality(U) \in Nat /\ Cardinality(T) \in Nat
             /\ Cardinality(U) < Cardinality(T)
  <2>1. IsFiniteSet(T)
    BY FS_Subset
  <2>2. IsFiniteSet(U) /\ Cardinality(U) <= Cardinality(T) /\ Cardinality(T) # Cardinality(U)
    BY <1>2, <2>1, FS_Subset
  <2>3. Cardinality(U) \in Nat /\ Cardinality(T) \in Nat
    BY <2>1, <2>2, FS_CardinalityType
  <2>. QED  BY <2>2, <2>3
<1>3. ASSUME NEW e \in S PROVE Rank(S, R, e) \in 0 .. Cardinality(S) - 1
  <2>1. Earlier(S, R, e) \in SUBSET S /\ e \notin Earlier(S, R, e)
    BY DEF Orders, Earlier
  <2>2. Earlier(S, R, e) # S
    BY <2>1
  <2>3. Cardinality(Earlier(S, R, e)) \in Nat /\ Cardinality(Earlier(S, R, e)) < Cardinality(S)
    BY <1>2, <2>1, <2>2
  <2>. QED  BY <1>1, <2>3 DEF Rank
<1>4. ASSUME NEW c \in S, NEW d \in S, <<c, d>> \in R PROVE Rank(S, R, c) < Rank(S, R, d)
  <2>1. Earlier(S, R, c) \subseteq Earlier(S, R, d)
    BY <1>4 DEF Orders, Earlier
  <2>2. c \in Earlier(S, R, d) /\ c \notin Earlier(S, R, c) /\ Earlier(S, R, d) \in SUBSET S
    BY <1>4 DEF Orders, Earlier
  <2>. QED  BY <1>2, <2>1, <2>2 DEF Rank
<1>5. \A c, d \in S : c = d \/ <<c, d>> \in R \/ <<d, c>> \in R
  BY DEF Orders
<1>6. ASSUME NEW c \in S, NEW d \in S
      PROVE  /\ <<c, d>> \in R <=> Rank(S, R, c) < Rank(S, R, d)
             /\ Rank(S, R, c) = Rank(S, R, d) => c = d
  <2>1. Rank(S, R, c) \in Int /\ Rank(S, R, d) \in Int
    BY <1>1, <1>3
  <2>2. /\ <<c, d>> \in R => Rank(S, R, c) < Rank(S, R, d)
        /\ <<d, c>> \in R => Rank(S, R, d) < Rank(S, R, c)
        /\ c = d \/ <<c, d>> \in R \/ <<d, c>> \in R
    BY <1>4, <1>5
  <2>. QED  BY <2>1, <2>2
<1>. QED  BY <1>1, <1>3, <1>6

LEMMA ArrangedIs ==
    ASSUME NEW S, IsFiniteSet(S), NEW R, Orders(S, R)
    PROVE  /\ Lists(Arranged(S, R), S)
           /\ \A c, d \in S :
                 PlaceIn(Arranged(S, R), c) < PlaceIn(Arranged(S, R), d) <=> <<c, d>> \in R
           /\ \A e \in S : PlaceIn(Arranged(S, R), e) = Rank(S, R, e) + 1
<1>. DEFINE n == Cardinality(S)
            f == [e \in S |-> Rank(S, R, e) + 1]
            s == Arranged(S, R)
<1>1. /\ n \in Nat
      /\ \A e \in S : Rank(S, R, e) \in 0 .. n - 1
      /\ \A c, d \in S : <<c, d>> \in R <=> Rank(S, R, c) < Rank(S, R, d)
      /\ \A c, d \in S : Rank(S, R, c) = Rank(S, R, d) => c = d
  BY RankIs
<1>2. f \in [S -> 1 .. n] /\ \A e \in S : f[e] = Rank(S, R, e) + 1
  <2>1. \A e \in S : Rank(S, R, e) + 1 \in 1 .. n
    BY <1>1
  <2>. QED  BY <2>1
<1>3. \A c, d \in S : f[c] = f[d] => c = d
  BY <1>1, <1>2
<1>4. \A i \in 1 .. n : \E e \in S : f[e] = i
  <2>1. f \in Injection(S, 1 .. n)
    BY <1>2, <1>3 DEF Injection, IsInjective
  <2>2. IsFiniteSet(1 .. n) /\ Cardinality(1 .. n) = n
    BY <1>1, FS_Interval
  <2>3. f \in Surjection(S, 1 .. n)
    BY <2>1, <2>2, FS_Injection
  <2>. QED  BY <2>3 DEF Surjection
<1>5. s = [i \in 1 .. n |-> CHOOSE e \in S : Rank(S, R, e) = i - 1]
  BY DEF Arranged, Rank, Earlier
<1>6. ASSUME NEW e \in S
      PROVE  /\ s[f[e]] = e /\ f[e] \in 1 .. n /\ f[e] \in DOMAIN s
             /\ \A i \in 1 .. n : s[i] = e => i = f[e]
  <2>1. \A i \in 1 .. n : \E d \in S : s[i] = d /\ f[d] = i
    <3>1. SUFFICES ASSUME NEW i \in 1 .. n PROVE \E d \in S : s[i] = d /\ f[d] = i
      OBVIOUS
    <3>2. PICK d \in S : f[d] = i
      BY <1>4
    <3>3. Rank(S, R, d) = i - 1
      BY <1>1, <1>2, <3>2
    <3>4. (CHOOSE z \in S : Rank(S, R, z) = i - 1) = d
      BY <1>1, <3>3
    <3>. QED  BY <1>5, <3>2, <3>4
  <2>2. f[e] \in 1 .. n
    BY <1>2
  <2>. HIDE DEF f, s
  <2>3. s[f[e]] = e
    BY <1>3, <2>1, <2>2
  <2>. QED  BY <1>5, <2>1, <2>2, <2>3
<1>7. s \in [1 .. n -> S]
  <2>1. ASSUME NEW i \in 1 .. n PROVE s[i] \in S
    <3>. HIDE DEF f, s
    <3>. QED  BY <1>4, <1>6
  <2>. HIDE DEF f
  <2>. QED  BY <1>5, <2>1
<1>8. ASSUME NEW e \in S PROVE PlaceIn(s, e) = f[e]
  <2>. HIDE DEF f, s
  <2>1. /\ f[e] \in DOMAIN s /\ s[f[e]] = e /\ DOMAIN s = 1 .. n
        /\ \A i \in DOMAIN s : s[i] = e => i = f[e]
    BY <1>6, <1>7
  <2>2. \A j \in DOMAIN s : s[j] = e => f[e] <= j
    BY <1>1, <2>1
  <2>3. \A i \in DOMAIN s : (s[i] = e /\ \A j \in DOMAIN s : s[j] = e => i <= j) => i = f[e]
    BY <2>1
  <2>. QED  BY <2>1, <2>2, <2>3 DEF PlaceIn
<1>9. Lists(s, S)
  <2>. HIDE DEF f, s
  <2>1. \A e \in S : PlaceIn(s, e) \in 1 .. n /\ s[PlaceIn(s, e)] = e
    BY <1>6, <1>8
  <2>2. \A i \in DOMAIN s : PlaceIn(s, s[i]) = i
    BY <1>6, <1>7, <1>8
  <2>. QED  BY <1>7, <2>1, <2>2 DEF Lists
<1>10. \A c, d \in S : PlaceIn(s, c) < PlaceIn(s, d) <=> <<c, d>> \in R
  <2>1. SUFFICES ASSUME NEW c \in S, NEW d \in S
                 PROVE  PlaceIn(s, c) < PlaceIn(s, d) <=> <<c, d>> \in R
    OBVIOUS
  <2>2. PlaceIn(s, c) = Rank(S, R, c) + 1 /\ PlaceIn(s, d) = Rank(S, R, d) + 1
    BY <1>2, <1>8
  <2>3. Rank(S, R, c) \in Nat /\ Rank(S, R, d) \in Nat
    BY <1>1
  <2>. HIDE DEF s
  <2>. QED  BY <1>1, <2>2, <2>3
<1>11. \A e \in S : PlaceIn(s, e) = Rank(S, R, e) + 1
  BY <1>2, <1>8
<1>. QED  BY <1>9, <1>10, <1>11

\* The orders that are used.
Places(S, s) ==
    /\ \A e \in S : PlaceIn(s, e) \in Int
    /\ \A c, d \in S : PlaceIn(s, c) = PlaceIn(s, d) => c = d

LEMMA KeysOrder ==
    ASSUME NEW S, NEW s, Places(S, s), NEW key, \A e \in S : key[e] \in Int
    PROVE  /\ Orders(S, ByKeys(S, s, key))
           /\ \A c, d \in S : <<c, d>> \in ByKeys(S, s, key)
                 <=> \/ key[c] < key[d]
                     \/ key[c] = key[d] /\ PlaceIn(s, c) < PlaceIn(s, d)
<1>1. \A c, d \in S : <<c, d>> \in ByKeys(S, s, key)
         <=> \/ key[c] < key[d]
             \/ key[c] = key[d] /\ PlaceIn(s, c) < PlaceIn(s, d)
  BY DEF ByKeys
<1>2. \A e \in S : key[e] \in Int /\ PlaceIn(s, e) \in Int
  BY DEF Places
<1>3. \A c \in S : <<c, c>> \notin ByKeys(S, s, key)
  BY <1>1, <1>2
<1>4. \A c, d \in S : c = d \/ <<c, d>> \in ByKeys(S, s, key) \/ <<d, c>> \in ByKeys(S, s, key)
  <2>1. SUFFICES ASSUME NEW c \in S, NEW d \in S, c # d
                 PROVE  <<c, d>> \in ByKeys(S, s, key) \/ <<d, c>> \in ByKeys(S, s, key)
    OBVIOUS
  <2>2. /\ key[c] \in Int /\ key[d] \in Int
        /\ PlaceIn(s, c) \in Int /\ PlaceIn(s, d) \in Int
        /\ PlaceIn(s, c) # PlaceIn(s, d)
    BY <1>2, <2>1 DEF Places
  <2>. QED  BY <1>1, <2>2
<1>5. \A c, d, e \in S : <<c, d>> \in ByKeys(S, s, key) /\ <<d, e>> \in ByKeys(S, s, key)
                         => <<c, e>> \in ByKeys(S, s, key)
  BY <1>1, <1>2
<1>. QED  BY <1>1, <1>3, <1>4, <1>5 DEF Orders

InPlace(S, s) == {two \in S \X S : PlaceIn(s, two[1]) < PlaceIn(s, two[2])}

LEMMA InPlaceOrder ==
    ASSUME NEW S, NEW s, Places(S, s)
    PROVE  /\ Orders(S, InPlace(S, s))
           /\ \A c, d \in S : <<c, d>> \in InPlace(S, s) <=> PlaceIn(s, c) < PlaceIn(s, d)
<1>1. \A c, d \in S : <<c, d>> \in InPlace(S, s) <=> PlaceIn(s, c) < PlaceIn(s, d)
  BY DEF InPlace
<1>. QED  BY <1>1 DEF Orders, Places

LEMMA ListsPlaces ==
    ASSUME NEW S, IsFiniteSet(S), NEW s, Lists(s, S), NEW T \in SUBSET S
    PROVE  Places(T, s) /\ Manager!ToSet(s) = S /\ DOMAIN s = 1 .. Cardinality(S)
<1>1. Cardinality(S) \in Nat
  BY FS_CardinalityType
<1>2. Manager!ToSet(s) = S
  BY DEF Manager!ToSet, Lists
<1>. QED  BY <1>1, <1>2 DEF Places, Lists

\* Whoever orders alike arranges alike.
LEMMA SameArranged ==
    ASSUME NEW S, NEW Q, NEW R, \A c, d \in S : <<c, d>> \in Q <=> <<c, d>> \in R
    PROVE  Arranged(S, Q) = Arranged(S, R)
<1>1. \A e \in S : {d \in S : <<d, e>> \in Q} = {d \in S : <<d, e>> \in R}
  OBVIOUS
<1>. DEFINE one(e) == Cardinality({d \in S : <<d, e>> \in Q})
            two(e) == Cardinality({d \in S : <<d, e>> \in R})
<1>2. \A e \in S : one(e) = two(e)
  BY <1>1
<1>. HIDE DEF one, two
<1>3. \A i \in 1 .. Cardinality(S) :
         (CHOOSE e \in S : one(e) = i - 1) = (CHOOSE e \in S : two(e) = i - 1)
  BY <1>2
<1>4. /\ Arranged(S, Q) = [i \in 1 .. Cardinality(S) |-> CHOOSE e \in S : one(e) = i - 1]
      /\ Arranged(S, R) = [i \in 1 .. Cardinality(S) |-> CHOOSE e \in S : two(e) = i - 1]
  BY DEF Arranged, one, two
<1>. QED  BY <1>3, <1>4

\* A sequence that repeats nothing lists what is in it.
LEMMA InjectiveLists ==
    ASSUME NEW n \in Nat, NEW S, NEW s \in [1 .. n -> S],
           \A e \in S : \E i \in 1 .. n : s[i] = e,
           \A i, j \in 1 .. n : s[i] = s[j] => i = j
    PROVE  IsFiniteSet(S) /\ Cardinality(S) = n /\ Lists(s, S)
<1>1. s \in Bijection(1 .. n, S)
  BY DEF Bijection, Injection, Surjection, IsInjective
<1>2. IsFiniteSet(1 .. n) /\ Cardinality(1 .. n) = n
  BY FS_Interval
<1>3. IsFiniteSet(S) /\ Cardinality(S) = n
  <2>1. IsFiniteSet(S)
    BY <1>1, <1>2, FS_Surjection DEF Bijection
  <2>2. Cardinality(1 .. n) = Cardinality(S)
    BY <1>1, <1>2, FS_Bijection DEF ExistsBijection
  <2>. QED  BY <1>2, <2>1, <2>2
<1>4. ASSUME NEW i \in 1 .. n PROVE PlaceIn(s, s[i]) = i
  <2>1. DOMAIN s = 1 .. n
    OBVIOUS
  <2>2. \A j \in DOMAIN s : s[j] = s[i] => i <= j
    BY <2>1
  <2>3. \A k \in DOMAIN s : (s[k] = s[i] /\ \A j \in DOMAIN s : s[j] = s[i] => k <= j) => k = i
    BY <2>1
  <2>. QED  BY <2>1, <2>2, <2>3 DEF PlaceIn
<1>5. \A e \in S : PlaceIn(s, e) \in 1 .. n /\ s[PlaceIn(s, e)] = e
  BY <1>4
<1>6. DOMAIN s = 1 .. n
  OBVIOUS
<1>. QED  BY <1>3, <1>4, <1>5, <1>6 DEF Lists

Cols == Manager!ToSet(Manager!AllColumns)

LEMMA ManagersOwn ==
    /\ \A S, R : Manager!Arranged(S, R) = Arranged(S, R)
    /\ \A S, s, key : Manager!ByKeys(S, s, key) = ByKeys(S, s, key)
    /\ \A S, s : Manager!AsIn(S, s) = AsIn(S, s) /\ AsIn(S, s) = Arranged(S, InPlace(S, s))
    /\ \A s, e : Manager!PlaceIn(s, e) = PlaceIn(s, e)
    /\ \A s, ord : Manager!Sorted(s, ord)
                     = Arranged(Manager!ToSet(s), ByKeys(Manager!ToSet(s), s, ord))
    /\ \A s, e : Manager!Position(s, e) = PlaceIn(s, e) - 1
<1>1. \A S, R : Manager!Arranged(S, R) = Arranged(S, R)
  <2>1. \A S : Manager!Cardinality(S) = Cardinality(S)
    BY DEF Cardinality, Manager!Cardinality
  <2>2. TAKE S, R
  <2>. DEFINE one(e) == Manager!Cardinality({d \in S : <<d, e>> \in R})
              two(e) == Cardinality({d \in S : <<d, e>> \in R})
  <2>3. \A e : one(e) = two(e)
    BY <2>1
  <2>. HIDE DEF one, two
  <2>4. \A i : (CHOOSE e \in S : one(e) = i - 1) = (CHOOSE e \in S : two(e) = i - 1)
    BY <2>3
  <2>5. /\ Manager!Arranged(S, R)
              = [i \in 1 .. Cardinality(S) |-> CHOOSE e \in S : one(e) = i - 1]
        /\ Arranged(S, R) = [i \in 1 .. Cardinality(S) |-> CHOOSE e \in S : two(e) = i - 1]
    BY <2>1 DEF Arranged, Manager!Arranged, one, two
  <2>. QED  BY <2>4, <2>5
<1>2. \A s, e : Manager!PlaceIn(s, e) = PlaceIn(s, e)
  BY DEF PlaceIn, Manager!PlaceIn
<1>3. \A S, s, key : Manager!ByKeys(S, s, key) = ByKeys(S, s, key)
  BY <1>2 DEF ByKeys, Manager!ByKeys
<1>4. \A S, s : AsIn(S, s) = Arranged(S, InPlace(S, s))
  BY DEF AsIn, InPlace
<1>5. \A S, s : Manager!AsIn(S, s) = AsIn(S, s)
  BY <1>1, <1>2 DEF AsIn, Manager!AsIn
<1>6. \A s, ord : Manager!Sorted(s, ord)
                    = Arranged(Manager!ToSet(s), ByKeys(Manager!ToSet(s), s, ord))
  BY <1>1, <1>3 DEF Manager!Sorted
<1>7. \A s, e : Manager!Position(s, e) = PlaceIn(s, e) - 1
  BY <1>2 DEF Manager!Position
<1>. QED  BY <1>1, <1>2, <1>3, <1>4, <1>5, <1>6, <1>7

N == Len(Config)

LEMMA ColumnsAre ==
    /\ N \in Nat /\ Config \in [1 .. N -> Manager!ToSet(Config)]
    /\ IsFiniteSet(Manager!ToSet(Config)) /\ Cardinality(Manager!ToSet(Config)) = N
    /\ Lists(Config, Manager!ToSet(Config))
    /\ IsFiniteSet(Cols) /\ Cardinality(Cols) = N + 2
    /\ Lists(Manager!AllColumns, Cols)
    /\ Manager!AllColumns[1] = checkboxes /\ Manager!AllColumns[N + 2] = actions
    /\ Cols = Manager!ToSet(Config) \cup {checkboxes, actions}
    /\ checkboxes \notin Manager!ToSet(Config) /\ actions \notin Manager!ToSet(Config)
    /\ checkboxes # actions
    /\ Managed \subseteq Manager!ToSet(Config) /\ IsFiniteSet(Managed)
    /\ Cardinality(Managed) \in 0 .. N
<1>. DEFINE C   == Manager!ToSet(Config)
            all == Manager!AllColumns
<1>1. /\ Config \in Seq(C) /\ Managed \subseteq C
      /\ \A i, j \in DOMAIN all : all[i] = all[j] => i = j
  BY LayoutAssumption DEF LayoutAssumption, Manager!ColumnManagerAssumption
<1>2. N \in Nat /\ DOMAIN Config = 1 .. N /\ Config \in [1 .. N -> C]
  BY <1>1 DEF N
<1>3. /\ DOMAIN all = 1 .. N + 2 /\ all[1] = checkboxes /\ all[N + 2] = actions
      /\ \A i \in 1 .. N : all[i + 1] = Config[i]
  <2>. DEFINE B == C \cup {checkboxes, actions}
  <2>1. Config \in Seq(B) /\ <<checkboxes>> \in Seq(B) /\ <<actions>> \in Seq(B)
    BY <1>2 DEF N
  <2>. HIDE DEF B
  <2>2. /\ <<checkboxes>> \o Config \in Seq(B) /\ Len(<<checkboxes>> \o Config) = N + 1
        /\ (<<checkboxes>> \o Config)[1] = checkboxes
        /\ \A i \in 1 .. N : (<<checkboxes>> \o Config)[i + 1] = Config[i]
    BY <2>1, <1>2 DEF N
  <2>3. /\ Len(all) = N + 2 /\ all \in Seq(B)
        /\ \A i \in 1 .. N + 1 : all[i] = (<<checkboxes>> \o Config)[i]
        /\ all[N + 2] = actions
    BY <2>1, <2>2, <1>2 DEF Manager!AllColumns
  <2>. QED  BY <2>2, <2>3, <1>2
<1>4. Cols = {all[i] : i \in 1 .. N + 2} /\ C = {Config[i] : i \in 1 .. N}
  BY <1>2, <1>3 DEF Cols, Manager!ToSet
<1>. HIDE DEF all
<1>5. \A i, j \in 1 .. N : Config[i] = Config[j] => i = j
  <2>1. SUFFICES ASSUME NEW i \in 1 .. N, NEW j \in 1 .. N, Config[i] = Config[j] PROVE i = j
    OBVIOUS
  <2>2. i + 1 \in DOMAIN all /\ j + 1 \in DOMAIN all /\ all[i + 1] = all[j + 1]
    BY <1>2, <1>3, <2>1
  <2>3. i + 1 = j + 1
    BY <1>1, <2>2 DEF all
  <2>. QED  BY <1>2, <2>3
<1>6. /\ IsFiniteSet(C) /\ Cardinality(C) = N /\ Lists(Config, C)
  <2>1. \A e \in C : \E i \in 1 .. N : Config[i] = e
    BY <1>4
  <2>. HIDE DEF C
  <2>. QED  BY <1>2, <1>5, <2>1, InjectiveLists
<1>7. all \in [1 .. N + 2 -> Cols]
  <2>1. all \in Seq(C \cup {checkboxes, actions})
    BY <1>1 DEF all, Manager!AllColumns
  <2>2. all = [i \in 1 .. N + 2 |-> all[i]]
    BY <2>1, <1>3
  <2>. QED  BY <1>4, <2>2
<1>8. IsFiniteSet(Cols) /\ Cardinality(Cols) = N + 2 /\ Lists(all, Cols)
  <2>1. \A e \in Cols : \E i \in 1 .. N + 2 : all[i] = e
    BY <1>4
  <2>2. \A i, j \in 1 .. N + 2 : all[i] = all[j] => i = j
    BY <1>1, <1>3 DEF all
  <2>3. N + 2 \in Nat
    BY <1>2
  <2>. QED  BY <1>7, <2>1, <2>2, <2>3, InjectiveLists
<1>9. Cols = C \cup {checkboxes, actions}
  <2>1. \A i \in 1 .. N + 2 : i = 1 \/ i = N + 2 \/ (i - 1 \in 1 .. N /\ all[i] = Config[i - 1])
    BY <1>2, <1>3
  <2>2. \A i \in 1 .. N : i + 1 \in 1 .. N + 2 /\ 1 \in 1 .. N + 2 /\ N + 2 \in 1 .. N + 2
    BY <1>2
  <2>3. 1 \in 1 .. N + 2 /\ N + 2 \in 1 .. N + 2
    BY <1>2
  <2>4. Cols \subseteq C \cup {checkboxes, actions}
    BY <1>3, <1>4, <2>1
  <2>5. C \subseteq Cols
    BY <1>3, <1>4, <2>2
  <2>. QED  BY <1>3, <1>4, <2>3, <2>4, <2>5
<1>10. checkboxes \notin C /\ actions \notin C /\ checkboxes # actions
  <2>1. \A i \in 1 .. N : /\ i + 1 \in DOMAIN all /\ 1 \in DOMAIN all /\ N + 2 \in DOMAIN all
                          /\ i + 1 # 1 /\ i + 1 # N + 2
    BY <1>2, <1>3
  <2>2. 1 \in DOMAIN all /\ N + 2 \in DOMAIN all /\ 1 # N + 2
    BY <1>2, <1>3
  <2>3. \A i, j \in DOMAIN all : all[i] = all[j] => i = j
    BY <1>1 DEF all
  <2>. QED  BY <1>3, <1>4, <2>1, <2>2, <2>3
<1>11. IsFiniteSet(Managed) /\ Cardinality(Managed) \in 0 .. N
  <2>1. IsFiniteSet(Managed) /\ Cardinality(Managed) <= Cardinality(C)
    BY <1>1, <1>6, FS_Subset
  <2>. QED  BY <1>2, <1>6, <2>1, FS_CardinalityType
<1>. QED  BY <1>1, <1>2, <1>3, <1>6, <1>8, <1>9, <1>10, <1>11 DEF all

LEMMA SortedIs ==
    ASSUME NEW S, IsFiniteSet(S), NEW s, Lists(s, S), NEW key, \A e \in S : key[e] \in Int
    PROVE  /\ Lists(Manager!Sorted(s, key), S)
           /\ Manager!Sorted(s, key) = Arranged(S, ByKeys(S, s, key))
           /\ \A c, d \in S :
                 PlaceIn(Manager!Sorted(s, key), c) < PlaceIn(Manager!Sorted(s, key), d)
                 <=> \/ key[c] < key[d]
                     \/ key[c] = key[d] /\ PlaceIn(s, c) < PlaceIn(s, d)
<1>1. Places(S, s) /\ Manager!ToSet(s) = S
  BY ListsPlaces
<1>2. Manager!Sorted(s, key) = Arranged(S, ByKeys(S, s, key))
  BY <1>1, ManagersOwn
<1>3. /\ Orders(S, ByKeys(S, s, key))
      /\ \A c, d \in S : <<c, d>> \in ByKeys(S, s, key)
            <=> \/ key[c] < key[d]
                \/ key[c] = key[d] /\ PlaceIn(s, c) < PlaceIn(s, d)
  BY <1>1, KeysOrder
<1>4. /\ Lists(Arranged(S, ByKeys(S, s, key)), S)
      /\ \A c, d \in S : PlaceIn(Arranged(S, ByKeys(S, s, key)), c)
                            < PlaceIn(Arranged(S, ByKeys(S, s, key)), d)
                         <=> <<c, d>> \in ByKeys(S, s, key)
  BY <1>3, ArrangedIs
<1>. QED  BY <1>2, <1>3, <1>4

LEMMA AsInIs ==
    ASSUME NEW S, IsFiniteSet(S), NEW s, Lists(s, S), NEW T \in SUBSET S
    PROVE  /\ Lists(AsIn(T, s), T)
           /\ \A c, d \in T : PlaceIn(AsIn(T, s), c) < PlaceIn(AsIn(T, s), d)
                              <=> PlaceIn(s, c) < PlaceIn(s, d)
<1>1. Places(T, s) /\ IsFiniteSet(T)
  BY ListsPlaces, FS_Subset
<1>2. /\ Orders(T, InPlace(T, s))
      /\ \A c, d \in T : <<c, d>> \in InPlace(T, s) <=> PlaceIn(s, c) < PlaceIn(s, d)
  BY <1>1, InPlaceOrder
<1>3. AsIn(T, s) = Arranged(T, InPlace(T, s))
  BY ManagersOwn
<1>4. /\ Lists(Arranged(T, InPlace(T, s)), T)
      /\ \A c, d \in T : PlaceIn(Arranged(T, InPlace(T, s)), c)
                            < PlaceIn(Arranged(T, InPlace(T, s)), d)
                         <=> <<c, d>> \in InPlace(T, s)
  BY <1>1, <1>2, ArrangedIs
<1>. QED  BY <1>2, <1>3, <1>4

\* Part of a list and the whole of it, sorted alike, still agree.
LEMMA Resorted ==
    ASSUME NEW S, IsFiniteSet(S), NEW s, Lists(s, S), NEW T \in SUBSET S,
           NEW key, \A e \in S : key[e] \in Int
    PROVE  Manager!Sorted(AsIn(T, s), key) = AsIn(T, Manager!Sorted(s, key))
<1>. DEFINE m == AsIn(T, s)
            t == Manager!Sorted(s, key)
<1>1. IsFiniteSet(T)
  BY FS_Subset
<1>2. /\ Lists(m, T)
      /\ \A c, d \in T : PlaceIn(m, c) < PlaceIn(m, d) <=> PlaceIn(s, c) < PlaceIn(s, d)
  BY AsInIs
<1>3. /\ Lists(t, S)
      /\ \A c, d \in S : PlaceIn(t, c) < PlaceIn(t, d)
            <=> key[c] < key[d] \/ (key[c] = key[d] /\ PlaceIn(s, c) < PlaceIn(s, d))
  BY SortedIs
<1>. HIDE DEF m, t
<1>4. Manager!Sorted(m, key) = Arranged(T, ByKeys(T, m, key)) /\ Places(T, m)
  BY <1>1, <1>2, SortedIs, ListsPlaces
<1>5. AsIn(T, t) = Arranged(T, InPlace(T, t)) /\ Places(T, t)
  BY <1>3, ManagersOwn, ListsPlaces
<1>6. \A c, d \in T : <<c, d>> \in ByKeys(T, m, key)
         <=> key[c] < key[d] \/ (key[c] = key[d] /\ PlaceIn(m, c) < PlaceIn(m, d))
  BY <1>4, KeysOrder
<1>7. \A c, d \in T : <<c, d>> \in InPlace(T, t) <=> PlaceIn(t, c) < PlaceIn(t, d)
  BY <1>5, InPlaceOrder
<1>8. \A c, d \in T : <<c, d>> \in ByKeys(T, m, key) <=> <<c, d>> \in InPlace(T, t)
  BY <1>2, <1>3, <1>6, <1>7
<1>9. Arranged(T, ByKeys(T, m, key)) = Arranged(T, InPlace(T, t))
  BY <1>8, SameArranged
<1>. QED  BY <1>4, <1>5, <1>9 DEF m, t

\* The first one stays the first, if its key is the least, and the last the last.
LEMMA EndsStay ==
    ASSUME NEW S, IsFiniteSet(S), NEW s, Lists(s, S), NEW key, \A e \in S : key[e] \in Int,
           NEW a \in S, s[1] = a, \A e \in S : key[a] <= key[e],
           NEW b \in S, s[Cardinality(S)] = b, \A e \in S : key[e] <= key[b]
    PROVE  /\ Manager!Sorted(s, key)[1] = a
           /\ Manager!Sorted(s, key)[Cardinality(S)] = b
<1>. DEFINE t == Manager!Sorted(s, key)
            n == Cardinality(S)
<1>1. n \in Nat /\ n # 0
  BY FS_CardinalityType, FS_EmptySet
<1>2. /\ Lists(t, S)
      /\ \A c, d \in S : PlaceIn(t, c) < PlaceIn(t, d)
            <=> key[c] < key[d] \/ (key[c] = key[d] /\ PlaceIn(s, c) < PlaceIn(s, d))
  BY SortedIs
<1>. HIDE DEF t
<1>3. /\ s \in [1 .. n -> S] /\ t \in [1 .. n -> S]
      /\ \A e \in S : PlaceIn(s, e) \in 1 .. n /\ s[PlaceIn(s, e)] = e
      /\ \A e \in S : PlaceIn(t, e) \in 1 .. n /\ t[PlaceIn(t, e)] = e
      /\ \A i \in 1 .. n : PlaceIn(s, s[i]) = i /\ PlaceIn(t, t[i]) = i
  BY <1>2 DEF Lists
<1>. HIDE DEF n
<1>4. 1 \in 1 .. n /\ n \in 1 .. n
  BY <1>1
<1>5. PlaceIn(s, a) = 1 /\ PlaceIn(s, b) = n
  BY <1>3, <1>4 DEF n
<1>6. t[1] = a
  <2>1. SUFFICES ASSUME t[1] # a PROVE FALSE
    OBVIOUS
  <2>2. t[1] \in S /\ PlaceIn(t, t[1]) = 1
    BY <1>3, <1>4
  <2>3. PlaceIn(s, t[1]) # 1 /\ PlaceIn(s, t[1]) \in 1 .. n
    BY <1>3, <1>5, <2>1, <2>2
  <2>4. key[a] <= key[t[1]] /\ key[a] \in Int /\ key[t[1]] \in Int
    BY <2>2
  <2>5. PlaceIn(t, a) < PlaceIn(t, t[1])
    BY <1>2, <1>5, <2>2, <2>3, <2>4
  <2>. QED  BY <1>3, <2>2, <2>5
<1>7. t[n] = b
  <2>1. SUFFICES ASSUME t[n] # b PROVE FALSE
    OBVIOUS
  <2>2. t[n] \in S /\ PlaceIn(t, t[n]) = n
    BY <1>3, <1>4
  <2>3. PlaceIn(s, t[n]) # n /\ PlaceIn(s, t[n]) \in 1 .. n
    BY <1>3, <1>5, <2>1, <2>2
  <2>4. key[t[n]] <= key[b] /\ key[b] \in Int /\ key[t[n]] \in Int
    BY <2>2
  <2>5. PlaceIn(t, t[n]) < PlaceIn(t, b)
    BY <1>1, <1>2, <1>5, <2>2, <2>3, <2>4
  <2>. QED  BY <1>1, <1>3, <2>2, <2>5
<1>. QED  BY <1>6, <1>7 DEF t, n

LEMMA Framed ==
    ASSUME NEW m, Lists(m, Manager!ToSet(Config))
    PROVE  LET t == <<checkboxes>> \o m \o <<actions>> IN
           /\ Lists(t, Cols) /\ t[1] = checkboxes /\ t[N + 2] = actions
           /\ \A c \in Manager!ToSet(Config) : PlaceIn(t, c) = PlaceIn(m, c) + 1
<1>. DEFINE C == Manager!ToSet(Config)
            t == <<checkboxes>> \o m \o <<actions>>
<1>1. /\ N \in Nat /\ m \in [1 .. N -> C]
      /\ \A e \in C : PlaceIn(m, e) \in 1 .. N /\ m[PlaceIn(m, e)] = e
      /\ \A i \in 1 .. N : PlaceIn(m, m[i]) = i
  BY ColumnsAre DEF Lists
<1>2. Cols = C \cup {checkboxes, actions} /\ Cardinality(Cols) = N + 2
  BY ColumnsAre
<1>3. /\ t \in [1 .. N + 2 -> Cols] /\ t[1] = checkboxes /\ t[N + 2] = actions
      /\ \A i \in 1 .. N : t[i + 1] = m[i]
  <2>1. m \in Seq(Cols) /\ Len(m) = N /\ <<checkboxes>> \in Seq(Cols) /\ <<actions>> \in Seq(Cols)
    BY <1>1, <1>2
  <2>. HIDE DEF C
  <2>2. /\ <<checkboxes>> \o m \in Seq(Cols) /\ Len(<<checkboxes>> \o m) = N + 1
        /\ (<<checkboxes>> \o m)[1] = checkboxes
        /\ \A i \in 1 .. N : (<<checkboxes>> \o m)[i + 1] = m[i]
    BY <1>1, <2>1
  <2>3. /\ Len(t) = N + 2 /\ t \in Seq(Cols)
        /\ \A i \in 1 .. N + 1 : t[i] = (<<checkboxes>> \o m)[i]
        /\ t[N + 2] = actions
    BY <1>1, <2>1, <2>2
  <2>. HIDE DEF t
  <2>. QED  BY <1>1, <2>2, <2>3
<1>. HIDE DEF t
<1>4. \A i \in 1 .. N + 2 : i = 1 \/ i = N + 2 \/ (i - 1 \in 1 .. N /\ t[i] = m[i - 1])
  BY <1>1, <1>3
<1>5. checkboxes \notin C /\ actions \notin C /\ checkboxes # actions
  BY ColumnsAre
<1>6. \A i, j \in 1 .. N + 2 : t[i] = t[j] => i = j
  <2>1. \A i \in 1 .. N + 2 : i = 1 \/ i = N + 2 \/ (t[i] \in C /\ PlaceIn(m, t[i]) = i - 1)
    BY <1>1, <1>4
  <2>2. SUFFICES ASSUME NEW i \in 1 .. N + 2, NEW j \in 1 .. N + 2, t[i] = t[j] PROVE i = j
    OBVIOUS
  <2>3. /\ i = 1 \/ i = N + 2 \/ (t[i] \in C /\ PlaceIn(m, t[i]) = i - 1)
        /\ j = 1 \/ j = N + 2 \/ (t[j] \in C /\ PlaceIn(m, t[j]) = j - 1)
        /\ i \in Int /\ j \in Int
    BY <1>1, <2>1
  <2>4. CASE t[i] \in C
    BY <1>3, <1>5, <2>2, <2>3, <2>4
  <2>5. CASE t[i] \notin C
    BY <1>3, <1>5, <2>2, <2>3, <2>5
  <2>. QED  BY <2>4, <2>5
<1>7. \A e \in C : PlaceIn(m, e) + 1 \in 1 .. N + 2 /\ t[PlaceIn(m, e) + 1] = e
  BY <1>1, <1>3
<1>8. \A e \in Cols : \E i \in 1 .. N + 2 : t[i] = e
  <2>1. 1 \in 1 .. N + 2 /\ N + 2 \in 1 .. N + 2
    BY <1>1
  <2>. QED  BY <1>2, <1>3, <1>7, <2>1
<1>9. Lists(t, Cols)
  <2>1. N + 2 \in Nat
    BY <1>1
  <2>. QED  BY <1>3, <1>6, <1>8, <2>1, InjectiveLists
<1>10. ASSUME NEW c \in C PROVE PlaceIn(t, c) = PlaceIn(m, c) + 1
  <2>1. \A i \in 1 .. N + 2 : PlaceIn(t, t[i]) = i
    BY <1>3, <1>9 DEF Lists
  <2>2. PlaceIn(m, c) + 1 \in 1 .. N + 2 /\ t[PlaceIn(m, c) + 1] = c
    BY <1>7
  <2>. QED  BY <2>1, <2>2
<1>. QED  BY <1>3, <1>9, <1>10 DEF t

Settings(s) == \A c \in DOMAIN s : s[c] \in [renderable : BOOLEAN, order : 0 .. N + 1]
Packing(u)  == \E n \in 0 .. N + 2 : DOMAIN u = 1 .. n /\ \A i \in 1 .. n : u[i][2] \in BOOLEAN

\* All columns are in the table, the checkboxes first and the actions last, and
\* the attributes order keep these where they are when it is sorted.
TableOK ==
    /\ Lists(table, Cols) /\ table[1] = checkboxes /\ table[N + 2] = actions
    /\ columnOrder \in [Cols -> 0 .. N + 1]
    /\ columnOrder[checkboxes] = 0 /\ columnOrder[actions] = N + 1

StateOK ==
    /\ Settings(columns)
    /\ \A c \in Managed \cap DOMAIN columns :
          columns[c] = [renderable |-> c \in renderable, order |-> columnOrder[c]]

ManagerInv ==
    /\ TableOK
    /\ managed = AsIn(Managed, table)
    /\ StateOK
    /\ Packing(packed)
    /\ disabled = Manager!Disabled(renderable)

\* As many columns in the URL as there are, at most.
LEMMA PackedOK ==
    ASSUME NEW K, IsFiniteSet(K), Cardinality(K) <= N + 2, NEW keys, Lists(keys, K),
           NEW s, Settings(s)
    PROVE  Packing(Manager!Packed(s, keys))
<1>. DEFINE S     == K \cap DOMAIN s
            key   == [c \in S |-> s[c].order]
            names == Arranged(S, ByKeys(S, keys, key))
<1>1. N \in Nat /\ Manager!ToSet(keys) = K /\ Places(S, keys)
  BY ColumnsAre, ListsPlaces
<1>2. IsFiniteSet(S) /\ Cardinality(S) \in 0 .. N + 2
  <2>1. IsFiniteSet(S) /\ Cardinality(S) <= Cardinality(K)
    BY FS_Subset
  <2>. QED  BY <1>1, <2>1, FS_CardinalityType
<1>3. \A c \in S : key[c] \in Int /\ s[c].renderable \in BOOLEAN
  BY <1>1 DEF Settings
<1>. HIDE DEF key
<1>4. Orders(S, ByKeys(S, keys, key))
  BY <1>1, <1>3, KeysOrder
<1>5. Lists(names, S)
  BY <1>2, <1>4, ArrangedIs
<1>6. Manager!Packed(s, keys) = [i \in DOMAIN names |-> <<names[i], s[names[i]].renderable>>]
  <2>1. names = Manager!Arranged(S, Manager!ByKeys(S, keys, key))
    BY ManagersOwn
  <2>. QED  BY <1>1, <2>1 DEF Manager!Packed, key
<1>. HIDE DEF names, S
<1>7. DOMAIN names = 1 .. Cardinality(S) /\ \A i \in DOMAIN names : names[i] \in S
  BY <1>5 DEF Lists
<1>8. /\ DOMAIN Manager!Packed(s, keys) = 1 .. Cardinality(S)
      /\ \A i \in 1 .. Cardinality(S) : Manager!Packed(s, keys)[i][2] \in BOOLEAN
  BY <1>3, <1>6, <1>7
<1>. QED  BY <1>2, <1>8 DEF Packing

LEMMA UnpackedOK ==
    ASSUME NEW u, Packing(u)
    PROVE  DOMAIN Manager!Unpacked(u) = Manager!ToSet(Config) /\ Settings(Manager!Unpacked(u))
<1>. DEFINE C == Manager!ToSet(Config)
            s == Manager!Unpacked(u)
            at(c)    == {i \in DOMAIN u : u[i][1] = c}
            first(c) == CHOOSE j \in at(c) : TRUE
<1>1. PICK n \in 0 .. N + 2 : DOMAIN u = 1 .. n /\ \A i \in 1 .. n : u[i][2] \in BOOLEAN
  BY DEF Packing
<1>2. /\ DOMAIN s = C
      /\ \A c \in C : s[c] = IF at(c) = {} THEN [renderable |-> TRUE,
                                                 order |-> Manager!Position(Config, c)]
                             ELSE [renderable |-> u[first(c)][2], order |-> first(c) - 1]
  BY DEF Manager!Unpacked
<1>. HIDE DEF s
<1>3. N \in Nat /\ \A c \in C : Manager!Position(Config, c) \in 0 .. N + 1
  <2>1. \A c \in C : PlaceIn(Config, c) \in 1 .. N /\ N \in Nat
    BY ColumnsAre DEF Lists
  <2>. QED  BY <2>1, ColumnsAre, ManagersOwn
<1>4. ASSUME NEW c \in C PROVE s[c] \in [renderable : BOOLEAN, order : 0 .. N + 1]
  <2>1. CASE at(c) = {}
    <3>1. s[c] = [renderable |-> TRUE, order |-> Manager!Position(Config, c)]
      BY <1>2, <2>1
    <3>. QED  BY <1>3, <3>1
  <2>2. CASE at(c) # {}
    <3>1. first(c) \in at(c) /\ s[c] = [renderable |-> u[first(c)][2], order |-> first(c) - 1]
      BY <1>2, <2>2
    <3>. HIDE DEF first
    <3>2. u[first(c)][2] \in BOOLEAN /\ first(c) - 1 \in 0 .. N + 1
      BY <1>1, <1>3, <3>1
    <3>. QED  BY <3>1, <3>2
  <2>. QED  BY <2>1, <2>2
<1>. QED  BY <1>2, <1>4 DEF s, Settings

\* What a page starts with agrees.
LEMMA StartedOK ==
    ASSUME NEW u, Packing(u)
    PROVE  LET page == Manager!Started(u) IN
           /\ Lists(page.table, Cols)
           /\ page.table[1] = checkboxes /\ page.table[N + 2] = actions
           /\ page.order \in [Cols -> 0 .. N + 1]
           /\ page.order[checkboxes] = 0 /\ page.order[actions] = N + 1
           /\ page.managed = AsIn(Managed, page.table)
           /\ Settings(page.state)
           /\ \A c \in Managed : page.state[c]
                 = [renderable |-> c \in page.renderable, order |-> page.order[c]]
<1>. DEFINE C     == Manager!ToSet(Config)
            s     == Manager!Unpacked(u)
            key   == [c \in DOMAIN s |-> s[c].order]
            m     == Manager!Sorted(Config, key)
            t     == <<checkboxes>> \o m \o <<actions>>
            list  == AsIn(Managed, t)
            first == [c \in Cols |-> IF c \in Managed THEN Manager!Position(list, c)
                                     ELSE Manager!Position(t, c)]
            ord   == [c \in Cols |-> IF c \in Managed THEN Manager!OrderFrom(list, first, c, s)
                                     ELSE first[c]]
            shown == {c \in Managed : Manager!ShownBy(c, s)}
            page  == Manager!Started(u)
<1>1. page = [table |-> t, managed |-> Manager!Sorted(list, ord), order |-> ord, state |-> s,
              renderable |-> shown]
  <2>1. list = Manager!AsIn(Managed, t)
    BY ManagersOwn
  <2>. HIDE DEF list
  <2>. QED  BY <2>1 DEF Manager!Started, Cols
<1>2. page.table = t /\ page.managed = Manager!Sorted(list, ord) /\ page.order = ord
      /\ page.state = s /\ page.renderable = shown
  <2>. HIDE DEF page, t, list, ord, s, shown
  <2>. QED  BY <1>1
<1>3. /\ N \in Nat /\ IsFiniteSet(C) /\ Lists(Config, C) /\ Managed \in SUBSET C
      /\ IsFiniteSet(Cols) /\ Cols = C \cup {checkboxes, actions} /\ IsFiniteSet(Managed)
      /\ checkboxes \notin C /\ actions \notin C /\ Cardinality(Cols) = N + 2
  BY ColumnsAre
<1>4. DOMAIN s = C /\ Settings(s)
  BY UnpackedOK
<1>. HIDE DEF s
<1>5. /\ \A c \in C : key[c] = s[c].order /\ key[c] \in Int /\ key[c] \in 0 .. N + 1
      /\ \A c \in C : s[c] = [renderable |-> s[c].renderable, order |-> s[c].order]
                      /\ s[c].renderable \in BOOLEAN
  BY <1>3, <1>4 DEF Settings
<1>. HIDE DEF key
<1>6. /\ Lists(m, C)
      /\ \A c, d \in C : PlaceIn(m, c) < PlaceIn(m, d)
            <=> key[c] < key[d] \/ (key[c] = key[d] /\ PlaceIn(Config, c) < PlaceIn(Config, d))
      /\ \A c \in C : PlaceIn(m, c) \in Int
  <2>1. /\ Lists(m, C)
        /\ \A c, d \in C : PlaceIn(m, c) < PlaceIn(m, d)
            <=> key[c] < key[d] \/ (key[c] = key[d] /\ PlaceIn(Config, c) < PlaceIn(Config, d))
    BY <1>3, <1>5, SortedIs
  <2>. QED  BY <1>3, <2>1 DEF Lists
<1>. HIDE DEF m
<1>7. /\ Lists(t, Cols) /\ t[1] = checkboxes /\ t[N + 2] = actions
      /\ \A c \in C : PlaceIn(t, c) = PlaceIn(m, c) + 1
  BY <1>6, Framed
<1>. HIDE DEF t
<1>8. /\ Lists(list, Managed)
      /\ \A c, d \in Managed : PlaceIn(list, c) < PlaceIn(list, d)
                               <=> PlaceIn(t, c) < PlaceIn(t, d)
  <2>1. Managed \in SUBSET Cols
    BY <1>3
  <2>. QED  BY <1>3, <1>7, <2>1, AsInIs
<1>9. /\ \A c \in Managed : ord[c] = key[c]
      /\ ord \in [Cols -> 0 .. N + 1] /\ ord[checkboxes] = 0 /\ ord[actions] = N + 1
  <2>1. \A c \in Managed : ord[c] = key[c] /\ key[c] \in 0 .. N + 1
    BY <1>3, <1>4, <1>5 DEF Manager!OrderFrom
  <2>2. \A c \in Cols \ Managed : ord[c] = PlaceIn(t, c) - 1
    BY ManagersOwn
  <2>7. ord = [c \in Cols |-> ord[c]]
    OBVIOUS
  <2>. HIDE DEF ord
  <2>3. /\ \A c \in Cols : PlaceIn(t, c) \in 1 .. N + 2
        /\ PlaceIn(t, checkboxes) = 1 /\ PlaceIn(t, actions) = N + 2
    <3>1. 1 \in 1 .. N + 2 /\ N + 2 \in 1 .. N + 2
      BY <1>3
    <3>. QED  BY <1>3, <1>7, <3>1 DEF Lists
  <2>4. \A c \in Cols : ord[c] \in 0 .. N + 1
    BY <1>3, <2>1, <2>2, <2>3
  <2>5. checkboxes \in Cols \ Managed /\ actions \in Cols \ Managed
    BY <1>3
  <2>6. ord[checkboxes] = 1 - 1 /\ ord[actions] = N + 2 - 1
    BY <1>3, <2>2, <2>3, <2>5
  <2>8. ord \in [Cols -> 0 .. N + 1]
    BY <2>4, <2>7
  <2>. QED  BY <1>3, <2>1, <2>6, <2>8
<1>. HIDE DEF ord, list
<1>10. Manager!Sorted(list, ord) = AsIn(Managed, t)
  <2>1. \A c \in Managed : ord[c] \in Int
    BY <1>3, <1>5, <1>9
  <2>2. Manager!Sorted(list, ord) = Arranged(Managed, ByKeys(Managed, list, ord))
    BY <1>3, <1>8, <2>1, SortedIs
  <2>3. Places(Managed, list) /\ Places(Managed, t)
    BY <1>3, <1>7, <1>8, ListsPlaces
  <2>4. \A c, d \in Managed : <<c, d>> \in ByKeys(Managed, list, ord)
           <=> ord[c] < ord[d] \/ (ord[c] = ord[d] /\ PlaceIn(list, c) < PlaceIn(list, d))
    BY <2>1, <2>3, KeysOrder
  <2>5. \A c, d \in Managed : <<c, d>> \in InPlace(Managed, t) <=> PlaceIn(t, c) < PlaceIn(t, d)
    BY <2>3, InPlaceOrder
  <2>6. \A c, d \in Managed : <<c, d>> \in ByKeys(Managed, list, ord)
                              <=> <<c, d>> \in InPlace(Managed, t)
    <3>1. SUFFICES ASSUME NEW c \in Managed, NEW d \in Managed
                   PROVE  <<c, d>> \in ByKeys(Managed, list, ord)
                          <=> <<c, d>> \in InPlace(Managed, t)
      OBVIOUS
    <3>2. c \in C /\ d \in C /\ key[c] \in Int /\ key[d] \in Int
          /\ PlaceIn(m, c) \in Int /\ PlaceIn(m, d) \in Int
      BY <1>3, <1>5, <1>6
    <3>3. PlaceIn(t, c) < PlaceIn(t, d) <=> PlaceIn(m, c) < PlaceIn(m, d)
      BY <1>7, <3>2
    <3>4. PlaceIn(t, c) < PlaceIn(t, d)
             <=> key[c] < key[d] \/ (key[c] = key[d] /\ PlaceIn(Config, c) < PlaceIn(Config, d))
      BY <1>6, <3>2, <3>3
    <3>5. <<c, d>> \in ByKeys(Managed, list, ord)
             <=> key[c] < key[d] \/ (key[c] = key[d] /\ PlaceIn(t, c) < PlaceIn(t, d))
      BY <1>8, <1>9, <2>4
    <3>. QED  BY <2>5, <3>2, <3>4, <3>5
  <2>7. Arranged(Managed, ByKeys(Managed, list, ord)) = Arranged(Managed, InPlace(Managed, t))
    BY <2>6, SameArranged
  <2>. QED  BY <2>2, <2>7, ManagersOwn
<1>11. \A c \in Managed : s[c] = [renderable |-> c \in shown, order |-> ord[c]]
  <2>1. SUFFICES ASSUME NEW c \in Managed
                 PROVE  s[c] = [renderable |-> c \in shown, order |-> ord[c]]
    OBVIOUS
  <2>2. c \in C /\ ord[c] = s[c].order /\ s[c].renderable \in BOOLEAN
        /\ s[c] = [renderable |-> s[c].renderable, order |-> s[c].order]
    BY <1>3, <1>5, <1>9
  <2>3. s[c].renderable = (c \in shown)
    BY <1>4, <2>2 DEF Manager!ShownBy
  <2>. QED  BY <2>2, <2>3
<1>. HIDE DEF shown, page
<1>. QED  BY <1>2, <1>4, <1>7, <1>9, <1>10, <1>11 DEF page

LEMMA Inserted ==
    ASSUME NEW S, IsFiniteSet(S), NEW r, Lists(r, S), NEW c, c \notin S,
           NEW i \in 1 .. Cardinality(S) + 1
    PROVE  Lists(Manager!InsertAt(r, i, c), S \cup {c})
<1>. DEFINE n      == Cardinality(S)
            T      == S \cup {c}
            g      == Manager!InsertAt(r, i, c)
<1>1. n \in Nat /\ r \in [1 .. n -> S] /\ i \in 1 .. n + 1
  BY FS_CardinalityType DEF Lists
<1>2. /\ \A e \in S : PlaceIn(r, e) \in 1 .. n /\ r[PlaceIn(r, e)] = e
      /\ \A j \in 1 .. n : PlaceIn(r, r[j]) = j
  BY <1>1 DEF Lists
<1>. HIDE DEF n
<1>3. r \in Seq(T) /\ Len(r) = n /\ \A j \in 1 .. n : r[j] \in T
  BY <1>1
<1>6. c \in T /\ S \subseteq T /\ T = S \cup {c}
  OBVIOUS
<1>7. With(g, r, i, c)
  BY <1>1, <1>3, <1>6, InsertIs DEF Manager!InsertAt
<1>. HIDE DEF g, T
<1>8. g = [j \in 1 .. n + 1 |-> IF j < i THEN r[j] ELSE IF j = i THEN c ELSE r[j - 1]]
  BY <1>3, <1>7 DEF With
<1>9. /\ DOMAIN g = 1 .. n + 1
      /\ \A j \in 1 .. n + 1 : g[j] = IF j < i THEN r[j] ELSE IF j = i THEN c ELSE r[j - 1]
  BY <1>8
<1>10. /\ \A j \in 1 .. i - 1 : g[j] = r[j]
       /\ g[i] = c
       /\ \A j \in i + 1 .. n + 1 : g[j] = r[j - 1]
  BY <1>1, <1>9
<1>11. \A j \in 1 .. n + 1 :
          \/ j < i /\ g[j] \in S /\ PlaceIn(r, g[j]) = j
          \/ j = i /\ g[j] = c
          \/ j > i /\ g[j] \in S /\ PlaceIn(r, g[j]) = j - 1
  <2>1. SUFFICES ASSUME NEW j \in 1 .. n + 1
                 PROVE  \/ j < i /\ g[j] \in S /\ PlaceIn(r, g[j]) = j
                        \/ j = i /\ g[j] = c
                        \/ j > i /\ g[j] \in S /\ PlaceIn(r, g[j]) = j - 1
    OBVIOUS
  <2>2. CASE j < i
    <3>1. j \in 1 .. n /\ g[j] = r[j]
      BY <1>1, <1>10, <2>2
    <3>. QED  BY <1>1, <1>2, <2>2, <3>1
  <2>3. CASE j = i
    BY <1>10, <2>3
  <2>4. CASE j > i
    <3>1. j - 1 \in 1 .. n /\ g[j] = r[j - 1]
      BY <1>1, <1>10, <2>4
    <3>. QED  BY <1>1, <1>2, <2>4, <3>1
  <2>. QED  BY <1>1, <2>2, <2>3, <2>4
<1>12. \A j, k \in 1 .. n + 1 : g[j] = g[k] => j = k
  <2>1. SUFFICES ASSUME NEW j \in 1 .. n + 1, NEW k \in 1 .. n + 1, g[j] = g[k] PROVE j = k
    OBVIOUS
  <2>2. /\ \/ j < i /\ g[j] \in S /\ PlaceIn(r, g[j]) = j
           \/ j = i /\ g[j] = c
           \/ j > i /\ g[j] \in S /\ PlaceIn(r, g[j]) = j - 1
        /\ \/ k < i /\ g[k] \in S /\ PlaceIn(r, g[k]) = k
           \/ k = i /\ g[k] = c
           \/ k > i /\ g[k] \in S /\ PlaceIn(r, g[k]) = k - 1
        /\ i \in Int /\ j \in Int /\ k \in Int
    BY <1>1, <1>11
  <2>3. CASE g[j] = c
    BY <2>1, <2>2, <2>3
  <2>4. CASE g[j] # c
    BY <2>1, <2>2, <2>4
  <2>. QED  BY <2>3, <2>4
<1>13. \A e \in T : \E j \in 1 .. n + 1 : g[j] = e
  <2>1. SUFFICES ASSUME NEW e \in T PROVE \E j \in 1 .. n + 1 : g[j] = e
    OBVIOUS
  <2>2. CASE e = c
    BY <1>1, <1>10, <2>2
  <2>3. CASE e # c
    <3>1. PICK k \in 1 .. n : r[k] = e
      BY <1>2, <1>6, <2>1, <2>3
    <3>2. CASE k < i
      BY <1>1, <1>10, <3>1, <3>2
    <3>3. CASE ~(k < i)
      <4>1. k + 1 \in i + 1 .. n + 1 /\ k + 1 \in 1 .. n + 1 /\ (k + 1) - 1 = k
        BY <1>1, <3>1, <3>3
      <4>2. g[k + 1] = r[(k + 1) - 1]
        BY <1>10, <4>1
      <4>. QED  BY <3>1, <4>1, <4>2
    <3>. QED  BY <3>2, <3>3
  <2>. QED  BY <2>2, <2>3
<1>14. n + 1 \in Nat /\ g \in [1 .. n + 1 -> T]
  <2>1. \A j \in 1 .. n + 1 : g[j] \in T
    BY <1>1, <1>6, <1>11
  <2>2. g = [j \in 1 .. n + 1 |-> g[j]]
    BY <1>8
  <2>. QED  BY <1>1, <2>1, <2>2
<1>. QED  BY <1>12, <1>13, <1>14, InjectiveLists DEF g, T

LEMMA Swapped ==
    ASSUME NEW S, IsFiniteSet(S), NEW s, Lists(s, S),
           NEW i \in 1 .. Cardinality(S), NEW j \in 1 .. Cardinality(S)
    PROVE  Lists([s EXCEPT ![i] = s[j], ![j] = s[i]], S)
<1>. DEFINE n == Cardinality(S)
            g == [s EXCEPT ![i] = s[j], ![j] = s[i]]
<1>1. n \in Nat /\ s \in [1 .. n -> S]
  BY FS_CardinalityType DEF Lists
<1>2. /\ \A e \in S : PlaceIn(s, e) \in 1 .. n /\ s[PlaceIn(s, e)] = e
      /\ \A k \in 1 .. n : PlaceIn(s, s[k]) = k
  BY <1>1 DEF Lists
<1>. HIDE DEF n
<1>3. /\ i \in 1 .. n /\ j \in 1 .. n /\ g \in [1 .. n -> S]
      /\ g[j] = s[i] /\ g[i] = s[j]
      /\ \A k \in 1 .. n : k # i /\ k # j => g[k] = s[k]
  BY <1>1 DEF n
<1>. HIDE DEF g
<1>4. \A k, l \in 1 .. n : g[k] = g[l] => k = l
  <2>1. \A k \in 1 .. n : PlaceIn(s, g[k]) = IF k = i THEN j ELSE IF k = j THEN i ELSE k
    BY <1>2, <1>3
  <2>. QED  BY <1>3, <2>1
<1>5. \A e \in S : \E k \in 1 .. n : g[k] = e
  <2>1. SUFFICES ASSUME NEW e \in S PROVE \E k \in 1 .. n : g[k] = e
    OBVIOUS
  <2>2. PICK k \in 1 .. n : s[k] = e
    BY <1>2
  <2>. QED  BY <1>3, <2>2
<1>6. Lists(g, S)
  BY <1>1, <1>3, <1>4, <1>5, InjectiveLists
<1>. QED  BY <1>6 DEF g

\* The table and the managed columns are sorted by the same attributes.
LEMMA SortedTogether ==
    ASSUME TableOK, managed = AsIn(Managed, table),
           NEW ord \in [Cols -> 0 .. N + 1], ord[checkboxes] = 0, ord[actions] = N + 1
    PROVE  LET t == Manager!Sorted(table, ord) IN
           /\ Lists(t, Cols) /\ t[1] = checkboxes /\ t[N + 2] = actions
           /\ Manager!Sorted(managed, ord) = AsIn(Managed, t)
<1>1. /\ N \in Nat /\ IsFiniteSet(Cols) /\ Cardinality(Cols) = N + 2
      /\ checkboxes \in Cols /\ actions \in Cols /\ Managed \in SUBSET Cols
  BY ColumnsAre
<1>2. \A e \in Cols : ord[e] \in Int /\ ord[checkboxes] <= ord[e] /\ ord[e] <= ord[actions]
  BY <1>1
<1>3. Lists(table, Cols) /\ table[1] = checkboxes /\ table[N + 2] = actions
  BY DEF TableOK
<1>4. Lists(Manager!Sorted(table, ord), Cols)
  BY <1>1, <1>2, <1>3, SortedIs
<1>5. /\ Manager!Sorted(table, ord)[1] = checkboxes
      /\ Manager!Sorted(table, ord)[Cardinality(Cols)] = actions
  BY <1>1, <1>2, <1>3, EndsStay
<1>6. Manager!Sorted(AsIn(Managed, table), ord) = AsIn(Managed, Manager!Sorted(table, ord))
  BY <1>1, <1>2, <1>3, Resorted
<1>. QED  BY <1>1, <1>4, <1>5, <1>6

LEMMA PushStep ==
    ASSUME TableOK', (managed = AsIn(Managed, table))', Manager!Push
    PROVE  StateOK' /\ Packing(packed)'
<1>1. /\ columns' = [c \in Managed |-> [renderable |-> c \in renderable',
                                        order |-> columnOrder'[c]]]
      /\ packed' = Manager!Packed(columns', managed')
  BY DEF Manager!Push, Manager!Created
<1>2. N \in Nat /\ IsFiniteSet(Managed) /\ Managed \in SUBSET Cols /\ IsFiniteSet(Cols)
      /\ Cardinality(Managed) \in 0 .. N
  BY ColumnsAre
<1>3. columnOrder' \in [Cols -> 0 .. N + 1] /\ Lists(table', Cols)
  BY DEF TableOK
<1>4. StateOK' /\ Settings(columns')
  <2>1. \A c \in Managed : columnOrder'[c] \in 0 .. N + 1
    BY <1>2, <1>3
  <2>2. DOMAIN columns' = Managed
    BY <1>1
  <2>3. \A c \in Managed : columns'[c] = [renderable |-> c \in renderable', order |-> columnOrder'[c]]
    BY <1>1
  <2>4. ASSUME NEW c \in Managed
        PROVE  columns'[c] \in [renderable : BOOLEAN, order : 0 .. N + 1]
    <3>. DEFINE is == c \in renderable'
    <3>1. is \in BOOLEAN /\ columns'[c] = [renderable |-> is, order |-> columnOrder'[c]]
      BY <2>3
    <3>. HIDE DEF is
    <3>. QED  BY <2>1, <3>1
  <2>5. Settings(columns')
    BY <2>2, <2>4 DEF Settings
  <2>. QED  BY <2>2, <2>3, <2>5 DEF StateOK
<1>5. Lists(managed', Managed)
  BY <1>2, <1>3, AsInIs
<1>6. Cardinality(Managed) <= N + 2
  BY <1>2
<1>7. Packing(Manager!Packed(columns', managed'))
  BY <1>2, <1>4, <1>5, <1>6, PackedOK
<1>. QED  BY <1>1, <1>4, <1>7

LEMMA ReorderStep ==
    ASSUME ManagerInv, NEW list, Lists(list, Managed), Manager!Reorder(list)
    PROVE  ManagerInv'
<1>. DEFINE ord == [c \in DOMAIN columnOrder |-> IF c \in Managed THEN Manager!Position(list, c)
                                                ELSE columnOrder[c]]
<1>1. /\ columnOrder' = ord /\ managed' = Manager!Sorted(managed, ord)
      /\ table' = Manager!Sorted(table, ord)
      /\ renderable' = renderable /\ disabled' = disabled /\ Manager!Push
  BY DEF Manager!Reorder
<1>2. TableOK /\ managed = AsIn(Managed, table) /\ disabled = Manager!Disabled(renderable)
  BY DEF ManagerInv
<1>3. N \in Nat /\ Cardinality(Managed) \in 0 .. N /\ checkboxes \in Cols /\ actions \in Cols
      /\ checkboxes \notin Managed /\ actions \notin Managed
  BY ColumnsAre
<1>4. ord \in [Cols -> 0 .. N + 1] /\ ord[checkboxes] = 0 /\ ord[actions] = N + 1
  <2>1. \A c \in Managed : Manager!Position(list, c) \in 0 .. N + 1
    BY <1>3, ManagersOwn DEF Lists
  <2>. QED  BY <1>2, <1>3, <2>1 DEF TableOK
<1>. HIDE DEF ord
<1>5. /\ Lists(table', Cols) /\ table'[1] = checkboxes /\ table'[N + 2] = actions
      /\ managed' = AsIn(Managed, table')
  BY <1>1, <1>2, <1>4, SortedTogether
<1>6. TableOK' /\ (managed = AsIn(Managed, table))'
  BY <1>1, <1>4, <1>5 DEF TableOK
<1>7. StateOK' /\ Packing(packed)'
  BY <1>1, <1>6, PushStep
<1>8. disabled' = Manager!Disabled(renderable')
  BY <1>1, <1>2
<1>. QED  BY <1>6, <1>7, <1>8 DEF ManagerInv

LEMMA DragStep ==
    ASSUME ManagerInv, NEW c \in Managed, NEW i \in DOMAIN managed, Manager!Drag(c, i)
    PROVE  ManagerInv'
<1>. DEFINE rest == AsIn(Managed \ {c}, managed)
<1>1. IsFiniteSet(Managed) /\ IsFiniteSet(Cols) /\ Managed \in SUBSET Cols
  BY ColumnsAre
<1>2. Lists(managed, Managed)
  BY <1>1, AsInIs DEF ManagerInv, TableOK
<1>3. Managed \ {c} \in SUBSET Managed /\ IsFiniteSet(Managed \ {c})
      /\ Cardinality(Managed \ {c}) = Cardinality(Managed) - 1 /\ Cardinality(Managed) \in Nat
  BY <1>1, FS_RemoveElement, FS_CardinalityType
<1>4. Lists(rest, Managed \ {c})
  BY <1>1, <1>2, <1>3, AsInIs
<1>5. i \in 1 .. Cardinality(Managed \ {c}) + 1
  BY <1>2, <1>3 DEF Lists
<1>. HIDE DEF rest
<1>6. Lists(Manager!InsertAt(rest, i, c), (Managed \ {c}) \cup {c})
  BY <1>3, <1>4, <1>5, Inserted
<1>7. (Managed \ {c}) \cup {c} = Managed
  OBVIOUS
<1>8. Manager!Reorder(Manager!InsertAt(rest, i, c))
  BY ManagersOwn DEF Manager!Drag, rest
<1>. QED  BY <1>6, <1>7, <1>8, ReorderStep

LEMMA SwapStep ==
    ASSUME ManagerInv, NEW c \in Managed, NEW up \in BOOLEAN, Manager!Swap(c, up)
    PROVE  ManagerInv'
<1>. DEFINE i == Manager!Position(managed, c) + 1
            j == IF up THEN i - 1 ELSE i + 1
<1>1. IsFiniteSet(Managed) /\ IsFiniteSet(Cols) /\ Managed \in SUBSET Cols
      /\ Cardinality(Managed) \in Nat
  BY ColumnsAre, FS_CardinalityType
<1>2. Lists(managed, Managed)
  BY <1>1, AsInIs DEF ManagerInv, TableOK
<1>3. i \in 1 .. Cardinality(Managed)
  <2>1. PlaceIn(managed, c) \in 1 .. Cardinality(Managed)
    BY <1>2 DEF Lists
  <2>2. i = PlaceIn(managed, c) - 1 + 1
    BY ManagersOwn
  <2>. QED  BY <1>1, <2>1, <2>2
<1>4. j \in DOMAIN managed /\ Manager!Reorder([managed EXCEPT ![i] = managed[j], ![j] = managed[i]])
  BY DEF Manager!Swap
<1>. HIDE DEF i, j
<1>5. j \in 1 .. Cardinality(Managed)
  BY <1>2, <1>4 DEF Lists
<1>6. Lists([managed EXCEPT ![i] = managed[j], ![j] = managed[i]], Managed)
  BY <1>1, <1>2, <1>3, <1>5, Swapped
<1>. QED  BY <1>4, <1>6, ReorderStep

LEMMA ApplyStep ==
    ASSUME ManagerInv, NEW s \in ColumnViews, Manager!Apply(s)
    PROVE  ManagerInv'
<1>. DEFINE same == s = Manager!Created(columnOrder, renderable)
            ord  == [c \in DOMAIN columnOrder |->
                        IF c \in Managed THEN Manager!OrderFrom(managed, columnOrder, c, s)
                        ELSE columnOrder[c]]
<1>1. /\ columns' = s /\ packed' = Manager!Packed(s, Manager!AllColumns)
      /\ columnOrder' = IF same THEN columnOrder ELSE ord
      /\ IF same THEN UNCHANGED <<renderable, disabled>>
         ELSE /\ renderable' = {c \in Managed : Manager!ShownBy(c, s)}
              /\ disabled' = Manager!Disabled(renderable')
      /\ IF same THEN UNCHANGED <<managed, table>>
         ELSE /\ managed' = Manager!Sorted(managed, ord)
              /\ table' = Manager!Sorted(table, ord)
  BY DEF Manager!Apply, Manager!SortAll, Manager!ShowOnly
<1>2. TableOK /\ managed = AsIn(Managed, table) /\ disabled = Manager!Disabled(renderable)
  BY DEF ManagerInv
<1>3. N \in Nat /\ Cardinality(Managed) \in 0 .. N /\ checkboxes \in Cols /\ actions \in Cols
      /\ checkboxes \notin Managed /\ actions \notin Managed /\ Managed \in SUBSET Cols
      /\ IsFiniteSet(Cols) /\ Lists(Manager!AllColumns, Cols) /\ Cardinality(Cols) = N + 2
  BY ColumnsAre
<1>4. \A c \in DOMAIN s : s[c] \in [renderable : BOOLEAN, order : 0 .. N]
  BY LayoutAssumption DEF LayoutAssumption, Manager!ColumnManagerAssumption, N
<1>5. Settings(s) /\ \A c \in DOMAIN s : s[c].order \in 0 .. N + 1
  BY <1>3, <1>4 DEF Settings
<1>6. Packing(packed')
  <2>1. Cardinality(Cols) <= N + 2
    BY <1>3
  <2>. QED  BY <1>1, <1>3, <1>5, <2>1, PackedOK
<1>7. CASE same
  <2>1. \A c \in Managed \cap DOMAIN s :
           s[c] = [renderable |-> c \in renderable, order |-> columnOrder[c]]
    BY <1>7 DEF Manager!Created
  <2>2. StateOK'
    BY <1>1, <1>5, <1>7, <2>1 DEF StateOK
  <2>3. TableOK' /\ managed' = AsIn(Managed, table') /\ disabled' = Manager!Disabled(renderable')
    BY <1>1, <1>2, <1>7 DEF TableOK
  <2>. QED  BY <1>6, <2>2, <2>3 DEF ManagerInv
<1>8. CASE ~same
  <2>1. /\ columnOrder' = ord /\ managed' = Manager!Sorted(managed, ord)
        /\ table' = Manager!Sorted(table, ord)
        /\ renderable' = {c \in Managed : Manager!ShownBy(c, s)}
        /\ disabled' = Manager!Disabled(renderable')
    BY <1>1, <1>8
  <2>2. \A c \in Managed : Manager!OrderFrom(managed, columnOrder, c, s) \in 0 .. N + 1
    <3>1. Lists(managed, Managed)
      BY <1>2, <1>3, AsInIs DEF TableOK
    <3>2. \A c \in Managed : PlaceIn(managed, c) \in 1 .. Cardinality(Managed)
      BY <3>1 DEF Lists
    <3>3. \A c : Manager!Position(managed, c) = PlaceIn(managed, c) - 1
      BY ManagersOwn
    <3>4. \A c \in Managed : Manager!Position(managed, c) \in 0 .. N + 1
      BY <1>3, <3>2, <3>3
    <3>. QED  BY <1>5, <3>4 DEF Manager!OrderFrom
  <2>3. ord \in [Cols -> 0 .. N + 1] /\ ord[checkboxes] = 0 /\ ord[actions] = N + 1
    BY <1>2, <1>3, <2>2 DEF TableOK
  <2>4. \A c \in Managed : ord[c] = Manager!OrderFrom(managed, columnOrder, c, s)
    BY <1>2, <1>3 DEF TableOK
  <2>. HIDE DEF ord
  <2>5. TableOK' /\ managed' = AsIn(Managed, table')
    BY <1>2, <2>1, <2>3, SortedTogether DEF TableOK
  <2>6. ASSUME NEW c \in Managed \cap DOMAIN s
        PROVE  s[c] = [renderable |-> c \in renderable', order |-> columnOrder'[c]]
    <3>1. ord[c] = s[c].order
      BY <2>4 DEF Manager!OrderFrom
    <3>2. (c \in renderable') = s[c].renderable
      <4>1. c \in renderable' <=> s[c].renderable
        BY <2>1 DEF Manager!ShownBy
      <4>2. s[c].renderable \in BOOLEAN
        BY <1>4
      <4>. QED  BY <4>1, <4>2
    <3>3. s[c] = [renderable |-> s[c].renderable, order |-> s[c].order]
      BY <1>4
    <3>. QED  BY <2>1, <3>1, <3>2, <3>3
  <2>7. StateOK'
    BY <1>1, <1>5, <2>6 DEF StateOK
  <2>. QED  BY <1>6, <2>1, <2>5, <2>7 DEF ManagerInv
<1>. QED  BY <1>7, <1>8

LEMMA PageStep ==
    ASSUME NEW u, Packing(u), packed' = u,
           table' = Manager!Started(u).table, managed' = Manager!Started(u).managed,
           columnOrder' = Manager!Started(u).order, columns' = Manager!Started(u).state,
           renderable' = Manager!Started(u).renderable,
           disabled' = Manager!Disabled(renderable')
    PROVE  ManagerInv'
<1>1. TableOK' /\ managed' = AsIn(Managed, table')
  BY StartedOK DEF TableOK
<1>2. StateOK'
  BY StartedOK DEF StateOK
<1>. QED  BY <1>1, <1>2 DEF ManagerInv

LEMMA InitManagerInv == Manager!Init => ManagerInv
<1>1. Packing(<<>>)
  BY ColumnsAre DEF Packing
<1>2. SUFFICES ASSUME Manager!Init PROVE ManagerInv
  OBVIOUS
<1>3. /\ packed = <<>>
      /\ table = Manager!Started(<<>>).table /\ managed = Manager!Started(<<>>).managed
      /\ columnOrder = Manager!Started(<<>>).order /\ columns = Manager!Started(<<>>).state
      /\ renderable = Manager!Started(<<>>).renderable
      /\ disabled = Manager!Disabled(renderable)
  BY <1>2 DEF Manager!Init
<1>4. TableOK /\ managed = AsIn(Managed, table)
  BY <1>1, <1>3, StartedOK DEF TableOK
<1>5. StateOK
  BY <1>1, <1>3, StartedOK DEF StateOK
<1>. QED  BY <1>1, <1>3, <1>4, <1>5 DEF ManagerInv

LEMMA NextManagerInv == ManagerInv /\ [Manager!Next]_(Manager!vars) => ManagerInv'
<1>. SUFFICES ASSUME ManagerInv, [Manager!Next]_(Manager!vars) PROVE ManagerInv'
  OBVIOUS
<1>1. CASE Manager!Reload
  <2>1. Packing(packed)
    BY DEF ManagerInv
  <2>2. /\ packed' = packed
        /\ table' = Manager!Started(packed).table /\ managed' = Manager!Started(packed).managed
        /\ columnOrder' = Manager!Started(packed).order
        /\ columns' = Manager!Started(packed).state
        /\ renderable' = Manager!Started(packed).renderable
        /\ disabled' = Manager!Disabled(renderable')
    BY <1>1 DEF Manager!Reload, Manager!ShowOnly
  <2>. QED  BY <2>1, <2>2, PageStep
<1>2. ASSUME UNCHANGED <<table, managed, columnOrder>>, NEW shown,
             Manager!ShowOnly(shown), Manager!Push
      PROVE  ManagerInv'
  <2>1. TableOK' /\ (managed = AsIn(Managed, table))'
    BY <1>2 DEF ManagerInv, TableOK
  <2>2. StateOK' /\ Packing(packed)'
    BY <1>2, <2>1, PushStep
  <2>3. disabled' = Manager!Disabled(renderable')
    BY <1>2 DEF Manager!ShowOnly
  <2>. QED  BY <2>1, <2>2, <2>3 DEF ManagerInv
<1>3. ASSUME NEW c \in Managed, Manager!Toggle(c) PROVE ManagerInv'
  BY <1>2, <1>3 DEF Manager!Toggle
<1>4. CASE Manager!SelectAll
  BY <1>2, <1>4 DEF Manager!SelectAll
<1>5. ASSUME UNCHANGED <<table, managed, columnOrder, renderable, disabled, columns, packed>>
      PROVE  ManagerInv'
  BY <1>5 DEF ManagerInv, TableOK, StateOK
<1>6. ASSUME NEW matches \in Searches, Manager!Search(matches) PROVE ManagerInv'
  BY <1>5, <1>6 DEF Manager!Search
<1>7. ASSUME NEW only \in BOOLEAN, Manager!ShowSelected(only) PROVE ManagerInv'
  BY <1>5, <1>7 DEF Manager!ShowSelected
<1>8. CASE UNCHANGED Manager!vars
  BY <1>5, <1>8 DEF Manager!vars
<1>. QED
  BY <1>1, <1>3, <1>4, <1>6, <1>7, <1>8, DragStep, SwapStep, ApplyStep DEF Manager!Next

\* The table, the column manager and the state of the grid agree on the columns,
\* and none can be hidden that is required or the last one, for any columns, views
\* and URL.
THEOREM ColumnsCorrect == Manager!Spec => []CopiesAgree
<1>1. ManagerInv => CopiesAgree
  <2>. SUFFICES ASSUME ManagerInv PROVE CopiesAgree
    OBVIOUS
  <2>1. N \in Nat /\ Cardinality(Cols) = N + 2
    BY ColumnsAre
  <2>2. table \in [1 .. N + 2 -> Cols]
    BY <2>1 DEF ManagerInv, TableOK, Lists
  <2>3. table \in Seq(Cols) /\ Len(table) = N + 2 /\ Head(table) = table[1]
    BY <2>1, <2>2
  <2>4. Head(table) = checkboxes /\ table[Len(table)] = actions
    BY <2>3 DEF ManagerInv, TableOK
  <2>5. Manager!AsIn(Managed, table) = managed
    BY ManagersOwn DEF ManagerInv
  <2>. QED  BY <2>4, <2>5 DEF ManagerInv, StateOK, CopiesAgree, Manager!CopiesAgree
<1>. QED  BY <1>1, InitManagerInv, NextManagerInv, PTL DEF Manager!Spec

-----------------------------------------------------------------------------
(***************************************************************************)
(* Where the cards are in the board's order.  A card may be in it a second *)
(* time, so that an order is followed by the first place of each card;     *)
(* whatever is put in or taken out, the other cards stay as they were to   *)
(* each other.                                                             *)
(***************************************************************************)

LEMMA HasLeast ==
    ASSUME NEW n \in Nat, NEW S \in SUBSET (1 .. n), S # {}
    PROVE  \E i \in S : \A j \in S : i <= j
<1>. DEFINE Up(i) == {j \in S : j <= i}
            T     == {Up(i) : i \in S}
<1>1. \A X \in SUBSET S : IsFiniteSet(X)
  <2>1. IsFiniteSet(1 .. n)
    BY FS_Interval
  <2>. QED  BY <2>1, FS_Subset
<1>2. IsWellFoundedOn(StrictSubsetOrdering(S), SUBSET S)
  <2>1. FiniteSubsetsOf(S) = SUBSET S
    BY <1>1 DEF FiniteSubsetsOf
  <2>. QED  BY <2>1, FS_StrictSubsetOrderingWellFounded
<1>3. T \subseteq SUBSET S /\ T # {}
  OBVIOUS
<1>4. PICK X \in T : \A Y \in T : ~ (<<Y, X>> \in StrictSubsetOrdering(S))
  BY <1>2, <1>3, WFMin
<1>5. PICK i \in S : X = Up(i)
  OBVIOUS
<1>6. ASSUME NEW j \in S PROVE i <= j
  <2>1. SUFFICES ASSUME j < i PROVE FALSE
    OBVIOUS
  <2>2. Up(j) \subseteq X
    <3>1. \A k \in S : k <= j => k <= i
      BY <2>1
    <3>. QED  BY <3>1, <1>5
  <2>3. i \in X /\ i \notin Up(j)
    BY <2>1, <1>5
  <2>4. <<Up(j), X>> \in StrictSubsetOrdering(S)
    BY <2>2, <2>3, <1>3 DEF StrictSubsetOrdering
  <2>. QED  BY <2>4, <1>4
<1>. QED  BY <1>6

\* An element of a sequence has a first place.
LEMMA FirstPlace ==
    ASSUME NEW n \in Nat, NEW s, DOMAIN s = 1 .. n, NEW e, \E i \in 1 .. n : s[i] = e
    PROVE  /\ PlaceIn(s, e) \in 1 .. n /\ s[PlaceIn(s, e)] = e
           /\ \A j \in 1 .. n : s[j] = e => PlaceIn(s, e) <= j
<1>1. PICK i \in {k \in 1 .. n : s[k] = e} : \A j \in {k \in 1 .. n : s[k] = e} : i <= j
  <2>1. {k \in 1 .. n : s[k] = e} \in SUBSET (1 .. n) /\ {k \in 1 .. n : s[k] = e} # {}
    OBVIOUS
  <2>. QED  BY <2>1, HasLeast
<1>2. i \in DOMAIN s /\ s[i] = e /\ \A j \in DOMAIN s : s[j] = e => i <= j
  BY <1>1
<1>3. PlaceIn(s, e) \in DOMAIN s /\ s[PlaceIn(s, e)] = e
      /\ \A j \in DOMAIN s : s[j] = e => PlaceIn(s, e) <= j
  BY <1>2 DEF PlaceIn
<1>. QED  BY <1>3

LEMMA PlaceIs ==
    ASSUME NEW n \in Nat, NEW s, DOMAIN s = 1 .. n, NEW i \in 1 .. n,
           \A j \in 1 .. n : s[j] = s[i] => i <= j
    PROVE  PlaceIn(s, s[i]) = i
<1>1. PlaceIn(s, s[i]) \in 1 .. n /\ s[PlaceIn(s, s[i])] = s[i]
      /\ \A j \in 1 .. n : s[j] = s[i] => PlaceIn(s, s[i]) <= j
  BY FirstPlace
<1>2. i <= PlaceIn(s, s[i]) /\ PlaceIn(s, s[i]) <= i
  BY <1>1
<1>. QED  BY <1>1, <1>2

\* s is a sequence of all of S.
Has(s, S) == s \in Seq(S) /\ \A e \in S : \E i \in 1 .. Len(s) : s[i] = e

LEMMA HasPlaces ==
    ASSUME NEW S, NEW s, Has(s, S), NEW e \in S
    PROVE  /\ PlaceIn(s, e) \in 1 .. Len(s) /\ s[PlaceIn(s, e)] = e
           /\ \A j \in 1 .. Len(s) : s[j] = e => PlaceIn(s, e) <= j
<1>1. Len(s) \in Nat /\ DOMAIN s = 1 .. Len(s) /\ \E i \in 1 .. Len(s) : s[i] = e
  BY DEF Has
<1>. QED  BY <1>1, FirstPlace

LEMMA WithPlaces ==
    ASSUME NEW S, NEW s \in Seq(S), NEW i \in 1 .. Len(s) + 1, NEW c \in S, NEW t,
           With(t, s, i, c)
    PROVE  /\ t \in Seq(S) /\ Len(t) = Len(s) + 1
           /\ \A d \in S : (d # c /\ \E k \in 1 .. Len(s) : s[k] = d) =>
                 PlaceIn(t, d) = IF PlaceIn(s, d) < i THEN PlaceIn(s, d) ELSE PlaceIn(s, d) + 1
           /\ PlaceIn(t, c) <= i /\ PlaceIn(t, c) \in 1 .. Len(t) /\ t[PlaceIn(t, c)] = c
<1>. DEFINE n == Len(s)
<1>1. n \in Nat /\ DOMAIN s = 1 .. n /\ \A j \in 1 .. n : s[j] \in S
  OBVIOUS
<1>2. /\ DOMAIN t = 1 .. n + 1
      /\ \A j \in 1 .. n + 1 : t[j] = IF j < i THEN s[j] ELSE IF j = i THEN c ELSE s[j - 1]
  BY DEF With
<1>. HIDE DEF n
<1>3. i \in 1 .. n + 1 /\ n + 1 \in Nat
  BY <1>1 DEF n
<1>4. t \in Seq(S) /\ Len(t) = n + 1
  <2>1. \A j \in 1 .. n + 1 : t[j] \in S
    BY <1>1, <1>2, <1>3
  <2>2. t = [j \in 1 .. n + 1 |-> t[j]]
    BY <1>2 DEF With, n
  <2>. QED  BY <1>2, <1>3, <2>1, <2>2
<1>5. ASSUME NEW d \in S, d # c, NEW k \in 1 .. n, s[k] = d
      PROVE  PlaceIn(t, d) = IF PlaceIn(s, d) < i THEN PlaceIn(s, d) ELSE PlaceIn(s, d) + 1
  <2>. DEFINE a == PlaceIn(s, d)
              b == IF a < i THEN a ELSE a + 1
  <2>1. a \in 1 .. n /\ s[a] = d /\ \A j \in 1 .. n : s[j] = d => a <= j
    BY <1>1, <1>5, FirstPlace
  <2>. HIDE DEF a
  <2>2. b \in 1 .. n + 1 /\ t[b] = d
    BY <1>1, <1>2, <1>3, <2>1
  <2>3. ASSUME NEW j \in 1 .. n + 1, t[j] = d PROVE b <= j
    <3>1. CASE j < i
      BY <1>1, <1>2, <1>3, <2>1, <2>3, <3>1
    <3>2. CASE j = i
      BY <1>2, <1>5, <2>3, <3>2, <1>3
    <3>3. CASE j > i
      <4>1. j - 1 \in 1 .. n /\ s[j - 1] = d
        BY <1>1, <1>2, <1>3, <2>3, <3>3
      <4>2. a <= j - 1
        BY <2>1, <4>1
      <4>. QED  BY <1>1, <1>3, <2>1, <3>3, <4>2
    <3>. QED  BY <1>3, <3>1, <3>2, <3>3
  <2>. HIDE DEF b
  <2>4. PlaceIn(t, d) = b
    BY <1>2, <1>3, <2>2, <2>3, PlaceIs
  <2>. QED  BY <2>4 DEF a, b
<1>6. t[i] = c
  BY <1>2, <1>3
<1>7. PlaceIn(t, c) \in 1 .. n + 1 /\ t[PlaceIn(t, c)] = c /\ PlaceIn(t, c) <= i
  BY <1>2, <1>3, <1>6, FirstPlace
<1>. QED  BY <1>4, <1>5, <1>7 DEF n

\* The first c is taken out.
LEMMA LessPlaces ==
    ASSUME NEW S, NEW s, Has(s, S), NEW c \in S, NEW t, Less(t, s, PlaceIn(s, c))
    PROVE  /\ t \in Seq(S) /\ Len(t) = Len(s) - 1
           /\ \A d \in S : d # c =>
                 /\ \E k \in 1 .. Len(t) : t[k] = d
                 /\ PlaceIn(t, d) = IF PlaceIn(s, d) < PlaceIn(s, c) THEN PlaceIn(s, d)
                                    ELSE PlaceIn(s, d) - 1
           /\ \A k \in 1 .. Len(t) : t[k] = c =>
                 k >= PlaceIn(s, c) /\ k + 1 \in 1 .. Len(s) /\ s[k + 1] = c
<1>. DEFINE n == Len(s)
            i == PlaceIn(s, c)
<1>1. n \in Nat /\ DOMAIN s = 1 .. n /\ \A j \in 1 .. n : s[j] \in S
  BY DEF Has
<1>2. i \in 1 .. n /\ s[i] = c /\ \A j \in 1 .. n : s[j] = c => i <= j
  BY HasPlaces
<1>3. t = [j \in 1 .. n - 1 |-> IF j < i THEN s[j] ELSE s[j + 1]]
  BY DEF Less
<1>. HIDE DEF n, i
<1>4. /\ DOMAIN t = 1 .. n - 1 /\ n - 1 \in Nat
      /\ \A j \in 1 .. n - 1 : t[j] = IF j < i THEN s[j] ELSE s[j + 1]
  BY <1>1, <1>2, <1>3
<1>5. t \in Seq(S) /\ Len(t) = n - 1
  <2>1. \A j \in 1 .. n - 1 : t[j] \in S
    BY <1>1, <1>2, <1>4
  <2>2. t = [j \in 1 .. n - 1 |-> t[j]]
    BY <1>3
  <2>. QED  BY <1>4, <2>1, <2>2
<1>6. ASSUME NEW d \in S, d # c
      PROVE  /\ \E k \in 1 .. n - 1 : t[k] = d
             /\ PlaceIn(t, d) = IF PlaceIn(s, d) < i THEN PlaceIn(s, d) ELSE PlaceIn(s, d) - 1
  <2>. DEFINE a == PlaceIn(s, d)
              b == IF a < i THEN a ELSE a - 1
  <2>1. a \in 1 .. n /\ s[a] = d /\ \A j \in 1 .. n : s[j] = d => a <= j
    BY HasPlaces DEF n
  <2>. HIDE DEF a
  <2>2. b \in 1 .. n - 1 /\ t[b] = d
    BY <1>1, <1>2, <1>4, <1>6, <2>1
  <2>3. ASSUME NEW j \in 1 .. n - 1, t[j] = d PROVE b <= j
    <3>1. CASE j < i
      BY <1>1, <1>2, <1>4, <2>1, <2>3, <3>1
    <3>2. CASE ~(j < i)
      <4>1. j + 1 \in 1 .. n /\ s[j + 1] = d
        BY <1>1, <1>2, <1>4, <2>3, <3>2
      <4>2. a <= j + 1 /\ a # i
        BY <1>2, <1>6, <2>1, <4>1
      <4>. QED  BY <1>1, <1>2, <2>1, <3>2, <4>2
    <3>. QED  BY <3>1, <3>2
  <2>. HIDE DEF b
  <2>4. PlaceIn(t, d) = b
    BY <1>4, <2>2, <2>3, PlaceIs
  <2>. QED  BY <2>2, <2>4 DEF a, b
<1>7. \A k \in 1 .. n - 1 : t[k] = c => k >= i /\ k + 1 \in 1 .. n /\ s[k + 1] = c
  <2>1. SUFFICES ASSUME NEW k \in 1 .. n - 1, t[k] = c
                 PROVE  k >= i /\ k + 1 \in 1 .. n /\ s[k + 1] = c
    OBVIOUS
  <2>2. k \in 1 .. n /\ k + 1 \in 1 .. n
    BY <1>1
  <2>3. ~(k < i)
    BY <1>2, <1>4, <2>1, <2>2
  <2>. QED  BY <1>2, <1>4, <2>1, <2>2, <2>3
<1>. QED  BY <1>5, <1>6, <1>7 DEF n, i

\* The other cards stay in their order.
SameOrder(t, s, S, c) ==
    \A d, e \in S \ {c} : PlaceIn(t, d) < PlaceIn(t, e) <=> PlaceIn(s, d) < PlaceIn(s, e)

OnlyOnce(s, c) == \A k \in 1 .. Len(s) : s[k] = c => k = PlaceIn(s, c)

\* If t has c once more, it comes after the cards that s has before c.
Later(t, s, S, c) ==
    \A e \in S : PlaceIn(s, e) < PlaceIn(s, c) =>
        \A k \in 1 .. Len(t) : (t[k] = c /\ k # PlaceIn(t, c)) => PlaceIn(t, e) < k

\* c taken out and put in somewhere else.
LEMMA Moved ==
    ASSUME NEW S, NEW s, Has(s, S), NEW c \in S, NEW r, Less(r, s, PlaceIn(s, c)),
           NEW i \in 1 .. Len(r) + 1, NEW t, With(t, r, i, c)
    PROVE  /\ Has(t, S) /\ Len(t) = Len(s) /\ SameOrder(t, s, S, c)
           /\ \A d \in S \ {c} :
                 PlaceIn(t, d) = IF PlaceIn(r, d) < i THEN PlaceIn(r, d) ELSE PlaceIn(r, d) + 1
           /\ (\A k \in 1 .. Len(r) : r[k] = c => k >= i) => PlaceIn(t, c) = i
           /\ OnlyOnce(s, c) => \A k \in 1 .. Len(t) : t[k] = c => k = i
<1>1. /\ Len(s) \in Nat /\ PlaceIn(s, c) \in 1 .. Len(s)
      /\ \A d \in S : PlaceIn(s, d) \in 1 .. Len(s) /\ s[PlaceIn(s, d)] = d
  <2>1. \A d \in S : PlaceIn(s, d) \in 1 .. Len(s) /\ s[PlaceIn(s, d)] = d
    BY HasPlaces
  <2>. QED  BY <2>1 DEF Has
<1>2. /\ r \in Seq(S) /\ Len(r) = Len(s) - 1
      /\ \A d \in S : d # c =>
            /\ \E k \in 1 .. Len(r) : r[k] = d
            /\ PlaceIn(r, d) = IF PlaceIn(s, d) < PlaceIn(s, c) THEN PlaceIn(s, d)
                               ELSE PlaceIn(s, d) - 1
      /\ \A k \in 1 .. Len(r) : r[k] = c =>
            k >= PlaceIn(s, c) /\ k + 1 \in 1 .. Len(s) /\ s[k + 1] = c
  BY LessPlaces
<1>3. /\ t \in Seq(S) /\ Len(t) = Len(r) + 1
      /\ \A d \in S : d # c =>
            PlaceIn(t, d) = IF PlaceIn(r, d) < i THEN PlaceIn(r, d) ELSE PlaceIn(r, d) + 1
      /\ PlaceIn(t, c) <= i /\ PlaceIn(t, c) \in 1 .. Len(t) /\ t[PlaceIn(t, c)] = c
  <2>1. /\ t \in Seq(S) /\ Len(t) = Len(r) + 1
        /\ \A d \in S : (d # c /\ \E k \in 1 .. Len(r) : r[k] = d) =>
              PlaceIn(t, d) = IF PlaceIn(r, d) < i THEN PlaceIn(r, d) ELSE PlaceIn(r, d) + 1
        /\ PlaceIn(t, c) <= i /\ PlaceIn(t, c) \in 1 .. Len(t) /\ t[PlaceIn(t, c)] = c
    BY <1>2, WithPlaces
  <2>. QED  BY <1>2, <2>1
<1>4. Len(r) \in Nat /\ i \in 1 .. Len(r) + 1
      /\ \A j \in 1 .. Len(r) + 1 : t[j] = IF j < i THEN r[j] ELSE IF j = i THEN c ELSE r[j - 1]
  BY <1>2 DEF With
<1>5. Has(t, S)
  <2>1. ASSUME NEW d \in S PROVE \E k \in 1 .. Len(t) : t[k] = d
    <3>1. CASE d = c
      BY <1>3, <3>1
    <3>2. CASE d # c
      <4>1. PICK k \in 1 .. Len(r) : r[k] = d
        BY <1>2, <3>2
      <4>2. CASE k < i
        BY <1>3, <1>4, <4>1, <4>2
      <4>3. CASE ~(k < i)
        <5>1. k + 1 \in 1 .. Len(r) + 1 /\ ~(k + 1 < i) /\ k + 1 # i /\ (k + 1) - 1 = k
          BY <1>4, <4>3
        <5>2. t[k + 1] = r[(k + 1) - 1]
          BY <1>4, <5>1
        <5>. QED  BY <1>3, <4>1, <5>1, <5>2
      <4>. QED  BY <4>2, <4>3
    <3>. QED  BY <3>1, <3>2
  <2>. QED  BY <1>3, <2>1 DEF Has
<1>6. SameOrder(t, s, S, c)
  <2>1. SUFFICES ASSUME NEW d \in S \ {c}, NEW e \in S \ {c}
                 PROVE  PlaceIn(t, d) < PlaceIn(t, e) <=> PlaceIn(s, d) < PlaceIn(s, e)
    BY DEF SameOrder
  <2>2. /\ PlaceIn(s, d) \in 1 .. Len(s) /\ PlaceIn(s, e) \in 1 .. Len(s)
        /\ PlaceIn(s, d) # PlaceIn(s, c) /\ PlaceIn(s, e) # PlaceIn(s, c)
    BY <1>1
  <2>3. /\ PlaceIn(r, d) = IF PlaceIn(s, d) < PlaceIn(s, c) THEN PlaceIn(s, d)
                           ELSE PlaceIn(s, d) - 1
        /\ PlaceIn(r, e) = IF PlaceIn(s, e) < PlaceIn(s, c) THEN PlaceIn(s, e)
                           ELSE PlaceIn(s, e) - 1
    BY <1>2
  <2>4. /\ PlaceIn(t, d) = IF PlaceIn(r, d) < i THEN PlaceIn(r, d) ELSE PlaceIn(r, d) + 1
        /\ PlaceIn(t, e) = IF PlaceIn(r, e) < i THEN PlaceIn(r, e) ELSE PlaceIn(r, e) + 1
    BY <1>3
  <2>5. PlaceIn(r, d) \in Int /\ PlaceIn(r, e) \in Int
        /\ (PlaceIn(r, d) < PlaceIn(r, e) <=> PlaceIn(s, d) < PlaceIn(s, e))
    BY <1>1, <2>2, <2>3
  <2>. QED  BY <1>4, <2>4, <2>5
<1>7. ASSUME \A k \in 1 .. Len(r) : r[k] = c => k >= i PROVE PlaceIn(t, c) = i
  <2>1. SUFFICES ASSUME PlaceIn(t, c) < i PROVE FALSE
    BY <1>3, <1>4
  <2>2. PlaceIn(t, c) \in 1 .. Len(r) /\ r[PlaceIn(t, c)] = c
    BY <1>3, <1>4, <2>1
  <2>. QED  BY <1>7, <1>4, <2>1, <2>2
<1>8. ASSUME OnlyOnce(s, c), NEW k \in 1 .. Len(t), t[k] = c PROVE k = i
  <2>1. \A j \in 1 .. Len(r) : r[j] # c
    <3>1. SUFFICES ASSUME NEW j \in 1 .. Len(r), r[j] = c PROVE FALSE
      OBVIOUS
    <3>2. j >= PlaceIn(s, c) /\ j + 1 = PlaceIn(s, c)
      BY <1>2, <1>8, <3>1 DEF OnlyOnce
    <3>. QED  BY <1>1, <1>4, <3>2
  <2>2. CASE k < i
    BY <1>3, <1>4, <1>8, <2>1, <2>2
  <2>3. CASE k > i
    <3>1. k - 1 \in 1 .. Len(r) /\ t[k] = r[k - 1]
      BY <1>3, <1>4, <2>3
    <3>. QED  BY <1>8, <2>1, <3>1
  <2>. QED  BY <1>3, <1>4, <2>2, <2>3
<1>. QED  BY <1>2, <1>3, <1>1, <1>5, <1>6, <1>7, <1>8

\* c put before e, and left where it is.
LEMMA Added ==
    ASSUME NEW S, NEW s, Has(s, S), NEW c \in S, NEW e \in S,
           NEW t, With(t, s, PlaceIn(s, e), c)
    PROVE  /\ Has(t, S) /\ SameOrder(t, s, S, c)
           /\ \A d \in S \ {c} : PlaceIn(t, d) < PlaceIn(t, c) => PlaceIn(s, d) < PlaceIn(s, e)
           /\ OnlyOnce(s, c) => Later(t, s, S, c)
<1>. DEFINE i == PlaceIn(s, e)
<1>1. /\ Len(s) \in Nat /\ s \in Seq(S)
      /\ \A d \in S : PlaceIn(s, d) \in 1 .. Len(s) /\ s[PlaceIn(s, d)] = d
  <2>1. \A d \in S : PlaceIn(s, d) \in 1 .. Len(s) /\ s[PlaceIn(s, d)] = d
    BY HasPlaces
  <2>. QED  BY <2>1 DEF Has
<1>2. i \in 1 .. Len(s) /\ i \in 1 .. Len(s) + 1 /\ i \in Int /\ With(t, s, i, c)
  BY <1>1
<1>. HIDE DEF i
<1>3. /\ t \in Seq(S) /\ Len(t) = Len(s) + 1
      /\ \A d \in S \ {c} :
            PlaceIn(t, d) = IF PlaceIn(s, d) < i THEN PlaceIn(s, d) ELSE PlaceIn(s, d) + 1
      /\ PlaceIn(t, c) <= i /\ PlaceIn(t, c) \in 1 .. Len(t) /\ t[PlaceIn(t, c)] = c
  <2>1. \A d \in S : \E k \in 1 .. Len(s) : s[k] = d
    BY <1>1
  <2>2. /\ t \in Seq(S) /\ Len(t) = Len(s) + 1
        /\ \A d \in S : (d # c /\ \E k \in 1 .. Len(s) : s[k] = d) =>
              PlaceIn(t, d) = IF PlaceIn(s, d) < i THEN PlaceIn(s, d) ELSE PlaceIn(s, d) + 1
        /\ PlaceIn(t, c) <= i /\ PlaceIn(t, c) \in 1 .. Len(t) /\ t[PlaceIn(t, c)] = c
    BY <1>1, <1>2, WithPlaces
  <2>. QED  BY <2>1, <2>2
<1>4. \A j \in 1 .. Len(s) + 1 : t[j] = IF j < i THEN s[j] ELSE IF j = i THEN c ELSE s[j - 1]
  BY <1>2 DEF With
<1>0. /\ \A k \in 1 .. Len(t) : k \in Int /\ k \in 1 .. Len(s) + 1
      /\ \A k \in 1 .. Len(s) + 1 : k \in 1 .. Len(t)
      /\ \A k \in 1 .. Len(t) : k < i => k \in 1 .. Len(s) /\ t[k] = s[k]
      /\ \A k \in 1 .. Len(t) : k > i => k - 1 \in 1 .. Len(s) /\ t[k] = s[k - 1]
  <2>. DEFINE n == Len(s)
              m == Len(t)
  <2>1. /\ n \in Nat /\ m = n + 1 /\ i \in 1 .. n
        /\ \A j \in 1 .. n + 1 : t[j] = IF j < i THEN s[j] ELSE IF j = i THEN c ELSE s[j - 1]
    BY <1>1, <1>2, <1>3, <1>4
  <2>. HIDE DEF n, m
  <2>2. /\ \A k \in 1 .. m : k \in Int /\ k \in 1 .. n + 1
        /\ \A k \in 1 .. n + 1 : k \in 1 .. m
    BY <2>1
  <2>3. \A k \in 1 .. m : k < i => k \in 1 .. n /\ t[k] = s[k]
    BY <2>1, <2>2
  <2>4. \A k \in 1 .. m : k > i => k - 1 \in 1 .. n /\ t[k] = s[k - 1]
    BY <2>1, <2>2
  <2>. QED  BY <2>2, <2>3, <2>4 DEF n, m
<1>5. Has(t, S)
  <2>1. ASSUME NEW d \in S PROVE \E k \in 1 .. Len(t) : t[k] = d
    <3>1. PICK k \in 1 .. Len(s) : s[k] = d
      BY <1>1
    <3>2. CASE k < i
      <4>1. k \in 1 .. Len(t)
        BY <1>0, <1>1
      <4>. QED  BY <1>0, <3>1, <3>2, <4>1
    <3>3. CASE ~(k < i)
      <4>1. k + 1 \in 1 .. Len(s) + 1 /\ ~(k + 1 < i) /\ k + 1 # i /\ (k + 1) - 1 = k
        BY <1>1, <1>2, <3>3
      <4>2. t[k + 1] = s[(k + 1) - 1]
        BY <1>4, <4>1
      <4>. QED  BY <1>3, <3>1, <4>1, <4>2
    <3>. QED  BY <3>2, <3>3
  <2>. QED  BY <1>3, <2>1 DEF Has
<1>6. SameOrder(t, s, S, c)
  <2>1. SUFFICES ASSUME NEW d \in S \ {c}, NEW f \in S \ {c}
                 PROVE  PlaceIn(t, d) < PlaceIn(t, f) <=> PlaceIn(s, d) < PlaceIn(s, f)
    BY DEF SameOrder
  <2>2. PlaceIn(s, d) \in 1 .. Len(s) /\ PlaceIn(s, f) \in 1 .. Len(s)
    BY <1>1
  <2>3. /\ PlaceIn(t, d) = IF PlaceIn(s, d) < i THEN PlaceIn(s, d) ELSE PlaceIn(s, d) + 1
        /\ PlaceIn(t, f) = IF PlaceIn(s, f) < i THEN PlaceIn(s, f) ELSE PlaceIn(s, f) + 1
    BY <1>3
  <2>. QED  BY <1>2, <2>2, <2>3
<1>7. ASSUME NEW d \in S \ {c}, PlaceIn(t, d) < PlaceIn(t, c) PROVE PlaceIn(s, d) < i
  <2>1. /\ PlaceIn(t, d) = IF PlaceIn(s, d) < i THEN PlaceIn(s, d) ELSE PlaceIn(s, d) + 1
        /\ PlaceIn(t, c) <= i /\ PlaceIn(t, c) \in 1 .. Len(t) /\ PlaceIn(s, d) \in 1 .. Len(s)
    BY <1>1, <1>3
  <2>. QED  BY <1>1, <1>2, <1>3, <1>7, <2>1
<1>8. ASSUME OnlyOnce(s, c) PROVE Later(t, s, S, c)
  <2>1. SUFFICES ASSUME NEW d \in S, PlaceIn(s, d) < PlaceIn(s, c),
                        NEW k \in 1 .. Len(t), t[k] = c, k # PlaceIn(t, c)
                 PROVE  PlaceIn(t, d) < k
    BY DEF Later
  <2>2. /\ PlaceIn(s, d) \in 1 .. Len(s) /\ PlaceIn(s, c) \in 1 .. Len(s)
        /\ d # c
    BY <1>1, <2>1
  <2>3. PlaceIn(t, d) = IF PlaceIn(s, d) < i THEN PlaceIn(s, d) ELSE PlaceIn(s, d) + 1
    BY <1>3, <2>2
  <2>4. PlaceIn(t, c) \in 1 .. Len(t) /\ t[PlaceIn(t, c)] = c /\ PlaceIn(t, c) <= i
    BY <1>3
  <2>5. \A j \in 1 .. Len(t) : (t[j] = c /\ j < i) => j = PlaceIn(s, c)
    <3>1. SUFFICES ASSUME NEW j \in 1 .. Len(t), t[j] = c, j < i PROVE j = PlaceIn(s, c)
      OBVIOUS
    <3>2. j \in 1 .. Len(s) /\ s[j] = c
      BY <1>0, <3>1
    <3>. QED  BY <1>8, <3>2 DEF OnlyOnce
  <2>6. CASE k < i
    <3>1. PlaceIn(t, c) <= k
      BY <1>5, <2>1, HasPlaces
    <3>. QED  BY <1>2, <2>1, <2>4, <2>5, <2>6, <3>1
  <2>7. CASE k = i
    <3>1. PlaceIn(t, c) = PlaceIn(s, c) /\ PlaceIn(s, c) < i
      BY <1>0, <1>2, <2>1, <2>4, <2>5, <2>7
    <3>2. PlaceIn(t, d) = PlaceIn(s, d)
      BY <1>1, <1>2, <2>1, <2>2, <2>3, <3>1
    <3>. QED  BY <1>1, <1>2, <2>1, <2>2, <2>7, <3>1, <3>2
  <2>8. CASE k > i
    <3>1. k - 1 \in 1 .. Len(s) /\ s[k - 1] = c
      BY <1>0, <2>1, <2>8
    <3>2. k - 1 = PlaceIn(s, c)
      BY <1>8, <3>1 DEF OnlyOnce
    <3>3. k \in Int /\ PlaceIn(s, d) \in Int /\ PlaceIn(s, c) \in Int
      BY <1>0, <1>1, <2>2
    <3>4. PlaceIn(t, d) <= PlaceIn(s, d) + 1
      BY <2>3, <3>3
    <3>5. PlaceIn(t, d) \in Int
      BY <2>3, <3>3
    <3>. QED  BY <2>1, <3>2, <3>3, <3>4, <3>5
  <2>. QED  BY <1>0, <1>2, <2>1, <2>6, <2>7, <2>8
<1>. QED  BY <1>5, <1>6, <1>7, <1>8 DEF i

LEMMA MovesOwn ==
    /\ \A s, e : Moves!PlaceIn(s, e) = PlaceIn(s, e)
    /\ \A S, s : Moves!AsIn(S, s) = AsIn(S, s)
    /\ \A s, i : Moves!RemoveAt(s, i) = SubSeq(s, 1, i - 1) \o SubSeq(s, i + 1, Len(s))
    /\ \A s, i, e : Moves!InsertAt(s, i, e)
                      = SubSeq(s, 1, i - 1) \o <<e>> \o SubSeq(s, i, Len(s))
<1>1. \A s, e : Moves!PlaceIn(s, e) = PlaceIn(s, e)
  BY DEF PlaceIn, Moves!PlaceIn
<1>2. \A S, R : Moves!Arranged(S, R) = Arranged(S, R)
  <2>1. \A S : Moves!Cardinality(S) = Cardinality(S)
    BY DEF Cardinality, Moves!Cardinality
  <2>2. TAKE S, R
  <2>. DEFINE one(e) == Moves!Cardinality({d \in S : <<d, e>> \in R})
              two(e) == Cardinality({d \in S : <<d, e>> \in R})
  <2>3. \A e : one(e) = two(e)
    BY <2>1
  <2>. HIDE DEF one, two
  <2>4. \A i : (CHOOSE e \in S : one(e) = i - 1) = (CHOOSE e \in S : two(e) = i - 1)
    BY <2>3
  <2>5. /\ Moves!Arranged(S, R)
              = [i \in 1 .. Cardinality(S) |-> CHOOSE e \in S : one(e) = i - 1]
        /\ Arranged(S, R) = [i \in 1 .. Cardinality(S) |-> CHOOSE e \in S : two(e) = i - 1]
    BY <2>1 DEF Arranged, Moves!Arranged, one, two
  <2>. QED  BY <2>4, <2>5
<1>3. \A S, s : Moves!AsIn(S, s) = AsIn(S, s)
  BY <1>1, <1>2 DEF AsIn, Moves!AsIn
<1>4. \A s, i : Moves!RemoveAt(s, i) = SubSeq(s, 1, i - 1) \o SubSeq(s, i + 1, Len(s))
  BY DEF Moves!RemoveAt
<1>5. \A s, i, e : Moves!InsertAt(s, i, e)
                     = SubSeq(s, 1, i - 1) \o <<e>> \o SubSeq(s, i, Len(s))
  BY DEF Moves!InsertAt
<1>. QED  BY <1>1, <1>3, <1>4, <1>5

\* What updateBoardItem does to the order.
LEMMA PutIs ==
    ASSUME NEW S, None \notin S, NEW s, Has(s, S), NEW c \in S,
           NEW rel, rel.after \in S \cup {None}, rel.before \in S \cup {None}
    PROVE  LET r == Moves!Without(s, c)
               t == Moves!Put(s, c, rel)
               i == IF rel.after \in Moves!ToSet(r) THEN PlaceIn(r, rel.after) + 1 ELSE 1
           IN  /\ Less(r, s, PlaceIn(s, c)) /\ r \in Seq(S)
               /\ rel.after # None => i \in 1 .. Len(r) + 1 /\ With(t, r, i, c)
               /\ (rel.after = None /\ rel.before # None) => With(t, s, PlaceIn(s, rel.before), c)
               /\ (rel.after = None /\ rel.before = None) => With(t, r, 1, c)
<1>. DEFINE r == Moves!Without(s, c)
            t == Moves!Put(s, c, rel)
            i == IF rel.after \in Moves!ToSet(r) THEN PlaceIn(r, rel.after) + 1 ELSE 1
<1>1. s \in Seq(S) /\ PlaceIn(s, c) \in 1 .. Len(s)
  BY HasPlaces DEF Has
<1>2. Less(r, s, PlaceIn(s, c))
  <2>1. r = SubSeq(s, 1, PlaceIn(s, c) - 1) \o SubSeq(s, PlaceIn(s, c) + 1, Len(s))
    BY MovesOwn DEF Moves!Without
  <2>. HIDE DEF r
  <2>. QED  BY <1>1, <2>1, RemoveIs
<1>. HIDE DEF r
<1>3. r \in Seq(S)
  BY <1>2, LessPlaces
<1>4. Len(r) \in Nat /\ DOMAIN r = 1 .. Len(r)
  BY <1>3
<1>5. ASSUME rel.after # None PROVE i \in 1 .. Len(r) + 1 /\ With(t, r, i, c)
  <2>1. i \in 1 .. Len(r) + 1
    <3>1. CASE rel.after \in Moves!ToSet(r)
      <4>1. \E k \in 1 .. Len(r) : r[k] = rel.after
        BY <1>4, <3>1 DEF Moves!ToSet
      <4>2. PlaceIn(r, rel.after) \in 1 .. Len(r)
        BY <1>4, <4>1, FirstPlace
      <4>. QED  BY <1>4, <3>1, <4>2
    <3>2. CASE rel.after \notin Moves!ToSet(r)
      BY <1>4, <3>2
    <3>. QED  BY <3>1, <3>2
  <2>2. Moves!At(r, rel.after) + 1 = i
    BY MovesOwn DEF Moves!At
  <2>3. t = Moves!InsertAt(r, Moves!At(r, rel.after) + 1, c)
    BY <1>5 DEF Moves!Put, r
  <2>. HIDE DEF i, t
  <2>4. t = SubSeq(r, 1, i - 1) \o <<c>> \o SubSeq(r, i, Len(r))
    BY <2>2, <2>3, MovesOwn
  <2>. QED  BY <1>3, <2>1, <2>4, InsertIs
<1>6. ASSUME rel.after = None, rel.before # None PROVE With(t, s, PlaceIn(s, rel.before), c)
  <2>. DEFINE j == PlaceIn(s, rel.before)
  <2>1. j \in 1 .. Len(s) /\ s[j] = rel.before
    BY <1>6, HasPlaces
  <2>2. rel.before \in Moves!ToSet(s)
    BY <1>1, <2>1 DEF Moves!ToSet
  <2>3. Moves!At(s, rel.before) = j
    BY <2>2, MovesOwn DEF Moves!At
  <2>4. t = Moves!InsertAt(s, Moves!At(s, rel.before), c)
    BY <1>6 DEF Moves!Put
  <2>. HIDE DEF j, t
  <2>5. t = SubSeq(s, 1, j - 1) \o <<c>> \o SubSeq(s, j, Len(s))
    BY <2>3, <2>4, MovesOwn
  <2>7. j \in 1 .. Len(s) + 1
    BY <1>1, <2>1
  <2>6. With(t, s, j, c)
    BY <1>1, <2>5, <2>7, InsertIs
  <2>. QED  BY <2>6 DEF j
<1>7. ASSUME rel.after = None, rel.before = None PROVE With(t, r, 1, c)
  <2>1. t = <<c>> \o r
    BY <1>7 DEF Moves!Put, r
  <2>. HIDE DEF t
  <2>. QED  BY <1>3, <2>1, FrontIs
<1>. QED  BY <1>2, <1>3, <1>5, <1>6, <1>7 DEF r

\* Wherever the only c is put, a second one comes late.
LEMMA PutKeeps ==
    ASSUME NEW S, None \notin S, NEW s, Has(s, S), NEW c \in S,
           NEW rel, rel.after \in S \cup {None}, rel.before \in S \cup {None}
    PROVE  LET t == Moves!Put(s, c, rel) IN
           /\ Has(t, S) /\ SameOrder(t, s, S, c)
           /\ OnlyOnce(s, c) => Later(t, s, S, c)
<1>. DEFINE r == Moves!Without(s, c)
            t == Moves!Put(s, c, rel)
            i == IF rel.after \in Moves!ToSet(r) THEN PlaceIn(r, rel.after) + 1 ELSE 1
<1>1. /\ Less(r, s, PlaceIn(s, c)) /\ r \in Seq(S)
      /\ rel.after # None => i \in 1 .. Len(r) + 1 /\ With(t, r, i, c)
      /\ (rel.after = None /\ rel.before # None) => With(t, s, PlaceIn(s, rel.before), c)
      /\ (rel.after = None /\ rel.before = None) => With(t, r, 1, c)
  BY PutIs
<1>. HIDE DEF r, t, i
<1>2. ASSUME NEW k \in 1 .. Len(r) + 1, With(t, r, k, c)
      PROVE  Has(t, S) /\ SameOrder(t, s, S, c) /\ (OnlyOnce(s, c) => Later(t, s, S, c))
  <2>1. /\ Has(t, S) /\ SameOrder(t, s, S, c)
        /\ OnlyOnce(s, c) => \A j \in 1 .. Len(t) : t[j] = c => j = k
    BY <1>1, <1>2, Moved
  <2>2. PlaceIn(t, c) \in 1 .. Len(t) /\ t[PlaceIn(t, c)] = c
    BY <2>1, HasPlaces
  <2>. QED  BY <2>1, <2>2 DEF Later
<1>. DEFINE Kept == Has(t, S) /\ SameOrder(t, s, S, c) /\ (OnlyOnce(s, c) => Later(t, s, S, c))
<1>3. ASSUME rel.after # None PROVE Kept
  BY <1>1, <1>2, <1>3
<1>4. ASSUME rel.after = None, rel.before # None PROVE Kept
  <2>1. rel.before \in S /\ With(t, s, PlaceIn(s, rel.before), c)
    BY <1>1, <1>4
  <2>. QED  BY <2>1, Added
<1>5. ASSUME rel.after = None, rel.before = None PROVE Kept
  <2>1. 1 \in 1 .. Len(r) + 1
    BY <1>1
  <2>. QED  BY <1>1, <1>2, <1>5, <2>1
<1>. QED  BY <1>3, <1>4, <1>5 DEF t

\* Put after another card, c comes right after it.
LEMMA PutBehind ==
    ASSUME NEW S, None \notin S, NEW s, Has(s, S), NEW c \in S,
           NEW rel, rel.after \in S \ {c}, rel.before \in S \cup {None},
           \A k \in 1 .. Len(s) : (s[k] = c /\ k # PlaceIn(s, c)) => PlaceIn(s, rel.after) < k
    PROVE  LET t == Moves!Put(s, c, rel) IN
           \A d \in S \ {c} : PlaceIn(t, d) < PlaceIn(t, c)
                              <=> d = rel.after \/ PlaceIn(s, d) < PlaceIn(s, rel.after)
<1>. DEFINE r == Moves!Without(s, c)
            t == Moves!Put(s, c, rel)
            e == rel.after
            i == PlaceIn(r, e) + 1
<1>1. e \in S /\ e # c /\ e # None
  OBVIOUS
<1>2. Less(r, s, PlaceIn(s, c)) /\ r \in Seq(S)
  BY PutIs
<1>3. /\ Len(r) = Len(s) - 1
      /\ \A d \in S : d # c =>
            /\ \E k \in 1 .. Len(r) : r[k] = d
            /\ PlaceIn(r, d) = IF PlaceIn(s, d) < PlaceIn(s, c) THEN PlaceIn(s, d)
                               ELSE PlaceIn(s, d) - 1
      /\ \A k \in 1 .. Len(r) : r[k] = c =>
            k >= PlaceIn(s, c) /\ k + 1 \in 1 .. Len(s) /\ s[k + 1] = c
  <2>. HIDE DEF r
  <2>. QED  BY <1>2, LessPlaces
<1>4. e \in Moves!ToSet(r)
  <2>. HIDE DEF r, e
  <2>1. PICK k \in 1 .. Len(r) : r[k] = e
    BY <1>1, <1>3
  <2>2. k \in DOMAIN r
    BY <1>2, <2>1
  <2>. QED  BY <2>1, <2>2 DEF Moves!ToSet
<1>5. i \in 1 .. Len(r) + 1 /\ With(t, r, i, c)
  BY <1>1, <1>4, PutIs
<1>. HIDE DEF r, t, e, i
<1>6. /\ Len(s) \in Nat /\ Len(r) \in Nat
      /\ \A d \in S : PlaceIn(s, d) \in 1 .. Len(s) /\ s[PlaceIn(s, d)] = d
  <2>1. \A d \in S : PlaceIn(s, d) \in 1 .. Len(s) /\ s[PlaceIn(s, d)] = d
    BY HasPlaces
  <2>2. Len(s) \in Nat
    BY DEF Has
  <2>3. Len(r) \in Nat
    BY <1>2
  <2>. QED  BY <2>1, <2>2, <2>3
<1>7. \A k \in 1 .. Len(r) : r[k] = c => k >= i
  <2>1. SUFFICES ASSUME NEW k \in 1 .. Len(r), r[k] = c PROVE k >= i
    OBVIOUS
  <2>2. k >= PlaceIn(s, c) /\ k + 1 \in 1 .. Len(s) /\ s[k + 1] = c
    BY <1>3, <2>1
  <2>3. PlaceIn(s, c) \in Int /\ PlaceIn(s, e) \in Int /\ PlaceIn(s, e) # PlaceIn(s, c)
    BY <1>1, <1>6
  <2>4. k + 1 # PlaceIn(s, c)
    BY <2>2, <2>3
  <2>5. PlaceIn(s, e) < k + 1
    BY <2>2, <2>4 DEF e
  <2>6. PlaceIn(r, e) = IF PlaceIn(s, e) < PlaceIn(s, c) THEN PlaceIn(s, e) ELSE PlaceIn(s, e) - 1
    BY <1>1, <1>3
  <2>. QED  BY <1>6, <2>2, <2>3, <2>5, <2>6 DEF i
<1>8. /\ PlaceIn(t, c) = i
      /\ \A d \in S \ {c} :
            PlaceIn(t, d) = IF PlaceIn(r, d) < i THEN PlaceIn(r, d) ELSE PlaceIn(r, d) + 1
  BY <1>2, <1>5, <1>7, Moved
<1>9. ASSUME NEW d \in S \ {c}
      PROVE  PlaceIn(t, d) < PlaceIn(t, c) <=> d = e \/ PlaceIn(s, d) < PlaceIn(s, e)
  <2>1. /\ PlaceIn(s, d) \in Int /\ PlaceIn(s, c) \in Int /\ PlaceIn(s, e) \in Int
        /\ PlaceIn(s, d) # PlaceIn(s, c) /\ PlaceIn(s, e) # PlaceIn(s, c)
        /\ d # e => PlaceIn(s, d) # PlaceIn(s, e)
    BY <1>1, <1>6
  <2>2. /\ PlaceIn(r, d) = IF PlaceIn(s, d) < PlaceIn(s, c) THEN PlaceIn(s, d)
                           ELSE PlaceIn(s, d) - 1
        /\ PlaceIn(r, e) = IF PlaceIn(s, e) < PlaceIn(s, c) THEN PlaceIn(s, e)
                           ELSE PlaceIn(s, e) - 1
    BY <1>1, <1>3
  <2>3. PlaceIn(t, d) = IF PlaceIn(r, d) < i THEN PlaceIn(r, d) ELSE PlaceIn(r, d) + 1
    BY <1>8
  <2>4. PlaceIn(r, d) \in Int /\ PlaceIn(r, e) \in Int
        /\ (PlaceIn(r, d) <= PlaceIn(r, e) <=> PlaceIn(s, d) <= PlaceIn(s, e))
    BY <2>1, <2>2
  <2>5. i = PlaceIn(r, e) + 1
    BY DEF i
  <2>6. PlaceIn(t, d) < i <=> PlaceIn(r, d) <= PlaceIn(r, e)
    BY <2>3, <2>4, <2>5
  <2>. QED  BY <1>8, <2>1, <2>4, <2>6
<1>. QED  BY <1>9 DEF t, e

\* Put after none and before none, it comes first.
LEMMA PutOnTop ==
    ASSUME NEW S, None \notin S, NEW s, Has(s, S), NEW c \in S,
           NEW rel, rel.after = None, rel.before = None
    PROVE  LET t == Moves!Put(s, c, rel) IN
           \A d \in S \ {c} : ~(PlaceIn(t, d) < PlaceIn(t, c))
<1>. DEFINE r == Moves!Without(s, c)
            t == Moves!Put(s, c, rel)
<1>1. Less(r, s, PlaceIn(s, c)) /\ r \in Seq(S) /\ With(t, r, 1, c)
  BY PutIs
<1>. HIDE DEF r, t
<1>2. Len(r) \in Nat /\ 1 \in 1 .. Len(r) + 1
  BY <1>1
<1>3. (\A k \in 1 .. Len(r) : r[k] = c => k >= 1) => PlaceIn(t, c) = 1
  BY <1>1, <1>2, Moved
<1>4. Has(t, S)
  BY <1>1, <1>2, Moved
<1>5. PlaceIn(t, c) = 1 /\ \A d \in S : PlaceIn(t, d) \in 1 .. Len(t)
  BY <1>2, <1>3, <1>4, HasPlaces
<1>. QED  BY <1>5 DEF t

\* Put before another card, it comes before that and all after it.
LEMMA PutAhead ==
    ASSUME NEW S, None \notin S, NEW s, Has(s, S), NEW c \in S,
           NEW rel, rel.after = None, rel.before \in S
    PROVE  LET t == Moves!Put(s, c, rel) IN
           \A d \in S \ {c} : PlaceIn(t, d) < PlaceIn(t, c)
                              => PlaceIn(s, d) < PlaceIn(s, rel.before)
<1>1. With(Moves!Put(s, c, rel), s, PlaceIn(s, rel.before), c)
  BY PutIs
<1>. QED  BY <1>1, Added

-----------------------------------------------------------------------------
(***************************************************************************)
(* The board shows a card where it was dropped, and a refused move is      *)
(* undone.  A drop that nothing came between knows its neighbour in the    *)
(* column as it is; a save that is alone knows the board as it was, and    *)
(* that all but its own card is still in that order.                       *)
(***************************************************************************)

Deck == Moves!Cards

LEMMA DeckIs ==
    /\ Len(Loaded) \in Nat /\ IsFiniteSet(Deck) /\ Cardinality(Deck) = Len(Loaded)
    /\ Has(Loaded, Deck) /\ None \notin Deck
<1>. DEFINE n == Len(Loaded)
<1>1. /\ Loaded \in Seq(Deck) /\ None \notin Deck
      /\ \A i, j \in DOMAIN Loaded : Loaded[i] = Loaded[j] => i = j
  BY LayoutAssumption DEF LayoutAssumption, Moves!BoardMovesAssumption, Deck
<1>2. n \in Nat /\ DOMAIN Loaded = 1 .. n /\ Loaded \in [1 .. n -> Deck]
  BY <1>1
<1>3. \A e \in Deck : \E i \in 1 .. n : Loaded[i] = e
  BY <1>2 DEF Deck, Moves!Cards, Moves!ToSet
<1>. HIDE DEF n
<1>4. IsFiniteSet(Deck) /\ Cardinality(Deck) = n
  BY <1>1, <1>2, <1>3, InjectiveLists
<1>. QED  BY <1>1, <1>2, <1>3, <1>4 DEF Has, n

\* An order that is as long as the deck has no card twice.
LEMMA NoneTwice ==
    ASSUME NEW s, Has(s, Deck), Len(s) = Len(Loaded), NEW c \in Deck
    PROVE  OnlyOnce(s, c)
<1>. DEFINE n == Len(s)
<1>1. n \in Nat /\ s \in [1 .. n -> Deck] /\ Cardinality(Deck) = n
  BY DeckIs DEF Has
<1>2. \A e \in Deck : \E i \in 1 .. n : s[i] = e
  BY DEF Has
<1>. HIDE DEF n
<1>3. s \in Surjection(1 .. n, Deck)
  BY <1>1, <1>2 DEF Surjection
<1>4. IsFiniteSet(1 .. n) /\ Cardinality(1 .. n) = n
  BY <1>1, FS_Interval
<1>5. s \in Injection(1 .. n, Deck)
  BY <1>1, <1>3, <1>4, FS_Surjection
<1>6. \A i, j \in 1 .. n : s[i] = s[j] => i = j
  BY <1>1, <1>5 DEF Injection, IsInjective
<1>7. PlaceIn(s, c) \in 1 .. n /\ s[PlaceIn(s, c)] = c
  BY HasPlaces DEF n
<1>. QED  BY <1>6, <1>7 DEF OnlyOnce, n

\* What a column shows.
LEMMA ItemsAre ==
    ASSUME NEW s, Has(s, Deck), NEW g, NEW k
    PROVE  LET S == Moves!Members(g, k)
               I == Moves!ItemsOf(s, g, k)
           IN  /\ S \subseteq Deck /\ IsFiniteSet(S)
               /\ Len(I) \in Nat /\ Len(I) = Cardinality(S) /\ Moves!ToSet(I) = S
               /\ \A i \in 1 .. Len(I) : I[i] \in S /\ PlaceIn(I, I[i]) = i
               /\ \A e \in S : PlaceIn(I, e) \in 1 .. Len(I) /\ I[PlaceIn(I, e)] = e
               /\ \A d, e \in S : PlaceIn(I, d) < PlaceIn(I, e) <=> PlaceIn(s, d) < PlaceIn(s, e)
               /\ \A e \in S : PlaceIn(I, e)
                                  = Cardinality({d \in S : PlaceIn(s, d) < PlaceIn(s, e)}) + 1
<1>. DEFINE S == Moves!Members(g, k)
            I == Moves!ItemsOf(s, g, k)
<1>1. S \subseteq Deck
  BY DEF Moves!Members, Deck
<1>2. IsFiniteSet(S) /\ Cardinality(S) \in Nat
  BY <1>1, DeckIs, FS_Subset, FS_CardinalityType
<1>3. I = AsIn(S, s)
  BY MovesOwn DEF Moves!ItemsOf
<1>. HIDE DEF S, I
<1>4. Places(S, s)
  <2>1. \A e \in S : PlaceIn(s, e) \in 1 .. Len(s) /\ s[PlaceIn(s, e)] = e
    BY <1>1, HasPlaces
  <2>2. Len(s) \in Nat
    BY DEF Has
  <2>. QED  BY <2>1, <2>2 DEF Places
<1>5. /\ Orders(S, InPlace(S, s))
      /\ \A d, e \in S : <<d, e>> \in InPlace(S, s) <=> PlaceIn(s, d) < PlaceIn(s, e)
  BY <1>4, InPlaceOrder
<1>6. I = Arranged(S, InPlace(S, s))
  BY <1>3 DEF AsIn, InPlace
<1>7. /\ Lists(I, S)
      /\ \A d, e \in S : PlaceIn(I, d) < PlaceIn(I, e) <=> <<d, e>> \in InPlace(S, s)
      /\ \A e \in S : PlaceIn(I, e) = Rank(S, InPlace(S, s), e) + 1
  BY <1>2, <1>5, <1>6, ArrangedIs
<1>8. \A e \in S : Earlier(S, InPlace(S, s), e) = {d \in S : PlaceIn(s, d) < PlaceIn(s, e)}
  BY <1>5 DEF Earlier
<1>9. \A e \in S : PlaceIn(I, e) = Cardinality({d \in S : PlaceIn(s, d) < PlaceIn(s, e)}) + 1
  BY <1>7, <1>8 DEF Rank
<1>10. DOMAIN I = 1 .. Cardinality(S) /\ Len(I) = Cardinality(S)
  BY <1>2, <1>7 DEF Lists
<1>11. Moves!ToSet(I) = S
  BY <1>7, <1>10 DEF Lists, Moves!ToSet
<1>. QED  BY <1>1, <1>2, <1>5, <1>7, <1>9, <1>10, <1>11 DEF Lists, S, I

LEMMA ItemPlace ==
    ASSUME NEW s, Has(s, Deck), NEW g, NEW k, NEW e \in Moves!Members(g, k)
    PROVE  /\ Moves!ItemsOf(s, g, k)[PlaceIn(Moves!ItemsOf(s, g, k), e)] = e
           /\ PlaceIn(Moves!ItemsOf(s, g, k), e)
                 = Cardinality({d \in Moves!Members(g, k) : PlaceIn(s, d) < PlaceIn(s, e)}) + 1
<1>. DEFINE S == Moves!Members(g, k)
            I == Moves!ItemsOf(s, g, k)
<1>1. /\ \A d \in S : PlaceIn(I, d) \in 1 .. Len(I) /\ I[PlaceIn(I, d)] = d
      /\ \A d \in S : PlaceIn(I, d) = Cardinality({f \in S : PlaceIn(s, f) < PlaceIn(s, d)}) + 1
  BY ItemsAre
<1>. QED  BY <1>1

LEMMA ItemsSome ==
    ASSUME NEW s, Has(s, Deck), NEW g, NEW k
    PROVE  Moves!ItemsOf(s, g, k) = <<>> \/ Len(Moves!ItemsOf(s, g, k)) > 0
<1>. DEFINE S == Moves!Members(g, k)
            I == Moves!ItemsOf(s, g, k)
<1>1. Cardinality(S) = Len(I) /\ Len(I) \in Nat
  BY ItemsAre
<1>2. I = Arranged(S, InPlace(S, s))
  BY MovesOwn DEF Moves!ItemsOf, AsIn, InPlace
<1>3. I = [i \in 1 .. Len(I) |-> I[i]]
  <2>. HIDE DEF S
  <2>. QED  BY <1>1, <1>2 DEF Arranged
<1>. HIDE DEF I
<1>. QED  BY <1>1, <1>3 DEF I

LEMMA SameItems ==
    ASSUME NEW s, NEW t, NEW g, NEW k,
           \A d, e \in Moves!Members(g, k) :
              PlaceIn(t, d) < PlaceIn(t, e) <=> PlaceIn(s, d) < PlaceIn(s, e)
    PROVE  Moves!ItemsOf(t, g, k) = Moves!ItemsOf(s, g, k)
<1>. DEFINE S == Moves!Members(g, k)
<1>1. Moves!ItemsOf(t, g, k) = Arranged(S, InPlace(S, t))
      /\ Moves!ItemsOf(s, g, k) = Arranged(S, InPlace(S, s))
  BY MovesOwn DEF Moves!ItemsOf, AsIn, InPlace
<1>. HIDE DEF S
<1>2. \A d, e \in S : <<d, e>> \in InPlace(S, t) <=> <<d, e>> \in InPlace(S, s)
  BY DEF InPlace, S
<1>. QED  BY <1>1, <1>2, SameArranged
\* A card that is dropped where it was not, or further up, is shown there.
LEMMA Lands ==
    ASSUME NEW s, Has(s, Deck), NEW g, NEW h, NEW k, NEW c \in Deck, OnlyOnce(s, c),
           NEW pos \in Nat, NEW rel,
           Moves!Members(h, k) = Moves!Members(g, k) \cup {c},
           LET I == Moves!ItemsOf(s, g, k) IN
              /\ pos <= Len(I)
              /\ c \in Moves!Members(g, k) => pos < PlaceIn(I, c) - 1
              /\ rel = [before |-> IF I # <<>> /\ pos = 0 THEN I[1] ELSE None,
                        after  |-> IF I # <<>> /\ pos > 0
                                   THEN I[IF pos < Len(I) THEN pos ELSE Len(I)] ELSE None]
    PROVE  Moves!ItemsOf(Moves!Put(s, c, rel), h, k)[pos + 1] = c
<1>. DEFINE S == Moves!Members(g, k)
            T == Moves!Members(h, k)
            I == Moves!ItemsOf(s, g, k)
            t == Moves!Put(s, c, rel)
            J == Moves!ItemsOf(t, h, k)
            Over == {d \in T : PlaceIn(t, d) < PlaceIn(t, c)}
<1>1. /\ S \subseteq Deck /\ IsFiniteSet(S) /\ Len(I) \in Nat
      /\ \A i \in 1 .. Len(I) : I[i] \in S /\ PlaceIn(I, I[i]) = i
      /\ \A e \in S : PlaceIn(I, e) \in 1 .. Len(I) /\ I[PlaceIn(I, e)] = e
      /\ \A d, e \in S : PlaceIn(I, d) < PlaceIn(I, e) <=> PlaceIn(s, d) < PlaceIn(s, e)
      /\ \A e \in S : PlaceIn(I, e) = Cardinality({d \in S : PlaceIn(s, d) < PlaceIn(s, e)}) + 1
  BY ItemsAre
<1>2. /\ pos <= Len(I) /\ T = S \cup {c}
      /\ c \in S => pos < PlaceIn(I, c) - 1
      /\ rel.before = IF I # <<>> /\ pos = 0 THEN I[1] ELSE None
      /\ rel.after = IF I # <<>> /\ pos > 0
                     THEN I[IF pos < Len(I) THEN pos ELSE Len(I)] ELSE None
  OBVIOUS
<1>3. I = <<>> \/ Len(I) > 0
  BY ItemsSome
<1>4. None \notin Deck
  BY DeckIs
<1>. HIDE DEF S, T, I
<1>5. I # <<>> => Len(I) > 0
  BY <1>3
<1>6. rel.before \in Deck \cup {None} /\ rel.after \in Deck \cup {None}
  BY <1>1, <1>2, <1>5
<1>7. Has(t, Deck)
  BY <1>4, <1>6, PutKeeps
<1>. HIDE DEF t
<1>8. ASSUME c \in T PROVE J[PlaceIn(J, c)] = c /\ PlaceIn(J, c) = Cardinality(Over) + 1
  BY <1>7, <1>8, ItemPlace DEF T
<1>. HIDE DEF J
<1>9. Cardinality(Over) = pos
  <2>1. \A d \in Over : d \in S /\ d # c /\ d \in Deck \ {c} /\ PlaceIn(t, d) < PlaceIn(t, c)
    <3>1. PlaceIn(t, c) \in Int
      BY <1>7, HasPlaces
    <3>2. ~(PlaceIn(t, c) < PlaceIn(t, c))
      BY <3>1
    <3>. QED  BY <1>1, <1>2, <3>2
  <2>2. CASE pos = 0
    <3>1. Over = {}
      <4>1. CASE I = <<>>
        <5>1. rel.after = None /\ rel.before = None
          BY <1>2, <4>1
        <5>. QED  BY <1>4, <2>1, <5>1, PutOnTop DEF t
      <4>2. CASE I # <<>>
        <5>1. 1 \in 1 .. Len(I) /\ rel.after = None /\ rel.before = I[1] /\ rel.before \in Deck
          BY <1>1, <1>2, <1>5, <2>2, <4>2
        <5>2. \A d \in Deck \ {c} : PlaceIn(t, d) < PlaceIn(t, c)
                                    => PlaceIn(s, d) < PlaceIn(s, rel.before)
          BY <1>4, <5>1, PutAhead DEF t
        <5>3. \A d \in S : ~(PlaceIn(s, d) < PlaceIn(s, I[1]))
          <6>1. \A d \in S : ~(PlaceIn(I, d) < PlaceIn(I, I[1]))
            BY <1>1, <5>1
          <6>. QED  BY <1>1, <5>1, <6>1
        <5>. QED  BY <2>1, <5>1, <5>2, <5>3
      <4>. QED  BY <4>1, <4>2
    <3>. QED  BY <2>2, <3>1, FS_EmptySet
  <2>3. CASE pos # 0
    <3>. DEFINE e == I[pos]
                Before == {d \in S : PlaceIn(s, d) < PlaceIn(s, e)}
    <3>1. pos \in 1 .. Len(I) /\ I # <<>> /\ rel.after = e
      <4>1. pos \in 1 .. Len(I)
        BY <1>1, <1>2, <2>3
      <4>2. I # <<>>
        BY <1>1, <4>1
      <4>. QED  BY <1>1, <1>2, <4>1, <4>2
    <3>2. e \in S /\ PlaceIn(I, e) = pos
      BY <1>1, <3>1
    <3>. HIDE DEF e
    <3>3. c \in S => ~(PlaceIn(s, c) < PlaceIn(s, e)) /\ c # e
      <4>1. ASSUME c \in S PROVE PlaceIn(I, c) > pos /\ PlaceIn(I, c) \in Int
        BY <1>1, <1>2, <4>1
      <4>. QED  BY <1>1, <3>2, <4>1
    <3>4. rel.after \in Deck \ {c} /\ e \in Deck \ {c}
      BY <1>1, <3>1, <3>2, <3>3
    <3>5. \A d \in Deck \ {c} : PlaceIn(t, d) < PlaceIn(t, c)
                                <=> d = e \/ PlaceIn(s, d) < PlaceIn(s, e)
      <4>1. \A i \in 1 .. Len(s) : (s[i] = c /\ i # PlaceIn(s, c)) => PlaceIn(s, rel.after) < i
        BY DEF OnlyOnce
      <4>. QED  BY <1>4, <1>6, <3>1, <3>4, <4>1, PutBehind DEF t
    <3>6. Over = Before \cup {e}
      <4>1. Over \subseteq Before \cup {e}
        BY <2>1, <3>5
      <4>2. \A d \in Before : d # c /\ d \in Deck \ {c}
        BY <1>1, <3>3
      <4>3. Before \subseteq Over /\ e \in Over
        BY <1>2, <3>2, <3>4, <3>5, <4>2
      <4>. QED  BY <4>1, <4>3
    <3>7. e \notin Before /\ IsFiniteSet(Before) /\ Cardinality(Before) \in Nat
          /\ pos = Cardinality(Before) + 1
      <4>1. PlaceIn(s, e) \in Int
        BY <3>4, HasPlaces
      <4>2. e \notin Before
        BY <4>1
      <4>3. IsFiniteSet(Before)
        BY <1>1, FS_Subset
      <4>. QED  BY <1>1, <3>2, <4>2, <4>3, FS_CardinalityType
    <3>. HIDE DEF Before, Over
    <3>. QED  BY <3>6, <3>7, FS_AddElement
  <2>. QED  BY <2>2, <2>3
<1>10. c \in T /\ PlaceIn(J, c) = pos + 1
  BY <1>2, <1>8, <1>9
<1>. QED  BY <1>8, <1>10 DEF J, t
LEMMA ColumnOfIs ==
    ASSUME NEW v \in Moves!Values
    PROVE  /\ Moves!ColumnOf(v) \in BoardColumns /\ v \in Moves!ToSet(Ids[Moves!ColumnOf(v)])
           /\ \A k \in BoardColumns : v \in Moves!ToSet(Ids[k]) => k = Moves!ColumnOf(v)
<1>1. PICK k \in BoardColumns : v \in Moves!ToSet(Ids[k])
  BY DEF Moves!Values
<1>2. /\ Moves!ColumnOf(v) \in BoardColumns /\ v \in Moves!ToSet(Ids[Moves!ColumnOf(v)])
  BY <1>1 DEF Moves!ColumnOf
<1>3. \A j, l \in BoardColumns : j = l \/ Moves!ToSet(Ids[j]) \cap Moves!ToSet(Ids[l]) = {}
  BY LayoutAssumption DEF LayoutAssumption, Moves!BoardMovesAssumption
<1>. QED  BY <1>2, <1>3

\* The neighbour above c in what a column shows.
Above(I, c) == IF Moves!At(I, c) > 1 THEN I[Moves!At(I, c) - 1] ELSE None

\* c taken back to where it was in o: below its neighbour of then, or to the top.
LEMMA Undone ==
    ASSUME NEW o, Has(o, Deck), NEW s, Has(s, Deck), NEW c \in Deck,
           SameOrder(s, o, Deck, c), Later(s, o, Deck, c),
           NEW g, g[c] \in Moves!Values, NEW k \in BoardColumns, NEW rel,
           rel.before = None,
           rel.after = Above(Moves!ItemsOf(o, g, Moves!ColumnOf(g[c])), c)
    PROVE  Moves!ItemsOf(Moves!Put(s, c, rel), g, k) = Moves!ItemsOf(o, g, k)
<1>. DEFINE S == Moves!Members(g, k)
            H == Moves!ColumnOf(g[c])
            I == Moves!ItemsOf(o, g, H)
            t == Moves!Put(s, c, rel)
<1>1. None \notin Deck /\ H \in BoardColumns /\ c \in Moves!Members(g, H)
      /\ (c \in S => k = H)
  BY DeckIs, ColumnOfIs DEF Moves!Members, Deck
<1>2. /\ S \subseteq Deck /\ Moves!Members(g, H) \subseteq Deck /\ Len(I) \in Nat
      /\ Moves!ToSet(I) = Moves!Members(g, H)
      /\ \A i \in 1 .. Len(I) : I[i] \in Moves!Members(g, H) /\ PlaceIn(I, I[i]) = i
      /\ \A e \in Moves!Members(g, H) : PlaceIn(I, e) \in 1 .. Len(I) /\ I[PlaceIn(I, e)] = e
      /\ \A d, e \in Moves!Members(g, H) :
            PlaceIn(I, d) < PlaceIn(I, e) <=> PlaceIn(o, d) < PlaceIn(o, e)
  <2>1. S \subseteq Deck
    BY DEF Moves!Members, Deck
  <2>. QED  BY <2>1, ItemsAre
<1>. HIDE DEF H, I
<1>. DEFINE i == PlaceIn(I, c)
            e == I[i - 1]
<1>3. i \in 1 .. Len(I) /\ I[i] = c /\ rel.after = IF i > 1 THEN e ELSE None
  <2>1. Moves!At(I, c) = i
    BY <1>1, <1>2, MovesOwn DEF Moves!At
  <2>2. rel.after = Above(I, c)
    BY DEF I, H
  <2>. QED  BY <1>1, <1>2, <2>1, <2>2 DEF Above
<1>4. i > 1 => /\ e \in Moves!Members(g, H) /\ PlaceIn(I, e) = i - 1
               /\ PlaceIn(o, e) < PlaceIn(o, c) /\ e \in Deck \ {c}
  <2>1. SUFFICES ASSUME i > 1
                 PROVE  /\ e \in Moves!Members(g, H) /\ PlaceIn(I, e) = i - 1
                        /\ PlaceIn(o, e) < PlaceIn(o, c) /\ e \in Deck \ {c}
    OBVIOUS
  <2>2. i - 1 \in 1 .. Len(I) /\ i - 1 # i /\ i - 1 < i
    BY <1>2, <1>3, <2>1
  <2>3. e \in Moves!Members(g, H) /\ PlaceIn(I, e) = i - 1
    BY <1>2, <2>2
  <2>. QED  BY <1>1, <1>2, <2>2, <2>3
<1>. HIDE DEF e
<1>5. rel.after \in Deck \cup {None}
  BY <1>3, <1>4
<1>6. Has(t, Deck) /\ SameOrder(t, s, Deck, c)
  BY <1>1, <1>5, PutKeeps
<1>. HIDE DEF S, t
<1>7. \A d, f \in Deck \ {c} : PlaceIn(t, d) < PlaceIn(t, f) <=> PlaceIn(o, d) < PlaceIn(o, f)
  BY <1>6 DEF SameOrder
<1>8. ASSUME c \in S, NEW d \in S \ {c}
      PROVE  PlaceIn(t, d) < PlaceIn(t, c) <=> PlaceIn(o, d) < PlaceIn(o, c)
  <2>1. /\ d \in Moves!Members(g, H) /\ d \in Deck \ {c}
        /\ PlaceIn(I, d) \in 1 .. Len(I) /\ PlaceIn(I, d) # i
        /\ (PlaceIn(o, d) < PlaceIn(o, c) <=> PlaceIn(I, d) < i)
    BY <1>1, <1>2, <1>3, <1>8 DEF S
  <2>2. CASE i > 1
    <3>1. \A j \in 1 .. Len(s) : (s[j] = c /\ j # PlaceIn(s, c)) => PlaceIn(s, e) < j
      BY <1>4, <2>2 DEF Later
    <3>2. PlaceIn(t, d) < PlaceIn(t, c) <=> d = e \/ PlaceIn(s, d) < PlaceIn(s, e)
      BY <1>1, <1>3, <1>4, <2>1, <2>2, <3>1, PutBehind DEF t
    <3>3. PlaceIn(s, d) < PlaceIn(s, e) <=> PlaceIn(o, d) < PlaceIn(o, e)
      BY <1>4, <2>1, <2>2 DEF SameOrder
    <3>4. PlaceIn(o, d) < PlaceIn(o, e) <=> PlaceIn(I, d) < i - 1
      BY <1>2, <1>4, <2>1, <2>2
    <3>5. d = e <=> PlaceIn(I, d) = i - 1
      <4>1. I[PlaceIn(I, d)] = d /\ I[PlaceIn(I, e)] = e
        BY <1>2, <1>4, <2>1, <2>2
      <4>. QED  BY <1>4, <2>2, <4>1
    <3>. QED  BY <1>2, <1>3, <2>1, <3>2, <3>3, <3>4, <3>5
  <2>3. CASE ~(i > 1)
    <3>1. rel.after = None
      BY <1>3, <2>3
    <3>2. ~(PlaceIn(t, d) < PlaceIn(t, c))
      BY <1>1, <2>1, <3>1, PutOnTop DEF t
    <3>. QED  BY <1>2, <1>3, <2>1, <2>3, <3>2
  <2>. QED  BY <2>2, <2>3
<1>9. ASSUME c \in S, NEW d \in S \ {c}
      PROVE  PlaceIn(t, c) < PlaceIn(t, d) <=> PlaceIn(o, c) < PlaceIn(o, d)
  <2>1. d \in Deck /\ d # c
    BY <1>2, <1>9 DEF S
  <2>2. /\ PlaceIn(t, c) \in Int /\ PlaceIn(t, d) \in Int /\ PlaceIn(t, c) # PlaceIn(t, d)
    BY <1>6, <2>1, HasPlaces
  <2>3. /\ PlaceIn(o, c) \in Int /\ PlaceIn(o, d) \in Int /\ PlaceIn(o, c) # PlaceIn(o, d)
    BY <2>1, HasPlaces
  <2>. QED  BY <1>8, <1>9, <2>2, <2>3
<1>10. ASSUME NEW d \in S, NEW f \in S
       PROVE  PlaceIn(t, d) < PlaceIn(t, f) <=> PlaceIn(o, d) < PlaceIn(o, f)
  <2>1. d \in Deck /\ f \in Deck
    BY <1>2 DEF S
  <2>2. CASE d = f
    <3>1. PlaceIn(t, d) \in Int /\ PlaceIn(o, d) \in Int
      BY <1>6, <2>1, HasPlaces
    <3>. QED  BY <2>2, <3>1
  <2>3. CASE d # f
    BY <1>7, <1>8, <1>9, <2>1, <2>3
  <2>. QED  BY <2>2, <2>3
<1>. QED  BY <1>10, SameItems DEF S, t

Neighbours == [before : Deck \cup {None}, after : Deck \cup {None}]
DropFields == [card : Deck, column : BoardColumns, rel : Neighbours, pos : Nat,
               stale : BOOLEAN, was : Moves!Values \cup {None}, calm : BOOLEAN]

\* A drop that nothing has come between knows its neighbour in the column as it is.
DropOK(d) ==
    /\ d.stale => d.was \in Moves!Values
    /\ d.calm => /\ d.rel = Moves!Relative(d.column, d.pos)
                 /\ d.pos <= Len(Moves!Items(d.column))

\* A save that is alone knows the board as it was in the order o, in which but for
\* its card all is as it is now.
Was(s, o) ==
    LET g == [group EXCEPT ![s.card] = s.value] IN
    /\ Has(o, Deck) /\ SameOrder(order, o, Deck, s.card) /\ Later(order, o, Deck, s.card)
    /\ s.before = [k \in BoardColumns |-> Moves!ItemsOf(o, g, k)]
    /\ s.back.after = Above(Moves!ItemsOf(o, g, Moves!ColumnOf(s.value)), s.card)

SendOK(s) ==
    /\ s.card \in Deck /\ s.to \in Moves!Values /\ s.value \in Moves!Values
    /\ s.back.before = None /\ s.back.after \in Deck \cup {None}
    /\ s.alone => \E o : Was(s, o)

PlaceTypes ==
    /\ Has(order, Deck)
    /\ group \in [Deck -> Moves!Values]
    /\ saved \in [Deck -> Moves!Values]
    /\ refresh # None => refresh.value \in [Deck -> Moves!Values]
    /\ drops \in Seq(DropFields)

DropsOK == \A i \in DOMAIN drops : DropOK(drops[i])
SendsOK == \A s \in sends : SendOK(s)

PlacesInv == BoardInv /\ PlaceTypes /\ DropsOK /\ SendsOK

LEMMA NotAloneIs ==
    ASSUME NEW B, NEW s \in SaveFields(B)
    PROVE  /\ Moves!NotAlone(s).back = s.back /\ ~Moves!NotAlone(s).alone
           /\ [Moves!NotAlone(s) EXCEPT !.stale = TRUE].back = s.back
           /\ [Moves!NotAlone(s) EXCEPT !.stale = TRUE].card = s.card
           /\ [Moves!NotAlone(s) EXCEPT !.stale = TRUE].to = s.to
           /\ [Moves!NotAlone(s) EXCEPT !.stale = TRUE].value = s.value
           /\ ~[Moves!NotAlone(s) EXCEPT !.stale = TRUE].alone
BY DEF Moves!NotAlone, SaveFields

\* What is alone no longer claims nothing of the board.
LEMMA LeftAlone ==
    ASSUME PlacesInv, NEW s \in sends
    PROVE  SendOK(Moves!NotAlone(s))' /\ SendOK([Moves!NotAlone(s) EXCEPT !.stale = TRUE])'
<1>1. PICK B : sends \subseteq SaveFields(B)
  BY DEF PlacesInv, BoardInv, BoardTypes
<1>. DEFINE t == Moves!NotAlone(s)
            u == [Moves!NotAlone(s) EXCEPT !.stale = TRUE]
<1>2. /\ t.card = s.card /\ t.to = s.to /\ t.value = s.value /\ t.back = s.back /\ ~t.alone
      /\ u.card = s.card /\ u.to = s.to /\ u.value = s.value /\ u.back = s.back /\ ~u.alone
  BY <1>1, NotAloneSame, NotAloneIs
<1>3. SendOK(s)
  BY DEF PlacesInv, SendsOK
<1>4. t' = t /\ u' = u
  BY DEF Moves!NotAlone
<1>. HIDE DEF t, u
<1>5. SendOK(t)' /\ SendOK(u)'
  BY <1>2, <1>3, <1>4 DEF SendOK
<1>. QED  BY <1>5 DEF t, u

LEMMA DisturbedIs ==
    ASSUME NEW ds \in Seq(DropFields)
    PROVE  /\ Moves!Disturbed(ds) \in Seq(DropFields) /\ DOMAIN Moves!Disturbed(ds) = DOMAIN ds
           /\ \A i \in DOMAIN ds : /\ Moves!Disturbed(ds)[i].stale = ds[i].stale
                                   /\ Moves!Disturbed(ds)[i].was = ds[i].was
                                   /\ ~Moves!Disturbed(ds)[i].calm
<1>1. \A i \in DOMAIN ds : ds[i] \in DropFields /\ DOMAIN ds = 1 .. Len(ds) /\ Len(ds) \in Nat
  OBVIOUS
<1>2. \A i \in DOMAIN ds : /\ [ds[i] EXCEPT !.calm = FALSE] \in DropFields
                           /\ [ds[i] EXCEPT !.calm = FALSE].stale = ds[i].stale
                           /\ [ds[i] EXCEPT !.calm = FALSE].was = ds[i].was
                           /\ [ds[i] EXCEPT !.calm = FALSE].calm = FALSE
  BY <1>1 DEF DropFields
<1>3. Moves!Disturbed(ds) = [i \in DOMAIN ds |-> [ds[i] EXCEPT !.calm = FALSE]]
  BY DEF Moves!Disturbed
<1>4. Moves!Disturbed(ds) \in Seq(DropFields)
  BY <1>2, <1>3
<1>. QED  BY <1>2, <1>3, <1>4

LEMMA RelativeIs ==
    ASSUME PlaceTypes, NEW k, NEW pos \in Nat, pos <= Len(Moves!Items(k))
    PROVE  Moves!Relative(k, pos) \in Neighbours
<1>. DEFINE I == Moves!Items(k)
<1>1. /\ Len(I) \in Nat /\ \A i \in 1 .. Len(I) : I[i] \in Deck
      /\ I # <<>> => Len(I) > 0
  <2>1. /\ Moves!Members(group, k) \subseteq Deck /\ Len(I) \in Nat
        /\ \A i \in 1 .. Len(I) : I[i] \in Moves!Members(group, k) /\ PlaceIn(I, I[i]) = i
    BY ItemsAre DEF PlaceTypes, Moves!Items
  <2>2. I = <<>> \/ Len(I) > 0
    BY ItemsSome DEF PlaceTypes, Moves!Items
  <2>. QED  BY <2>1, <2>2
<1>. HIDE DEF I
<1>2. /\ (I # <<>> /\ pos = 0) => I[1] \in Deck
      /\ (I # <<>> /\ pos > 0) => I[IF pos < Len(I) THEN pos ELSE Len(I)] \in Deck
  BY <1>1
<1>. QED  BY <1>2 DEF Moves!Relative, Neighbours, I

LEMMA RestoreIs ==
    ASSUME PlaceTypes, NEW c, NEW stale
    PROVE  /\ Moves!RestoreUpdates(c, stale).before = None
           /\ Moves!RestoreUpdates(c, stale).after \in Deck \cup {None}
           /\ ~stale => Moves!RestoreUpdates(c, stale).after
                           = Above(Moves!Items(Moves!ColumnOf(group[c])), c)
<1>. DEFINE I == Moves!Items(Moves!ColumnOf(group[c]))
            M == Moves!Members(group, Moves!ColumnOf(group[c]))
<1>1. /\ M \subseteq Deck /\ Moves!ToSet(I) = M /\ Len(I) \in Nat
      /\ \A i \in 1 .. Len(I) : I[i] \in M /\ PlaceIn(I, I[i]) = i
      /\ \A e \in M : PlaceIn(I, e) \in 1 .. Len(I) /\ I[PlaceIn(I, e)] = e
  BY ItemsAre DEF PlaceTypes, Moves!Items
<1>2. /\ Moves!RestoreUpdates(c, stale).before = None
      /\ Moves!RestoreUpdates(c, stale).after
            = IF ~stale /\ Moves!At(I, c) > 1 THEN I[Moves!At(I, c) - 1] ELSE None
  BY DEF Moves!RestoreUpdates
<1>. HIDE DEF I, M
<1>3. Moves!At(I, c) > 1 => I[Moves!At(I, c) - 1] \in Deck
  BY <1>1, MovesOwn DEF Moves!At
<1>. QED  BY <1>2, <1>3 DEF Above, I
LEMMA InitPlacesInv == Moves!Init => PlacesInv
<1>. SUFFICES ASSUME Moves!Init PROVE PlacesInv
  OBVIOUS
<1>1. /\ order = Loaded /\ group = Initially /\ saved = Initially /\ drops = <<>> /\ sends = {}
      /\ refresh = None
  BY DEF Moves!Init
<1>2. Initially \in [Deck -> Moves!Values]
  BY LayoutAssumption DEF LayoutAssumption, Moves!BoardMovesAssumption, Deck
<1>. QED  BY <1>1, <1>2, DeckIs, InitBoardInv DEF PlacesInv, PlaceTypes, DropsOK, SendsOK

\* While order and properties stay, what is known of them stays true.
LEMMA StillKnown ==
    ASSUME order' = order, group' = group
    PROVE  /\ \A d : DropOK(d)' <=> DropOK(d)
           /\ \A s : SendOK(s)' <=> SendOK(s)
<1>1. \A k : Moves!Items(k)' = Moves!Items(k)
  BY DEF Moves!Items
<1>2. \A k, pos : Moves!Relative(k, pos)' = Moves!Relative(k, pos)
  BY <1>1 DEF Moves!Relative
<1>3. \A d : DropOK(d)' <=> DropOK(d)
  BY <1>1, <1>2 DEF DropOK
<1>4. \A s, o : Was(s, o)' <=> Was(s, o)
  BY DEF Was
<1>. QED  BY <1>3, <1>4 DEF SendOK

LEMMA DropPlaces ==
    ASSUME PlacesInv, NEW c \in Moves!Cards, NEW k \in BoardColumns, NEW pos \in 0 .. Len(Loaded),
           Moves!Drop(c, k, pos)
    PROVE  PlaceTypes' /\ DropsOK' /\ SendsOK'
<1>. DEFINE d == [card |-> c, column |-> k, rel |-> Moves!Relative(k, pos), pos |-> pos,
                  stale |-> FALSE, was |-> None, calm |-> TRUE]
<1>1. /\ drops' = Append(drops, d) /\ pos <= Len(Moves!Items(k)) /\ order' = order /\ group' = group
      /\ saved' = saved /\ sends' = sends /\ refresh' = refresh
  BY DEF Moves!Drop
<1>2. pos \in Nat
  BY DeckIs
<1>3. Moves!Relative(k, pos) \in Neighbours
  BY <1>1, <1>2, RelativeIs DEF PlacesInv
<1>4. d \in DropFields
  BY <1>2, <1>3 DEF DropFields, Deck
<1>5. DropOK(d)
  BY <1>1 DEF DropOK
<1>. HIDE DEF d
<1>6. drops \in Seq(DropFields) /\ \A i \in DOMAIN drops : DropOK(drops[i])
  BY DEF PlacesInv, PlaceTypes, DropsOK
<1>7. drops' \in Seq(DropFields) /\ \A i \in DOMAIN drops' : DropOK(drops'[i])
  <2>1. /\ drops' \in Seq(DropFields)
        /\ \A i \in DOMAIN drops' : drops'[i] = d \/ (i \in DOMAIN drops /\ drops'[i] = drops[i])
    BY <1>1, <1>4, <1>6
  <2>. QED  BY <1>5, <1>6, <2>1
<1>8. PlaceTypes'
  BY <1>1, <1>7 DEF PlacesInv, PlaceTypes
<1>9. DropsOK'
  <2>1. ASSUME NEW i \in DOMAIN drops' PROVE DropOK(drops[i])'
    <3>1. PICK e : e = drops'[i]
      OBVIOUS
    <3>2. DropOK(e)'
      BY <1>1, <1>7, <2>1, <3>1, StillKnown
    <3>. QED  BY <3>1, <3>2 DEF DropOK
  <2>. QED  BY <2>1 DEF DropsOK
<1>10. SendsOK'
  BY <1>1, StillKnown DEF PlacesInv, SendsOK
<1>. QED  BY <1>8, <1>9, <1>10

LEMMA StartPlaces ==
    ASSUME PlacesInv, Moves!Start
    PROVE  PlaceTypes' /\ DropsOK' /\ SendsOK'
<1>. DEFINE d  == Head(drops)
            c  == d.card
            v  == Head(Ids[d.column])
            s0 == [card |-> c, to |-> v, back |-> Moves!RestoreUpdates(c, d.stale),
                   value |-> IF d.stale THEN d.was ELSE group[c], stale |-> d.stale,
                   step |-> "sent", alone |-> Moves!Alone(d),
                   before |-> IF Moves!Alone(d) THEN Moves!Board ELSE None]
<1>1. /\ drops # <<>> /\ order' = Moves!Put(order, c, d.rel) /\ group' = [group EXCEPT ![c] = v]
      /\ sends' = {Moves!NotAlone(s) : s \in sends} \cup {s0}
      /\ refresh' = IF refresh = None THEN None ELSE [refresh EXCEPT !.clean = @ \ {c}]
      /\ saved' = saved /\ drops' = Moves!Disturbed(Tail(drops))
  BY DEF Moves!Start
<1>2. /\ s0.card = c /\ s0.to = v /\ s0.back = Moves!RestoreUpdates(c, d.stale)
      /\ s0.value = IF d.stale THEN d.was ELSE group[c]
      /\ s0.alone = Moves!Alone(d)
      /\ s0.before = IF Moves!Alone(d) THEN Moves!Board ELSE None
  OBVIOUS
<1>. HIDE DEF s0
<1>3. drops \in Seq(DropFields) /\ \A i \in DOMAIN drops : DropOK(drops[i])
  BY DEF PlacesInv, PlaceTypes, DropsOK
<1>4. d \in DropFields /\ DropOK(d)
  <2>1. 1 \in DOMAIN drops /\ d = drops[1] /\ drops[1] \in DropFields
    BY <1>1, <1>3
  <2>. QED  BY <1>3, <2>1
<1>5. c \in Deck /\ v \in Moves!Values /\ d.rel.after \in Deck \cup {None}
      /\ d.rel.before \in Deck \cup {None} /\ s0.value \in Moves!Values
  <2>1. c \in Deck /\ d.column \in BoardColumns /\ d.rel \in Neighbours
    BY <1>4 DEF DropFields
  <2>2. Ids[d.column] \in Seq(Moves!Values) \ {<<>>}
    BY <2>1, LayoutAssumption DEF LayoutAssumption, Moves!BoardMovesAssumption
  <2>3. v \in Moves!Values
    BY <2>2
  <2>4. s0.value \in Moves!Values
    BY <1>2, <1>4, <2>1 DEF DropOK, PlacesInv, PlaceTypes
  <2>. QED  BY <2>1, <2>3, <2>4 DEF Neighbours
<1>. HIDE DEF d, v
<1>6. /\ Has(order', Deck) /\ SameOrder(order', order, Deck, c)
      /\ OnlyOnce(order, c) => Later(order', order, Deck, c)
  <2>. DEFINE rel == d.rel
  <2>1. Has(order, Deck) /\ None \notin Deck
    BY DeckIs DEF PlacesInv, PlaceTypes
  <2>2. rel.after \in Deck \cup {None} /\ rel.before \in Deck \cup {None}
    BY <1>5
  <2>3. order' = Moves!Put(order, c, rel) /\ c \in Deck
    BY <1>1, <1>5
  <2>. HIDE DEF rel
  <2>. QED  BY <2>1, <2>2, <2>3, PutKeeps
<1>7. PlaceTypes'
  <2>1. group' \in [Deck -> Moves!Values]
    BY <1>1, <1>5 DEF PlacesInv, PlaceTypes
  <2>2. refresh' # None => refresh'.value \in [Deck -> Moves!Values]
    BY <1>1 DEF PlacesInv, PlaceTypes, BoardInv, BoardTypes
  <2>3. Tail(drops) \in Seq(DropFields)
    BY <1>1, <1>3
  <2>. QED  BY <1>1, <1>6, <2>1, <2>2, <2>3, DisturbedIs DEF PlacesInv, PlaceTypes
<1>8. ASSUME NEW i \in DOMAIN drops' PROVE DropOK(drops[i])'
  <2>1. Tail(drops) \in Seq(DropFields) /\ \A j \in DOMAIN Tail(drops) :
            j + 1 \in DOMAIN drops /\ Tail(drops)[j] = drops[j + 1]
    BY <1>1, <1>3
  <2>2. /\ i \in DOMAIN Tail(drops) /\ ~drops'[i].calm
        /\ drops'[i].stale = Tail(drops)[i].stale /\ drops'[i].was = Tail(drops)[i].was
    BY <1>1, <1>8, <2>1, DisturbedIs
  <2>3. drops'[i].stale => drops'[i].was \in Moves!Values
    BY <1>3, <2>1, <2>2 DEF DropOK
  <2>. QED  BY <2>2, <2>3 DEF DropOK
<1>9. PICK s1, o : s1 = s0 /\ o = order
  OBVIOUS
<1>10. ASSUME s1.alone PROVE Was(s1, o)'
  <2>1. Moves!Alone(d)
    BY <1>2, <1>9, <1>10
  <2>2. ~d.stale /\ Len(order) = Len(Loaded)
    BY <2>1 DEF Moves!Alone
  <2>3. Has(order, Deck)
    BY DEF PlacesInv, PlaceTypes
  <2>4. OnlyOnce(order, c)
    BY <1>5, <2>2, <2>3, NoneTwice
  <2>5. [group' EXCEPT ![s1.card] = s1.value] = group
    BY <1>1, <1>2, <1>5, <1>9, <2>2 DEF PlacesInv, PlaceTypes
  <2>6. s1.before = [k \in BoardColumns |-> Moves!ItemsOf(o, group, k)]
    BY <1>2, <1>9, <2>1 DEF Moves!Board, Moves!Items
  <2>7. s1.back.after = Above(Moves!ItemsOf(o, group, Moves!ColumnOf(s1.value)), s1.card)
    <3>1. s1.value = group[c]
      BY <1>2, <1>9, <2>2
    <3>2. Moves!RestoreUpdates(c, d.stale).after
             = Above(Moves!Items(Moves!ColumnOf(group[c])), c)
      BY <2>2, RestoreIs DEF PlacesInv
    <3>. QED  BY <1>2, <1>9, <3>1, <3>2 DEF Moves!Items
  <2>8. s1.card = c
    BY <1>2, <1>9
  <2>9. Has(o, Deck) /\ SameOrder(order', o, Deck, s1.card) /\ Later(order', o, Deck, s1.card)
    BY <1>6, <1>9, <2>3, <2>4, <2>8
  <2>. QED  BY <2>5, <2>6, <2>7, <2>9 DEF Was
<1>11. SendOK(s1)'
  <2>1. /\ Moves!RestoreUpdates(c, d.stale).before = None
        /\ Moves!RestoreUpdates(c, d.stale).after \in Deck \cup {None}
    BY RestoreIs DEF PlacesInv
  <2>2. /\ s1.card \in Deck /\ s1.to \in Moves!Values /\ s1.value \in Moves!Values
        /\ s1.back.before = None /\ s1.back.after \in Deck \cup {None}
    BY <1>2, <1>5, <1>9, <2>1
  <2>. QED  BY <1>10, <2>2 DEF SendOK
<1>12. ASSUME NEW s \in sends' PROVE SendOK(s)'
  <2>1. CASE s = s1
    BY <1>11, <2>1
  <2>2. CASE s # s1
    <3>1. PICK t \in sends : s = Moves!NotAlone(t)
      BY <1>1, <1>9, <2>2
    <3>. QED  BY <3>1, LeftAlone
  <2>. QED  BY <2>1, <2>2
<1>. QED  BY <1>7, <1>8, <1>12 DEF DropsOK, SendsOK
LEMMA DropsStillKnown ==
    ASSUME DropsOK, order' = order, group' = group, drops' = drops
    PROVE  DropsOK'
<1>1. ASSUME NEW i \in DOMAIN drops' PROVE DropOK(drops[i])'
  <2>1. PICK e : e = drops[i] /\ e = drops'[i]
    OBVIOUS
  <2>2. DropOK(e)'
    BY <1>1, <2>1, StillKnown DEF DropsOK
  <2>. QED  BY <2>1, <2>2 DEF DropOK
<1>. QED  BY <1>1 DEF DropsOK

LEMMA DisturbedOK ==
    ASSUME drops \in Seq(DropFields), DropsOK, drops' = Moves!Disturbed(drops)
    PROVE  DropsOK'
<1>1. ASSUME NEW i \in DOMAIN drops' PROVE ~drops'[i].calm /\ (drops'[i].stale => drops'[i].was \in Moves!Values)
  <2>1. /\ i \in DOMAIN drops /\ ~drops'[i].calm
        /\ drops'[i].stale = drops[i].stale /\ drops'[i].was = drops[i].was
    BY <1>1, DisturbedIs
  <2>. QED  BY <2>1 DEF DropsOK, DropOK
<1>. QED  BY <1>1 DEF DropsOK, DropOK

LEMMA SavePlaces ==
    ASSUME PlacesInv, NEW s \in sends, NEW ok \in BOOLEAN, Moves!Save(s, ok)
    PROVE  PlaceTypes' /\ DropsOK' /\ SendsOK'
<1>1. PICK t : t = [s EXCEPT !.step = IF ok THEN "saved" ELSE "refused"]
  OBVIOUS
<1>2. PICK B : sends \subseteq SaveFields(B)
  BY DEF PlacesInv, BoardInv, BoardTypes
<1>3. /\ t.card = s.card /\ t.to = s.to /\ t.value = s.value /\ t.back = s.back
      /\ t.alone = s.alone /\ t.before = s.before
  BY <1>1, <1>2 DEF SaveFields
<1>4. /\ sends' = (sends \ {s}) \cup {t} /\ order' = order /\ group' = group /\ drops' = drops
      /\ refresh' = refresh
      /\ saved' = IF ok THEN [saved EXCEPT ![s.card] = s.to] ELSE saved
  BY <1>1 DEF Moves!Save
<1>5. SendOK(s)
  BY DEF PlacesInv, SendsOK
<1>6. SendOK(t)
  <2>1. \A o : Was(s, o) => Was(t, o)
    BY <1>3 DEF Was
  <2>. QED  BY <1>3, <1>5, <2>1 DEF SendOK
<1>7. PlaceTypes'
  <2>1. saved' \in [Deck -> Moves!Values]
    BY <1>4, <1>5 DEF PlacesInv, PlaceTypes, SendOK
  <2>. QED  BY <1>4, <2>1 DEF PlacesInv, PlaceTypes
<1>8. SendsOK'
  <2>1. \A u \in sends' : SendOK(u)
    BY <1>4, <1>6 DEF PlacesInv, SendsOK
  <2>. QED  BY <1>4, <2>1, StillKnown DEF SendsOK
<1>. QED  BY <1>4, <1>7, <1>8, DropsStillKnown DEF PlacesInv

LEMMA FailurePlaces ==
    ASSUME PlacesInv, NEW s \in sends, Moves!Failure(s)
    PROVE  PlaceTypes' /\ DropsOK' /\ SendsOK'
<1>1. /\ order' = Moves!Put(order, s.card, s.back) /\ group' = [group EXCEPT ![s.card] = s.value]
      /\ sends' = {Moves!NotAlone(t) : t \in sends \ {s}} /\ drops' = Moves!Disturbed(drops)
      /\ saved' = saved /\ refresh' = refresh
  BY DEF Moves!Failure
<1>2. SendOK(s)
  BY DEF PlacesInv, SendsOK
<1>3. Has(order', Deck)
  <2>. DEFINE rel == s.back
              c == s.card
  <2>1. /\ Has(order, Deck) /\ None \notin Deck /\ c \in Deck
        /\ rel.after \in Deck \cup {None} /\ rel.before \in Deck \cup {None}
        /\ order' = Moves!Put(order, c, rel)
    BY <1>1, <1>2, DeckIs DEF PlacesInv, PlaceTypes, SendOK
  <2>. HIDE DEF rel, c
  <2>. QED  BY <2>1, PutKeeps
<1>4. PlaceTypes'
  <2>1. group' \in [Deck -> Moves!Values]
    BY <1>1, <1>2 DEF PlacesInv, PlaceTypes, SendOK
  <2>. QED  BY <1>1, <1>3, <2>1, DisturbedIs DEF PlacesInv, PlaceTypes
<1>5. SendsOK'
  BY <1>1, LeftAlone DEF SendsOK
<1>. QED  BY <1>1, <1>4, <1>5, DisturbedOK DEF PlacesInv, PlaceTypes

LEMMA BringPlaces ==
    ASSUME PlacesInv, Moves!BringRefresh
    PROVE  PlaceTypes' /\ DropsOK' /\ SendsOK'
<1>. DEFINE brought(i) == [Moves!Disturbed(drops)[i] EXCEPT
                              !.stale = TRUE,
                              !.was = IF drops[i].stale THEN @ ELSE group[drops[i].card]]
<1>1. /\ refresh # None /\ order' = Loaded /\ group' = refresh.value /\ saved' = saved
      /\ refresh' = None
  BY Zenon DEF Moves!BringRefresh
<1>2. sends' = {[Moves!NotAlone(s) EXCEPT !.stale = TRUE] : s \in sends}
  BY Zenon DEF Moves!BringRefresh
<1>3. drops' = [i \in DOMAIN drops |-> brought(i)]
  BY Zenon DEF Moves!BringRefresh
<1>4. drops \in Seq(DropFields) /\ DropsOK /\ group \in [Deck -> Moves!Values]
  BY DEF PlacesInv, PlaceTypes
<1>5. ASSUME NEW i \in DOMAIN drops
      PROVE  brought(i) \in DropFields /\ brought(i).was \in Moves!Values /\ ~brought(i).calm
  <2>. DEFINE d == drops[i]
              e == Moves!Disturbed(drops)[i]
  <2>1. d \in DropFields /\ (d.stale => d.was \in Moves!Values)
    BY <1>4 DEF DropsOK, DropOK
  <2>2. e \in DropFields /\ e.was = d.was /\ ~e.calm
    BY <1>4, DisturbedIs
  <2>3. brought(i) = [e EXCEPT !.stale = TRUE, !.was = IF d.stale THEN e.was ELSE group[d.card]]
    OBVIOUS
  <2>. HIDE DEF d, e, brought
  <2>4. (IF d.stale THEN e.was ELSE group[d.card]) \in Moves!Values
    BY <1>4, <2>1, <2>2 DEF DropFields
  <2>. QED  BY <2>2, <2>3, <2>4 DEF DropFields
<1>. HIDE DEF brought
<1>6. PlaceTypes'
  <2>1. drops' \in Seq(DropFields)
    BY <1>3, <1>4, <1>5
  <2>. QED  BY <1>1, <2>1, DeckIs DEF PlacesInv, PlaceTypes
<1>7. DropsOK'
  <2>1. ASSUME NEW i \in DOMAIN drops' PROVE drops'[i].was \in Moves!Values /\ ~drops'[i].calm
    BY <1>3, <1>5, <2>1
  <2>. QED  BY <2>1 DEF DropsOK, DropOK
<1>8. SendsOK'
  BY <1>2, LeftAlone DEF SendsOK
<1>. QED  BY <1>6, <1>7, <1>8

LEMMA NextPlacesInv == PlacesInv /\ [Moves!Next]_(Moves!vars) => PlacesInv'
<1>. SUFFICES ASSUME PlacesInv, [Moves!Next]_(Moves!vars)
              PROVE  PlaceTypes' /\ DropsOK' /\ SendsOK'
  BY NextBoardInv DEF PlacesInv
<1>1. ASSUME UNCHANGED <<order, group, saved, drops>>, sends' \subseteq sends,
             refresh' # None => refresh'.value \in [Deck -> Moves!Values]
      PROVE  PlaceTypes' /\ DropsOK' /\ SendsOK'
  <2>1. PlaceTypes'
    BY <1>1 DEF PlacesInv, PlaceTypes
  <2>2. SendsOK'
    BY <1>1, StillKnown DEF PlacesInv, SendsOK
  <2>. QED  BY <1>1, <2>1, <2>2, DropsStillKnown DEF PlacesInv
<1>2. refresh # None => refresh.value \in [Deck -> Moves!Values]
  BY DEF PlacesInv, PlaceTypes
<1>3. CASE \E c \in Moves!Cards, k \in BoardColumns, pos \in 0 .. Len(Loaded) : Moves!Drop(c, k, pos)
  BY <1>3, DropPlaces
<1>4. CASE \E s \in sends : Moves!Success(s)
  BY <1>1, <1>2, <1>4 DEF Moves!Success
<1>5. CASE \E c \in Moves!Cards : Moves!CloseMessage(c)
  BY <1>1, <1>2, <1>5 DEF Moves!CloseMessage
<1>6. CASE Moves!ReadRefresh
  BY <1>1, <1>6 DEF Moves!ReadRefresh, PlacesInv, PlaceTypes
<1>7. CASE UNCHANGED Moves!vars
  BY <1>1, <1>2, <1>7 DEF Moves!vars
<1>. QED
  BY <1>3, <1>4, <1>5, <1>6, <1>7, StartPlaces, SavePlaces, FailurePlaces, BringPlaces
  DEF Moves!Next
LEMMA LandsStep ==
    ASSUME PlacesInv, NEW d \in Moves!ToSet(drops), Moves!Start, d = Head(drops), d.calm,
           Len(order) = Len(Loaded),
           LET i == Moves!At(Moves!Items(d.column), d.card) IN i = 0 \/ d.pos < i - 1
    PROVE  Moves!Items(d.column)'[d.pos + 1] = d.card
<1>. DEFINE c   == d.card
            k   == d.column
            rel == d.rel
            pos == d.pos
            I   == Moves!ItemsOf(order, group, k)
            v   == Head(Ids[k])
            h   == [group EXCEPT ![c] = v]
<1>1. drops # <<>> /\ order' = Moves!Put(order, c, rel) /\ group' = h
  BY DEF Moves!Start
<1>2. c \in Deck /\ k \in BoardColumns /\ pos \in Nat /\ DropOK(d)
  <2>1. drops \in Seq(DropFields) /\ DropsOK
    BY DEF PlacesInv, PlaceTypes
  <2>2. 1 \in DOMAIN drops /\ d = drops[1]
    BY <1>1, <2>1
  <2>3. d \in DropFields
    BY <2>1, <2>2
  <2>. QED  BY <2>1, <2>2, <2>3 DEF DropFields, DropsOK
<1>3. Has(order, Deck) /\ group \in [Deck -> Moves!Values]
  BY DEF PlacesInv, PlaceTypes
<1>4. OnlyOnce(order, c)
  BY <1>2, <1>3, NoneTwice
<1>5. /\ pos <= Len(I)
      /\ rel = [before |-> IF I # <<>> /\ pos = 0 THEN I[1] ELSE None,
                after  |-> IF I # <<>> /\ pos > 0
                           THEN I[IF pos < Len(I) THEN pos ELSE Len(I)] ELSE None]
  BY <1>2 DEF DropOK, Moves!Relative, Moves!Items
<1>6. ASSUME c \in Moves!Members(group, k) PROVE pos < PlaceIn(I, c) - 1
  <2>. DEFINE S == Moves!Members(group, k)
  <2>1. /\ Moves!ToSet(I) = S /\ Len(I) \in Nat
        /\ \A e \in S : PlaceIn(I, e) \in 1 .. Len(I) /\ I[PlaceIn(I, e)] = e
    BY <1>3, ItemsAre
  <2>2. Moves!At(I, c) = PlaceIn(I, c) /\ PlaceIn(I, c) # 0
    BY <1>6, <2>1, MovesOwn DEF Moves!At
  <2>3. Moves!At(I, c) = 0 \/ pos < Moves!At(I, c) - 1
    BY DEF Moves!Items
  <2>. QED  BY <2>2, <2>3
<1>7. Moves!Members(h, k) = Moves!Members(group, k) \cup {c}
  <2>1. v \in Moves!ToSet(Ids[k])
    <3>1. Ids[k] \in Seq(Moves!Values) \ {<<>>}
      BY <1>2, LayoutAssumption DEF LayoutAssumption, Moves!BoardMovesAssumption
    <3>2. 1 \in DOMAIN Ids[k] /\ v = Ids[k][1]
      BY <3>1
    <3>. QED  BY <3>2 DEF Moves!ToSet
  <2>. HIDE DEF v
  <2>2. \A e \in Deck : h[e] = IF e = c THEN v ELSE group[e]
    BY <1>2, <1>3
  <2>. HIDE DEF h
  <2>. QED  BY <1>2, <2>1, <2>2 DEF Moves!Members, Deck
<1>8. Moves!Items(k)' = Moves!ItemsOf(Moves!Put(order, c, rel), h, k)
  BY <1>1 DEF Moves!Items
<1>. HIDE DEF c, k, rel, pos, h
<1>9. Moves!ItemsOf(Moves!Put(order, c, rel), h, k)[pos + 1] = c
  BY <1>2, <1>3, <1>4, <1>5, <1>6, <1>7, Lands
<1>. QED  BY <1>8, <1>9 DEF c, k, pos

\* A card moved from another column, or up in its own, is shown where it was
\* dropped, if nothing came between the drop and its handler and no card is in the
\* order twice: for any cards, columns, moves, refusals and refreshes.
THEOREM DropsCorrect == Moves!Spec => LandsWhereDropped
<1>1. PlacesInv /\ [Moves!Next]_(Moves!vars)
         => [\A d \in Moves!ToSet(drops) :
                (/\ Moves!Start /\ d = Head(drops) /\ d.calm
                 /\ Len(order) = Len(Loaded)
                 /\ LET i == Moves!At(Moves!Items(d.column), d.card) IN i = 0 \/ d.pos < i - 1)
                => Moves!Items(d.column)'[d.pos + 1] = d.card]_(Moves!vars)
  BY LandsStep
<1>. QED  BY <1>1, InitPlacesInv, NextPlacesInv, PTL
          DEF Moves!Spec, LandsWhereDropped, Moves!LandsWhereDropped

LEMMA UndoneStep ==
    ASSUME PlacesInv, NEW s \in sends, Moves!Failure(s), s.alone
    PROVE  Moves!Board' = s.before
<1>1. order' = Moves!Put(order, s.card, s.back) /\ group' = [group EXCEPT ![s.card] = s.value]
  BY DEF Moves!Failure
<1>2. SendOK(s) /\ Has(order, Deck) /\ group \in [Deck -> Moves!Values]
  BY DEF PlacesInv, PlaceTypes, SendsOK
<1>3. PICK o : Was(s, o)
  BY <1>2 DEF SendOK
<1>. DEFINE c   == s.card
            g   == [group EXCEPT ![c] = s.value]
            rel == s.back
<1>4. /\ c \in Deck /\ g[c] = s.value /\ g[c] \in Moves!Values /\ rel.before = None
  BY <1>2 DEF SendOK
<1>5. /\ Has(o, Deck) /\ SameOrder(order, o, Deck, c) /\ Later(order, o, Deck, c)
      /\ s.before = [k \in BoardColumns |-> Moves!ItemsOf(o, g, k)]
      /\ rel.after = Above(Moves!ItemsOf(o, g, Moves!ColumnOf(g[c])), c)
  BY <1>3, <1>4 DEF Was
<1>6. Moves!Board' = [k \in BoardColumns |-> Moves!ItemsOf(Moves!Put(order, c, rel), g, k)]
  BY <1>1 DEF Moves!Board, Moves!Items
<1>. HIDE DEF c, g, rel
<1>7. \A k \in BoardColumns : Moves!ItemsOf(Moves!Put(order, c, rel), g, k) = Moves!ItemsOf(o, g, k)
  BY <1>2, <1>4, <1>5, Undone
<1>. QED  BY <1>5, <1>6, <1>7

\* A refused move that was alone on the board is undone to the letter, also if a card
\* was added to the order a second time: for any cards, columns and moves.
THEOREM UndoCorrect == Moves!Spec => FailedMoveIsUndone
<1>1. PlacesInv /\ [Moves!Next]_(Moves!vars)
         => [\A s \in sends : (Moves!Failure(s) /\ s.alone) => Moves!Board' = s.before]_(Moves!vars)
  BY UndoneStep
<1>. QED  BY <1>1, InitPlacesInv, NextPlacesInv, PTL
          DEF Moves!Spec, FailedMoveIsUndone, Moves!FailedMoveIsUndone

=============================================================================

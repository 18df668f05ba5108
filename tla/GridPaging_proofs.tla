------------------------- MODULE GridPaging_proofs -------------------------
(***************************************************************************)
(* Safety of paging, of its three parts in turn.  The grid, for every      *)
(* number of requests in flight, every set of page sizes, every number of  *)
(* records and of ajax actions, with and without one-page pagination: the  *)
(* inductive invariant IInv adds to the properties what they rest on, that *)
(* the state copied by a page-size change is as good as the current one    *)
(* and that the models waiting to be destroyed are among the rows shown.   *)
(* The server's pager and the client's window of pages, for every page,    *)
(* size and number of results.  The toolbars, for any number of them, of   *)
(* queries and of requests, by the inductive invariant BarInv.             *)
(***************************************************************************)
EXTENDS MCPaging, FiniteSetTheorems, TLAPS

(***************************************************************************)
(* The number of pages is a natural number, and positive as soon as there  *)
(* is a record.                                                            *)
(***************************************************************************)
LEMMA CeilDivType ==
    ASSUME NEW a \in Nat, NEW b \in Nat, b > 0
    PROVE  /\ CeilDiv(a, b) \in Nat
           /\ a > 0 => CeilDiv(a, b) >= 1
<1>. DEFINE q == (a + b - 1) \div b
            r == (a + b - 1) % b
<1>1. q \in Int /\ r \in 0..(b - 1) /\ a + b - 1 = b * q + r
  OBVIOUS
<1>2. q >= 0
  <2>1. SUFFICES ASSUME q <= -1 PROVE FALSE
    BY <1>1
  <2>2. b * q <= -b
    BY <1>1, <2>1
  <2>. QED  BY <1>1, <2>2
<1>3. ASSUME a > 0 PROVE q >= 1
  <2>1. SUFFICES ASSUME q = 0 PROVE FALSE
    BY <1>1, <1>2
  <2>2. b * q = 0
    BY <2>1
  <2>. QED  BY <1>1, <1>3, <2>2
<1>. QED  BY <1>1, <1>2, <1>3 DEF CeilDiv

(***************************************************************************)
(* A fine state has a page of at least 1, or no total yet.  On such a      *)
(* state _checkState does not raise, and whenever it does not it leaves    *)
(* one of the kind.                                                        *)
(***************************************************************************)
Fine(s) == s.currentPage >= FirstPage \/ s.totalRecords = Unknown

THEOREM CheckStateSafe ==
    ASSUME NEW s \in PageStates
    PROVE  /\ CheckState(s) \in PageStates
           /\ Fine(s) => ~RaisesRangeError(s)
           /\ ~RaisesRangeError(s) => Fine(CheckState(s))
<1>. USE DEF PageStates, FirstPage, Unknown, Fine
<1>1. CASE s.totalRecords = Unknown
  BY <1>1 DEF CheckState, RaisesRangeError
<1>2. CASE s.totalRecords \in Nat
  <2>1. /\ SizeOf(s) \in Nat /\ AskedOf(s) \in Nat
        /\ s.currentPage >= 1 => AskedOf(s) >= 1
    BY <1>2 DEF SizeOf, AskedOf
  <2>2. /\ PagesOf(s) \in Nat \cup {Unknown}
        /\ SizeOf(s) > 0 => /\ PagesOf(s) \in Nat
                            /\ s.totalRecords > 0 => PagesOf(s) >= 1
    <3>1. CASE SizeOf(s) = 0
      BY <2>1, <3>1 DEF PagesOf
    <3>2. CASE SizeOf(s) > 0
      <4>1. PagesOf(s) = CeilDiv(s.totalRecords, SizeOf(s))
        BY <2>1, <3>2 DEF PagesOf
      <4>. QED  BY <1>2, <2>1, <3>2, <4>1, CeilDivType
    <3>. QED  BY <2>1, <3>1, <3>2
  <2>3. PageOf(s) \in Nat /\ (s.currentPage >= 1 => PageOf(s) >= 1)
    BY <1>2, <2>1, <2>2 DEF PageOf
  <2>4. PagesOf(s) > 0 => PageOf(s) <= PagesOf(s)
    BY <1>2, <2>1, <2>2 DEF PageOf
  <2>5. PagesOf(s) <= 0 => PageOf(s) = 1
    BY <1>2, <2>1, <2>2 DEF PageOf
  <2>6. s.currentPage >= 1 => ~RaisesRangeError(s)
    BY <2>2, <2>3, <2>4, <2>5 DEF RaisesRangeError
  <2>7. CheckState(s) \in PageStates
    BY <1>2, <2>1, <2>2, <2>3 DEF CheckState
  <2>8. CheckState(s).currentPage = PageOf(s)
    BY <1>2 DEF CheckState
  <2>9. ~RaisesRangeError(s) => PageOf(s) >= 1
    BY <1>2, <2>2, <2>3 DEF RaisesRangeError
  <2>. QED  BY <1>2, <2>6, <2>7, <2>8, <2>9
<1>. QED  BY <1>1, <1>2

-----------------------------------------------------------------------------

PagesOK ==
    Intact => /\ Fine(state)
              /\ \A i \in Ids : requests[i].kind = "size" => Fine(requests[i].from)

AttachedOK == Cardinality(Attached) <= rows.count

AjaxOK == ajax <= MaxAjax /\ (MaxAjax = 0 => RequestsAreMasked)

IInv == /\ TypeOK
        /\ PagesOK
        /\ AttachedOK
        /\ CountsRequests
        /\ MaskHasOwner
        /\ AjaxOK

(***************************************************************************)
(* Types of the building blocks.                                           *)
(***************************************************************************)
LEMMA NoStateType == NoState \in PageStates
BY DEF NoState, PageStates

LEMMA IdleType == Idle \in Requests /\ Idle.kind = "fetch" /\ ~Idle.attached
BY NoStateType DEF Idle, Requests, Phases, Kinds

LEMMA AnsweredType ==
    ASSUME NEW page, NEW size, NEW n \in Nat
    PROVE  Answered(page, size, n) \in Nat
<1>. DEFINE R == RowsReturned(VisitDatasource(OnePage, DefaultPageSize, page, size, n), n)
<1>1. IsFiniteSet(1..n)
  BY FS_Interval
<1>2. R \subseteq 1..n
  BY DEF RowsReturned
<1>3. IsFiniteSet(R)
  BY <1>1, <1>2, FS_Subset
<1>. QED  BY <1>3, FS_CardinalityType DEF Answered

(***************************************************************************)
(* What SendFetch and HoldFetch do to the state and the slots.             *)
(***************************************************************************)
LEMMA CalledType ==
    ASSUME NEW i \in Ids, NEW kind \in Kinds, NEW from \in PageStates
    PROVE  /\ Called(i, kind, from) \in Requests
           /\ Called(i, kind, from).kind = kind
           /\ Called(i, kind, from).from = from
           /\ Called(i, kind, from).phase = "waiting"
           /\ ~Called(i, kind, from).attached
<1>1. Alone(i) \in BOOLEAN
  BY DEF Alone
<1>. QED  BY <1>1, IdleType DEF Called, Requests, Phases, Idle

LEMMA SentType ==
    ASSUME NEW r \in Requests, NEW st \in PageStates
    PROVE  /\ Sent(r, st) \in Requests
           /\ Sent(r, st).kind = r.kind
           /\ Sent(r, st).from = r.from
           /\ Sent(r, st).phase = "sent"
           /\ Sent(r, st).attached = r.attached
<1>1. CheckState(st).currentPage \in Nat /\ CheckState(st).pageSize \in Nat
  BY CheckStateSafe DEF PageStates
<1>. QED  BY <1>1 DEF Sent, Requests, Phases

LEMMA DisturbedType ==
    ASSUME requests \in [Ids -> Requests]
    PROVE  /\ Disturbed \in [Ids -> Requests]
           /\ \A j \in Ids : /\ Disturbed[j].kind = requests[j].kind
                             /\ Disturbed[j].from = requests[j].from
                             /\ Disturbed[j].phase = requests[j].phase
                             /\ Disturbed[j].attached = requests[j].attached
BY DEF Disturbed, Requests

LEMMA SendFetchEffect ==
    ASSUME TypeOK, PagesOK, Intact, NEW i \in Ids, NEW kind \in Kinds, NEW from \in PageStates,
           kind = "size" => Fine(from),
           NEW st \in PageStates, Fine(st),
           SendFetch(i, kind, from, st)
    PROVE  /\ state' \in PageStates
           /\ requests' \in [Ids -> Requests]
           /\ PagesOK'
           /\ InFlight' = InFlight \cup {i}
           /\ Attached' = Attached \ {i}
<1>. DEFINE r == Sent(Called(i, kind, from), st)
<1>1. /\ r \in Requests /\ r.kind = kind /\ r.from = from
      /\ r.phase = "sent" /\ ~r.attached
  BY CalledType, SentType
<1>2. requests' = [Disturbed EXCEPT ![i] = r]
  BY DEF SendFetch
<1>3. requests' \in [Ids -> Requests]
  BY <1>1, <1>2, DisturbedType DEF TypeOK
<1>4. state' \in PageStates /\ Fine(state')
  BY CheckStateSafe DEF SendFetch
<1>5. /\ requests'[i] = r
      /\ \A j \in Ids \ {i} : /\ requests'[j].kind = requests[j].kind
                              /\ requests'[j].from = requests[j].from
                              /\ requests'[j].phase = requests[j].phase
                              /\ requests'[j].attached = requests[j].attached
  BY <1>2, DisturbedType DEF TypeOK
<1>6. \A j \in Ids : requests'[j].kind = "size" => Fine(requests'[j].from)
  BY <1>1, <1>5 DEF PagesOK
<1>7. InFlight' = InFlight \cup {i}
  BY <1>1, <1>5 DEF InFlight
<1>8. Attached' = Attached \ {i}
  BY <1>1, <1>5 DEF Attached
<1>. QED  BY <1>3, <1>4, <1>6, <1>7, <1>8 DEF PagesOK

LEMMA HoldFetchEffect ==
    ASSUME TypeOK, PagesOK, Intact, NEW i \in Ids, NEW kind \in Kinds, NEW from \in PageStates,
           kind = "size" => Fine(from),
           NEW st \in PageStates, Fine(st),
           HoldFetch(i, kind, from, st)
    PROVE  /\ state' \in PageStates
           /\ requests' \in [Ids -> Requests]
           /\ PagesOK'
           /\ InFlight' = InFlight \ {i}
           /\ Attached' = Attached \ {i}
<1>. DEFINE r == Called(i, kind, from)
<1>1. /\ r \in Requests /\ r.kind = kind /\ r.from = from
      /\ r.phase = "waiting" /\ ~r.attached
  BY CalledType
<1>2. requests' = [Disturbed EXCEPT ![i] = r]
  BY DEF HoldFetch
<1>3. requests' \in [Ids -> Requests]
  BY <1>1, <1>2, DisturbedType DEF TypeOK
<1>4. /\ requests'[i] = r
      /\ \A j \in Ids \ {i} : /\ requests'[j].kind = requests[j].kind
                              /\ requests'[j].from = requests[j].from
                              /\ requests'[j].phase = requests[j].phase
                              /\ requests'[j].attached = requests[j].attached
  BY <1>2, DisturbedType DEF TypeOK
<1>5. \A j \in Ids : requests'[j].kind = "size" => Fine(requests'[j].from)
  BY <1>1, <1>4 DEF PagesOK
<1>6. InFlight' = InFlight \ {i}
  BY <1>1, <1>4 DEF InFlight
<1>7. Attached' = Attached \ {i}
  BY <1>1, <1>4 DEF Attached
<1>. QED  BY <1>3, <1>5, <1>6, <1>7 DEF HoldFetch, PagesOK

(***************************************************************************)
(* Counting.                                                               *)
(***************************************************************************)
LEMMA Finite == IsFiniteSet(InFlight) /\ IsFiniteSet(Attached)
BY FS_Subset, GridPagingAssumption DEF InFlight, Attached

LEMMA AttachedShrinks ==
    ASSUME AttachedOK, rows.count \in Nat, rows'.count \in Nat, rows'.count >= rows.count,
           Attached' \subseteq Attached
    PROVE  AttachedOK'
<1>1. /\ Cardinality(Attached') <= Cardinality(Attached)
      /\ Cardinality(Attached') \in Nat /\ Cardinality(Attached) \in Nat
  BY Finite, FS_Subset, FS_CardinalityType
<1>. QED  BY <1>1 DEF AttachedOK

LEMMA CountUp ==
    ASSUME CountsRequests, NEW i \in Ids, i \notin InFlight,
           InFlight' = InFlight \cup {i}, BeforeRequest
    PROVE  CountsRequests' /\ MaskHasOwner' /\ RequestsAreMasked'
<1>1. /\ Cardinality(InFlight') = Cardinality(InFlight) + 1
      /\ Cardinality(InFlight) \in Nat
  BY Finite, FS_AddElement, FS_CardinalityType
<1>. QED  BY <1>1 DEF CountsRequests, BeforeRequest, MaskHasOwner, RequestsAreMasked

LEMMA CountDown ==
    ASSUME CountsRequests, MaskHasOwner, NEW i \in InFlight, InFlight' = InFlight \ {i},
           AfterRequest, ajax' = ajax
    PROVE  /\ CountsRequests' /\ MaskHasOwner'
           /\ RequestsAreMasked => RequestsAreMasked'
<1>1. /\ Cardinality(InFlight') = Cardinality(InFlight) - 1
      /\ Cardinality(InFlight) \in Nat
      /\ Cardinality(InFlight') \in Nat
  BY Finite, FS_RemoveElement, FS_CardinalityType
<1>. QED
  BY <1>1 DEF CountsRequests, AfterRequest, MaskHasOwner, RequestsAreMasked

LEMMA AfterRequestType ==
    ASSUME TypeOK, AfterRequest
    PROVE  requestsCount' \in Int /\ loading' \in BOOLEAN
<1>1. requestsCount' \in Int
  BY DEF TypeOK, AfterRequest
<1>2. loading' \in BOOLEAN
  BY Zenon DEF TypeOK, AfterRequest
<1>. QED  BY <1>1, <1>2

LEMMA RenderedType ==
    ASSUME TypeOK, loading' \in BOOLEAN, state' \in PageStates, Rendered
    PROVE  widgets' \in Widgets
<1>. DEFINE known == state'.totalRecords = Unknown
            on == ~loading' /\ state'.totalRecords > 0
            pager == IF known THEN widgets.pager ELSE on
<1>1. widgets' = [pager |-> pager, size |-> on]
  BY Zenon DEF Rendered, Render
<1>2. widgets.pager \in BOOLEAN
  BY DEF TypeOK, Widgets
<1>3. on \in BOOLEAN
  BY Zenon
<1>4. pager \in BOOLEAN
  BY <1>2, <1>3, Zenon
<1>. HIDE DEF on, pager
<1>. QED  BY <1>1, <1>3, <1>4, Zenon DEF Widgets

LEMMA BeforeRequestType ==
    ASSUME TypeOK, state' \in PageStates, BeforeRequest
    PROVE  requestsCount' \in Int /\ loading' \in BOOLEAN /\ widgets' \in Widgets
<1>1. requestsCount' \in Int /\ loading' \in BOOLEAN
  BY DEF TypeOK, BeforeRequest
<1>. QED  BY <1>1, RenderedType DEF BeforeRequest

LEMMA AfterFailureType ==
    ASSUME TypeOK, state' \in PageStates, AfterFailure
    PROVE  requestsCount' \in Int /\ loading' \in BOOLEAN /\ widgets' \in Widgets
<1>1. requestsCount' \in Int /\ loading' \in BOOLEAN
  BY AfterRequestType DEF AfterFailure
<1>2. widgets' \in Widgets
  <2>1. CASE Rendered
    BY <1>1, <2>1, RenderedType
  <2>2. CASE UNCHANGED widgets
    BY <2>2 DEF TypeOK
  <2>. QED  BY <2>1, <2>2 DEF AfterFailure
<1>. QED  BY <1>1, <1>2

(***************************************************************************)
(* The step common to every handler that calls fetch.                      *)
(***************************************************************************)
LEMMA FetchStep ==
    ASSUME IInv, Intact, NEW i \in Ids, NEW kind \in Kinds, NEW from \in PageStates,
           kind = "size" => Fine(from),
           NEW st \in PageStates, Fine(st),
           NEW held \in BOOLEAN, Fetch(i, kind, from, st, held)
    PROVE  IInv'
<1>1. UNCHANGED <<rows, total, ajax>> /\ requests[i].phase = "idle"
  BY DEF Fetch
<1>2. i \notin InFlight
  BY <1>1 DEF InFlight
<1>3. CASE held
  <2>1. HoldFetch(i, kind, from, st) /\ UNCHANGED <<requestsCount, loading, widgets>>
    BY <1>3 DEF Fetch
  <2>2. /\ state' \in PageStates /\ requests' \in [Ids -> Requests] /\ PagesOK'
        /\ InFlight' = InFlight /\ Attached' \subseteq Attached
    BY <1>2, <2>1, HoldFetchEffect DEF IInv
  <2>3. TypeOK'
    BY <1>1, <2>1, <2>2 DEF IInv, TypeOK
  <2>4. AttachedOK'
    BY <1>1, <2>2, AttachedShrinks DEF IInv, TypeOK
  <2>. QED
    BY <1>1, <2>1, <2>2, <2>3, <2>4
    DEF IInv, CountsRequests, MaskHasOwner, RequestsAreMasked, AjaxOK
<1>4. CASE ~held
  <2>1. SendFetch(i, kind, from, st) /\ BeforeRequest
    BY <1>4 DEF Fetch
  <2>2. /\ state' \in PageStates /\ requests' \in [Ids -> Requests] /\ PagesOK'
        /\ InFlight' = InFlight \cup {i} /\ Attached' \subseteq Attached
    BY <2>1, SendFetchEffect DEF IInv
  <2>3. TypeOK'
    BY <1>1, <2>1, <2>2, BeforeRequestType DEF IInv, TypeOK
  <2>4. AttachedOK'
    BY <1>1, <2>2, AttachedShrinks DEF IInv, TypeOK
  <2>5. CountsRequests' /\ MaskHasOwner' /\ RequestsAreMasked'
    BY <1>2, <2>1, <2>2, CountUp DEF IInv
  <2>. QED  BY <1>1, <2>2, <2>3, <2>4, <2>5 DEF IInv, AjaxOK
<1>. QED  BY <1>3, <1>4

(***************************************************************************)
(* The initial state.                                                      *)
(***************************************************************************)
LEMMA InitIInv == Init => IInv
<1>. SUFFICES ASSUME Init PROVE IInv
  OBVIOUS
<1>1. PICK n \in 0..MaxTotal, p \in 1..(MaxTotal + 1) :
        /\ total = n
        /\ rows = [page |-> p, size |-> DefaultPageSize,
                   count |-> Answered(p, DefaultPageSize, n)]
        /\ state = CheckState([totalRecords |-> n, pageSize |-> DefaultPageSize,
                               currentPage |-> p, totalPages |-> Unknown,
                               lastPage |-> Unknown])
  BY DEF Init
<1>2. requests = [i \in Ids |-> Idle] /\ requestsCount = 0 /\ loading = FALSE /\ ajax = 0
  BY DEF Init
<1>3. n \in Nat /\ p \in Nat /\ p >= 1 /\ DefaultPageSize \in Nat
  BY GridPagingAssumption
<1>. DEFINE s == [totalRecords |-> n, pageSize |-> DefaultPageSize, currentPage |-> p,
                  totalPages |-> Unknown, lastPage |-> Unknown]
<1>4. s \in PageStates /\ Fine(s)
  BY <1>3 DEF PageStates, FirstPage, Fine
<1>5. state \in PageStates /\ Fine(state)
  BY <1>1, <1>4, CheckStateSafe
<1>11. widgets \in Widgets
  <2>. DEFINE some == total > 0
  <2>1. widgets = [pager |-> some, size |-> some]
    BY DEF Init
  <2>2. some \in BOOLEAN
    OBVIOUS
  <2>. HIDE DEF some
  <2>. QED  BY <2>1, <2>2 DEF Widgets
<1>6. TypeOK
  <2>1. rows \in [page : Nat, size : Nat, count : Nat]
    BY <1>1, <1>3, AnsweredType
  <2>2. requests \in [Ids -> Requests]
    BY <1>2, IdleType
  <2>3. total \in Nat /\ requestsCount \in Int /\ ajax \in Nat
    BY <1>1, <1>2, <1>3
  <2>4. loading \in BOOLEAN
    BY <1>2, Zenon
  <2>. QED  BY <1>5, <1>11, <2>1, <2>2, <2>3, <2>4 DEF TypeOK
<1>7. PagesOK
  BY <1>2, <1>5, IdleType DEF PagesOK
<1>8. InFlight = {} /\ Attached = {}
  BY <1>2 DEF InFlight, Attached, Idle
<1>9. AttachedOK /\ CountsRequests
  BY <1>2, <1>6, <1>8, FS_EmptySet DEF AttachedOK, CountsRequests, TypeOK
<1>10. MaskHasOwner /\ AjaxOK
  BY <1>2, GridPagingAssumption DEF MaskHasOwner, AjaxOK, RequestsAreMasked
<1>. QED  BY <1>6, <1>7, <1>9, <1>10 DEF IInv

(***************************************************************************)
(* The steps, one lemma for each group of actions.                         *)
(***************************************************************************)
LEMMA UserStepIInv ==
    ASSUME IInv, Intact, NEW i \in Ids, UserStep(i)
    PROVE  IInv'
<1>. state \in PageStates /\ Fine(state)
  BY DEF IInv, TypeOK, PagesOK
<1>1. ASSUME NEW n \in 0..MaxTotal, NEW held \in BOOLEAN, UserGetsPage(i, n, held)
      PROVE  IInv'
  <2>. DEFINE st == [state EXCEPT !.currentPage = n]
  <2>1. st \in PageStates /\ Fine(st)
    <3>1. n \in Choices
      BY <1>1 DEF UserGetsPage
    <3>. QED  BY <1>1, <3>1, GridPagingAssumption DEF Choices, PageStates, FirstPage, Fine, Unknown
  <2>2. CheckState(st) \in PageStates /\ Fine(CheckState(st))
    BY <2>1, CheckStateSafe
  <2>3. Fetch(i, "fetch", NoState, CheckState(st), held)
    BY <1>1 DEF UserGetsPage
  <2>. QED  BY <2>2, <2>3, FetchStep, NoStateType DEF Kinds
<1>2. ASSUME NEW n \in PageSizes, NEW held \in BOOLEAN, UserSetsPageSize(i, n, held)
      PROVE  IInv'
  <2>. DEFINE st == [state EXCEPT !.pageSize = n]
  <2>1. st \in PageStates /\ Fine(st)
    BY GridPagingAssumption DEF PageStates, Fine
  <2>2. CheckState(st) \in PageStates /\ Fine(CheckState(st))
    BY <2>1, CheckStateSafe
  <2>3. Fetch(i, "size", state, CheckState(st), held)
    BY <1>2 DEF UserSetsPageSize
  <2>. QED  BY <2>2, <2>3, FetchStep DEF Kinds
<1>3. ASSUME Confirm(i) PROVE IInv'
  <2>. DEFINE r == Sent(requests[i], state)
  <2>1. /\ requests[i].phase = "waiting" /\ state' = CheckState(state)
        /\ requests' = [requests EXCEPT ![i] = r]
        /\ BeforeRequest /\ UNCHANGED <<rows, total, ajax>>
    BY <1>3 DEF Confirm
  <2>2. requests[i] \in Requests
    BY DEF IInv, TypeOK
  <2>3. /\ r \in Requests /\ r.kind = requests[i].kind /\ r.from = requests[i].from
        /\ r.phase = "sent" /\ r.attached = requests[i].attached
    BY <2>2, SentType
  <2>4. state' \in PageStates /\ Fine(state')
    BY <2>1, CheckStateSafe
  <2>5. /\ requests' \in [Ids -> Requests] /\ requests'[i] = r
        /\ \A j \in Ids \ {i} : requests'[j] = requests[j]
    BY <2>1, <2>3 DEF IInv, TypeOK
  <2>6. TypeOK'
    BY <2>1, <2>4, <2>5, BeforeRequestType DEF IInv, TypeOK
  <2>7. PagesOK'
    BY <2>3, <2>4, <2>5 DEF IInv, PagesOK
  <2>8. InFlight' = InFlight \cup {i} /\ i \notin InFlight /\ Attached' \subseteq Attached
    BY <2>1, <2>3, <2>5 DEF InFlight, Attached
  <2>9. AttachedOK'
    BY <2>1, <2>8, AttachedShrinks DEF IInv, TypeOK
  <2>10. CountsRequests' /\ MaskHasOwner' /\ RequestsAreMasked'
    BY <2>1, <2>8, CountUp DEF IInv
  <2>. QED  BY <2>1, <2>6, <2>7, <2>9, <2>10 DEF IInv, AjaxOK
<1>4. ASSUME Cancel(i) PROVE IInv'
  <2>1. /\ requests[i].phase = "waiting" /\ state' = Reverted(requests[i])
        /\ requests' = [requests EXCEPT ![i] = Idle]
        /\ UNCHANGED <<rows, total, requestsCount, loading, widgets, ajax>>
    BY <1>4 DEF Cancel
  <2>2. /\ requests' \in [Ids -> Requests] /\ requests'[i] = Idle
        /\ \A j \in Ids \ {i} : requests'[j] = requests[j]
    BY <2>1, IdleType DEF IInv, TypeOK
  <2>3. requests[i].from \in PageStates
    BY DEF IInv, TypeOK, Requests
  <2>4. state' \in PageStates /\ Fine(state')
    BY <2>1, <2>3, CheckStateSafe DEF Reverted, IInv, PagesOK
  <2>5. TypeOK' /\ PagesOK'
    BY <2>1, <2>2, <2>4, IdleType DEF IInv, TypeOK, PagesOK
  <2>6. InFlight' = InFlight /\ Attached' \subseteq Attached
    BY <2>1, <2>2 DEF InFlight, Attached, Idle
  <2>7. AttachedOK'
    BY <2>1, <2>6, AttachedShrinks DEF IInv, TypeOK
  <2>. QED
    BY <2>1, <2>5, <2>6, <2>7 DEF IInv, CountsRequests, MaskHasOwner, RequestsAreMasked, AjaxOK
<1>5. ASSUME DestroyRow(i) PROVE IInv'
  <2>. DEFINE r == [Idle EXCEPT !.phase = "sent", !.kind = "destroy", !.attached = TRUE]
  <2>1. /\ requests[i].phase = "idle" /\ rows.count > Cardinality(Attached)
        /\ requests' = [requests EXCEPT ![i] = r]
        /\ BeforeRequest /\ UNCHANGED <<state, rows, total, ajax>>
    BY <1>5 DEF DestroyRow
  <2>2. r \in Requests /\ r.phase = "sent" /\ r.kind = "destroy"
    BY IdleType DEF Requests, Phases, Kinds, Idle
  <2>3. /\ requests' \in [Ids -> Requests] /\ requests'[i] = r
        /\ \A j \in Ids \ {i} : requests'[j] = requests[j]
    BY <2>1, <2>2 DEF IInv, TypeOK
  <2>4. TypeOK' /\ PagesOK'
    <3>1. TypeOK'
      BY <2>1, <2>2, <2>3, BeforeRequestType DEF IInv, TypeOK
    <3>2. PagesOK'
      BY <2>1, <2>2, <2>3 DEF IInv, PagesOK
    <3>. QED  BY <3>1, <3>2
  <2>5. InFlight' = InFlight \cup {i} /\ i \notin InFlight /\ Attached' \subseteq Attached \cup {i}
    BY <2>1, <2>2, <2>3 DEF InFlight, Attached
  <2>6. /\ Cardinality(Attached') <= Cardinality(Attached \cup {i})
        /\ Cardinality(Attached \cup {i}) <= Cardinality(Attached) + 1
        /\ Cardinality(Attached) \in Nat /\ Cardinality(Attached') \in Nat
        /\ Cardinality(Attached \cup {i}) \in Nat
    <3>1. IsFiniteSet(Attached \cup {i})
      BY Finite, FS_AddElement
    <3>2. IsFiniteSet(Attached') /\ Cardinality(Attached') <= Cardinality(Attached \cup {i})
      BY <2>5, <3>1, FS_Subset
    <3>3. Cardinality(Attached \cup {i}) <= Cardinality(Attached) + 1
      <4>1. Cardinality(Attached) \in Nat
        BY Finite, FS_CardinalityType
      <4>2. CASE i \in Attached
        <5>1. Attached \cup {i} = Attached
          BY <4>2
        <5>2. Cardinality(Attached \cup {i}) = Cardinality(Attached)
          BY <5>1, Zenon
        <5>. QED  BY <4>1, <5>2
      <4>3. CASE i \notin Attached
        <5>1. Cardinality(Attached \cup {i}) = Cardinality(Attached) + 1
          BY <4>3, Finite, FS_AddElement
        <5>. QED  BY <4>1, <5>1
      <4>. QED  BY <4>2, <4>3
    <3>. QED  BY <3>1, <3>2, <3>3, Finite, FS_CardinalityType
  <2>7. AttachedOK'
    BY <2>1, <2>6 DEF AttachedOK, IInv, TypeOK
  <2>8. CountsRequests' /\ MaskHasOwner' /\ RequestsAreMasked'
    BY <2>1, <2>5, CountUp DEF IInv
  <2>. QED  BY <2>1, <2>4, <2>7, <2>8 DEF IInv, AjaxOK
<1>. QED  BY <1>1, <1>2, <1>3, <1>4, <1>5 DEF UserStep

LEMMA RefreshStepIInv ==
    ASSUME IInv, Intact, NEW i \in Ids, RefreshStep(i)
    PROVE  IInv'
<1>1. PICK held \in BOOLEAN : Refresh(i, held) \/ Reset(i, held)
  BY DEF RefreshStep
<1>2. CASE Refresh(i, held)
  BY <1>2, FetchStep, NoStateType DEF Refresh, Kinds, IInv, TypeOK, PagesOK
<1>3. CASE Reset(i, held)
  <2>1. InitialState \in PageStates /\ Fine(InitialState)
    BY GridPagingAssumption DEF InitialState, PageStates, FirstPage, Fine
  <2>2. CheckState(InitialState) \in PageStates /\ Fine(CheckState(InitialState))
    BY <2>1, CheckStateSafe
  <2>. QED  BY <1>3, <2>2, FetchStep, NoStateType DEF Reset, Kinds
<1>. QED  BY <1>1, <1>2, <1>3

LEMMA AnswerStepIInv ==
    ASSUME IInv, Intact, NEW i \in Ids, AnswerStep(i)
    PROVE  IInv'
<1>. state \in PageStates /\ Fine(state)
  BY DEF IInv, TypeOK, PagesOK
<1>. requests[i] \in Requests
  BY DEF IInv, TypeOK
<1>1. ASSUME FetchSucceeds(i) PROVE IInv'
  <2>. DEFINE st == Counted(i)
  <2>1. /\ requests[i].phase = "answered" /\ state' = CheckState(st) /\ ~RaisesRangeError(st)
        /\ rows' = [page |-> requests[i].page, size |-> requests[i].size,
                    count |-> requests[i].count]
        /\ requests' = AfterReset(i) /\ AfterRequest /\ Rendered /\ UNCHANGED <<total, ajax>>
    BY <1>1 DEF FetchSucceeds
  <2>2. st \in PageStates
    BY DEF Counted, PageStates, Requests
  <2>3. state' \in PageStates /\ Fine(state')
    BY <2>1, <2>2, CheckStateSafe
  <2>4. /\ requests'[i] = Idle
        /\ \A j \in Ids \ {i} : requests'[j] = [requests[j] EXCEPT !.attached = FALSE]
    BY <2>1 DEF AfterReset
  <2>5. \A j \in Ids \ {i} : /\ requests'[j] \in Requests
                             /\ requests'[j].kind = requests[j].kind
                             /\ requests'[j].from = requests[j].from
                             /\ requests'[j].phase = requests[j].phase
                             /\ ~requests'[j].attached
    <3>. SUFFICES ASSUME NEW j \in Ids \ {i}
         PROVE  /\ requests'[j] \in Requests
                /\ requests'[j].kind = requests[j].kind
                /\ requests'[j].from = requests[j].from
                /\ requests'[j].phase = requests[j].phase
                /\ ~requests'[j].attached
      OBVIOUS
    <3>1. requests[j] \in Requests
      BY DEF IInv, TypeOK
    <3>2. requests'[j] = [requests[j] EXCEPT !.attached = FALSE]
      BY <2>4
    <3>. QED  BY <3>1, <3>2 DEF Requests
  <2>6. requests' \in [Ids -> Requests]
    BY <2>1, <2>4, <2>5, IdleType DEF AfterReset
  <2>7. rows' \in [page : Nat, size : Nat, count : Nat]
    BY <2>1 DEF Requests
  <2>8. TypeOK'
    BY <2>1, <2>3, <2>6, <2>7, AfterRequestType, RenderedType DEF IInv, TypeOK
  <2>9. PagesOK'
    BY <2>3, <2>4, <2>5, IdleType DEF IInv, PagesOK
  <2>10. i \in InFlight /\ InFlight' = InFlight \ {i} /\ Attached' = {}
    BY <2>1, <2>4, <2>5, IdleType DEF InFlight, Attached, Idle
  <2>11. AttachedOK'
    BY <2>7, <2>10, FS_EmptySet DEF AttachedOK
  <2>. QED
    BY <2>1, <2>8, <2>9, <2>10, <2>11, CountDown DEF IInv, AjaxOK
<1>2. ASSUME RequestFails(i) PROVE IInv'
  <2>1. /\ i \in InFlight /\ state' = Reverted(requests[i])
        /\ requests' = [requests EXCEPT ![i] = Idle]
        /\ AfterFailure /\ AfterRequest /\ UNCHANGED <<rows, total, ajax>>
    BY <1>2 DEF RequestFails, AfterFailure
  <2>2. /\ requests' \in [Ids -> Requests] /\ requests'[i] = Idle
        /\ \A j \in Ids \ {i} : requests'[j] = requests[j]
    BY <2>1, IdleType DEF IInv, TypeOK
  <2>3. requests[i].from \in PageStates
    BY DEF Requests
  <2>4. state' \in PageStates /\ Fine(state')
    BY <2>1, <2>3, CheckStateSafe DEF Reverted, IInv, PagesOK
  <2>5. TypeOK'
    BY <2>1, <2>2, <2>4, AfterFailureType DEF IInv, TypeOK
  <2>6. PagesOK'
    BY <2>2, <2>4, IdleType DEF IInv, PagesOK
  <2>7. InFlight' = InFlight \ {i} /\ Attached' \subseteq Attached
    BY <2>2 DEF InFlight, Attached, Idle
  <2>8. AttachedOK'
    BY <2>1, <2>7, AttachedShrinks DEF IInv, TypeOK
  <2>. QED  BY <2>1, <2>5, <2>6, <2>7, <2>8, CountDown DEF IInv, AjaxOK
<1>3. ASSUME NEW held \in BOOLEAN, RowDestroyed(i, held) PROVE IInv'
  <2>. DEFINE st == [state EXCEPT !.totalRecords = IF @ > 0 THEN @ - 1 ELSE @]
  <2>1. /\ requests[i].phase = "answered" /\ requests[i].attached
        /\ rows' = [rows EXCEPT !.count = @ - 1] /\ Rendered /\ UNCHANGED <<total, ajax>>
    BY <1>3 DEF RowDestroyed
  <2>2. st \in PageStates /\ Fine(st)
    BY DEF PageStates, Unknown, Fine
  <2>3. i \in InFlight /\ i \in Attached
    BY <2>1 DEF InFlight, Attached
  <2>4. /\ Cardinality(Attached \ {i}) = Cardinality(Attached) - 1
        /\ Cardinality(Attached \ {i}) \in Nat /\ Cardinality(Attached) \in Nat
    BY <2>3, Finite, FS_RemoveElement, FS_CardinalityType
  <2>5. /\ rows' \in [page : Nat, size : Nat, count : Nat]
        /\ Cardinality(Attached \ {i}) <= rows'.count
    BY <2>1, <2>4 DEF IInv, AttachedOK, TypeOK
  <2>6. CASE held
    <3>1. HoldFetch(i, "fetch", NoState, st) /\ AfterRequest
      BY <1>3, <2>6 DEF RowDestroyed
    <3>2. /\ state' \in PageStates /\ requests' \in [Ids -> Requests] /\ PagesOK'
          /\ InFlight' = InFlight \ {i} /\ Attached' = Attached \ {i}
      BY <2>2, <3>1, HoldFetchEffect, NoStateType DEF IInv, Kinds
    <3>3. TypeOK'
      BY <2>1, <2>5, <3>1, <3>2, AfterRequestType, RenderedType DEF IInv, TypeOK
    <3>4. AttachedOK'
      BY <2>5, <3>2 DEF AttachedOK
    <3>. QED  BY <2>1, <2>3, <3>1, <3>2, <3>3, <3>4, CountDown DEF IInv, AjaxOK
  <2>7. CASE ~held
    <3>1. SendFetch(i, "fetch", NoState, st) /\ loading' = TRUE /\ UNCHANGED requestsCount
      BY <1>3, <2>7 DEF RowDestroyed
    <3>2. /\ state' \in PageStates /\ requests' \in [Ids -> Requests] /\ PagesOK'
          /\ InFlight' = InFlight \cup {i} /\ Attached' = Attached \ {i}
      BY <2>2, <3>1, SendFetchEffect, NoStateType DEF IInv, Kinds
    <3>3. TypeOK'
      BY <2>1, <2>5, <3>1, <3>2, RenderedType DEF IInv, TypeOK
    <3>4. AttachedOK'
      BY <2>5, <3>2 DEF AttachedOK
    <3>5. requestsCount' > 0 /\ CountsRequests'
      <4>1. Cardinality(InFlight) \in Nat /\ Cardinality(InFlight) # 0
        BY <2>3, Finite, FS_CardinalityType, FS_EmptySet
      <4>2. InFlight' = InFlight
        BY <2>3, <3>2
      <4>. QED  BY <3>1, <4>1, <4>2 DEF IInv, CountsRequests
    <3>. QED
      BY <2>1, <3>1, <3>2, <3>3, <3>4, <3>5 DEF IInv, MaskHasOwner, AjaxOK, RequestsAreMasked
  <2>. QED  BY <2>6, <2>7
<1>4. ASSUME DetachedRowDestroyed(i) PROVE IInv'
  <2>1. /\ requests[i].phase = "answered" /\ requests' = [requests EXCEPT ![i] = Idle]
        /\ AfterFailure /\ AfterRequest /\ UNCHANGED <<state, rows, total, ajax>>
    BY <1>4 DEF DetachedRowDestroyed, AfterFailure
  <2>2. /\ requests' \in [Ids -> Requests] /\ requests'[i] = Idle
        /\ \A j \in Ids \ {i} : requests'[j] = requests[j]
    BY <2>1, IdleType DEF IInv, TypeOK
  <2>3. TypeOK' /\ PagesOK'
    <3>1. TypeOK'
      BY <2>1, <2>2, AfterFailureType DEF IInv, TypeOK
    <3>2. PagesOK'
      BY <2>1, <2>2, IdleType DEF IInv, PagesOK
    <3>. QED  BY <3>1, <3>2
  <2>4. i \in InFlight /\ InFlight' = InFlight \ {i} /\ Attached' \subseteq Attached
    BY <2>1, <2>2 DEF InFlight, Attached, Idle
  <2>5. AttachedOK'
    BY <2>1, <2>4, AttachedShrinks DEF IInv, TypeOK
  <2>. QED  BY <2>1, <2>3, <2>4, <2>5, CountDown DEF IInv, AjaxOK
<1>5. ASSUME FetchRaises(i) PROVE IInv'
  <2>. DEFINE r == [Idle EXCEPT !.phase = "raised"]
              dropped(j) == [requests[j] EXCEPT !.attached = FALSE]
  <2>1. /\ requests[i].phase = "answered" /\ state' = CheckState(Counted(i))
        /\ rows' = [rows EXCEPT !.count = 0]
        /\ requests' = [AfterReset(i) EXCEPT ![i].phase = "raised"]
        /\ UNCHANGED <<total, requestsCount, loading, widgets, ajax>>
    BY <1>5 DEF FetchRaises
  <2>2. state' \in PageStates
    <3>1. Counted(i) \in PageStates
      BY DEF Counted, PageStates, Requests
    <3>. QED  BY <2>1, <3>1, CheckStateSafe
  <2>3. rows' \in [page : Nat, size : Nat, count : Nat] /\ rows'.count = 0
    BY <2>1 DEF IInv, TypeOK
  <2>4. r \in Requests /\ r.phase = "raised" /\ ~r.attached
    BY IdleType DEF Requests, Phases
  <2>5. \A j \in Ids : /\ dropped(j) \in Requests /\ ~dropped(j).attached
                       /\ dropped(j).phase = requests[j].phase
    BY DEF IInv, TypeOK, Requests
  <2>6. /\ requests' \in [Ids -> Requests] /\ requests'[i] = r
        /\ \A j \in Ids \ {i} : requests'[j] = dropped(j)
    <3>1. /\ AfterReset(i) \in [Ids -> Requests] /\ AfterReset(i)[i] = Idle
          /\ \A j \in Ids \ {i} : AfterReset(i)[j] = dropped(j)
      BY <2>5, IdleType DEF AfterReset
    <3>2. requests' = [AfterReset(i) EXCEPT ![i] = r]
      <4>1. [AfterReset(i)[i] EXCEPT !.phase = "raised"] = r
        BY <3>1
      <4>2. requests' = [AfterReset(i) EXCEPT ![i] = [AfterReset(i)[i] EXCEPT !.phase = "raised"]]
        BY <2>1, Zenon
      <4>. HIDE DEF r
      <4>. QED  BY <4>1, <4>2, Zenon
    <3>. HIDE DEF dropped, r
    <3>. QED  BY <2>4, <3>1, <3>2
  <2>7. InFlight' = InFlight
    <3>1. \A j \in Ids \ {i} : requests'[j].phase = requests[j].phase
      BY <2>5, <2>6
    <3>2. requests'[i].phase = "raised" /\ requests[i].phase = "answered"
      BY <2>1, <2>4, <2>6
    <3>. QED  BY <3>1, <3>2 DEF InFlight
  <2>8. ~Intact'
    BY <2>4, <2>6 DEF Intact
  <2>9. Attached' = {}
    BY <2>4, <2>5, <2>6 DEF Attached
  <2>10. TypeOK'
    BY <2>1, <2>2, <2>3, <2>6 DEF IInv, TypeOK
  <2>11. AttachedOK'
    BY <2>3, <2>9, FS_EmptySet DEF AttachedOK
  <2>. QED
    BY <2>1, <2>7, <2>8, <2>10, <2>11
    DEF IInv, PagesOK, CountsRequests, MaskHasOwner, RequestsAreMasked, AjaxOK
<1>. QED  BY <1>1, <1>2, <1>3, <1>4, <1>5 DEF AnswerStep

LEMMA ServeStepIInv ==
    ASSUME IInv, Intact, NEW i \in Ids, ServeFetch(i) \/ ServeDestroy(i)
    PROVE  IInv'
<1>1. /\ requests[i].phase = "sent" /\ requests[i] \in Requests
      /\ UNCHANGED <<state, rows, requestsCount, loading, widgets, ajax>>
  BY DEF ServeFetch, ServeDestroy, IInv, TypeOK
<1>2. PICK r \in Requests :
        /\ requests' = [requests EXCEPT ![i] = r]
        /\ r.phase = "answered" /\ r.kind = requests[i].kind
        /\ r.from = requests[i].from /\ r.attached = requests[i].attached
  <2>1. CASE ServeFetch(i)
    <3>. DEFINE n == Answered(requests[i].page, requests[i].size, total)
                r == [requests[i] EXCEPT !.phase = "answered", !.total = total, !.count = n]
    <3>1. n \in Nat /\ total \in Nat
      BY AnsweredType DEF IInv, TypeOK
    <3>2. r \in Requests
      BY <1>1, <3>1 DEF Requests, Phases
    <3>3. requests' = [requests EXCEPT ![i] = r]
      BY <2>1 DEF ServeFetch, IInv, TypeOK
    <3>. QED  BY <1>1, <3>2, <3>3 DEF Requests
  <2>2. CASE ServeDestroy(i)
    <3>. DEFINE r == [requests[i] EXCEPT !.phase = "answered"]
    <3>1. r \in Requests
      BY <1>1 DEF Requests, Phases
    <3>2. requests' = [requests EXCEPT ![i] = r]
      BY <2>2 DEF ServeDestroy, IInv, TypeOK
    <3>. QED  BY <1>1, <3>1, <3>2 DEF Requests
  <2>. QED  BY <2>1, <2>2
<1>3. total' \in Nat
  BY DEF ServeFetch, ServeDestroy, IInv, TypeOK
<1>4. /\ requests' \in [Ids -> Requests] /\ requests'[i] = r
      /\ \A j \in Ids \ {i} : requests'[j] = requests[j]
  BY <1>2 DEF IInv, TypeOK
<1>5. TypeOK' /\ PagesOK'
  BY <1>1, <1>2, <1>3, <1>4 DEF IInv, TypeOK, PagesOK
<1>6. InFlight' = InFlight /\ Attached' \subseteq Attached
  BY <1>1, <1>2, <1>4 DEF InFlight, Attached
<1>7. AttachedOK'
  BY <1>1, <1>6, AttachedShrinks DEF IInv, TypeOK
<1>. QED
  BY <1>1, <1>5, <1>6, <1>7 DEF IInv, CountsRequests, MaskHasOwner, RequestsAreMasked, AjaxOK

LEMMA OthersChangeDataIInv == IInv /\ OthersChangeData => IInv'
<1>. SUFFICES ASSUME IInv, OthersChangeData PROVE IInv'
  OBVIOUS
<1>1. /\ UNCHANGED <<state, rows, requests, requestsCount, loading, widgets, ajax>>
      /\ total' \in Nat
  BY GridPagingAssumption DEF OthersChangeData
<1>. QED
  BY <1>1 DEF IInv, TypeOK, PagesOK, Intact, AttachedOK, Attached, CountsRequests, InFlight,
              MaskHasOwner, RequestsAreMasked, AjaxOK

LEMMA AjaxStepIInv ==
    ASSUME IInv, Intact, StartAjaxAction \/ AjaxAnswerStep
    PROVE  IInv'
<1>1. ajax \in Nat /\ ajax <= MaxAjax /\ MaxAjax \in Nat
  BY GridPagingAssumption DEF IInv, TypeOK, AjaxOK
<1>2. ASSUME UNCHANGED <<state, rows, requests, total, requestsCount>>, Rendered,
             ajax' \in Nat, ajax' <= MaxAjax, MaxAjax # 0, loading' \in BOOLEAN,
             loading' => ajax' > 0
      PROVE  IInv'
  <2>1. TypeOK'
    BY <1>2, RenderedType DEF IInv, TypeOK
  <2>3. PagesOK' /\ AttachedOK'
    BY <1>2 DEF IInv, PagesOK, AttachedOK, Attached
  <2>2. CountsRequests' /\ MaskHasOwner' /\ AjaxOK'
    BY <1>2 DEF IInv, CountsRequests, InFlight, MaskHasOwner, AjaxOK
  <2>. QED  BY <2>1, <2>2, <2>3 DEF IInv
<1>3. CASE StartAjaxAction
  <2>1. /\ UNCHANGED <<state, rows, requests, total, requestsCount>> /\ ajax < MaxAjax
        /\ ajax' = ajax + 1 /\ loading' = TRUE /\ Rendered
    BY <1>3 DEF StartAjaxAction
  <2>2. ajax' \in Nat /\ ajax' <= MaxAjax /\ MaxAjax # 0 /\ ajax' > 0
    BY <1>1, <2>1
  <2>. QED  BY <1>2, <2>1, <2>2
<1>4. CASE AjaxActionFails
  <2>1. /\ UNCHANGED <<state, rows, requests, total, requestsCount>> /\ ajax > 0
        /\ ajax' = ajax - 1 /\ loading' = FALSE /\ Rendered
    BY <1>4 DEF AjaxActionFails
  <2>2. ajax' \in Nat /\ ajax' <= MaxAjax /\ MaxAjax # 0
    BY <1>1, <2>1
  <2>. QED  BY <1>2, <2>1, <2>2
<1>5. ASSUME NEW i \in Ids, NEW held \in BOOLEAN, AjaxActionSucceeds(i, held)
      PROVE  IInv'
  <2>1. /\ requests[i].phase = "idle" /\ i \notin InFlight /\ ajax > 0
        /\ ajax' = ajax - 1 /\ UNCHANGED <<rows, total>>
    BY <1>5 DEF AjaxActionSucceeds, InFlight
  <2>2. ajax' \in Nat /\ ajax' <= MaxAjax /\ MaxAjax # 0
    BY <1>1, <2>1
  <2>3. state \in PageStates /\ Fine(state)
    BY DEF IInv, TypeOK, PagesOK
  <2>4. CASE held
    <3>1. /\ HoldFetch(i, "fetch", NoState, state) /\ loading' = FALSE
          /\ Rendered /\ UNCHANGED requestsCount
      BY <1>5, <2>4 DEF AjaxActionSucceeds
    <3>2. /\ state' \in PageStates /\ requests' \in [Ids -> Requests] /\ PagesOK'
          /\ InFlight' = InFlight /\ Attached' \subseteq Attached
      BY <2>1, <2>3, <3>1, HoldFetchEffect, NoStateType DEF IInv, Kinds
    <3>3. TypeOK'
      BY <2>1, <2>2, <3>1, <3>2, RenderedType DEF IInv, TypeOK
    <3>4. AttachedOK'
      BY <2>1, <3>2, AttachedShrinks DEF IInv, TypeOK
    <3>. QED
      BY <2>2, <3>1, <3>2, <3>3, <3>4 DEF IInv, CountsRequests, MaskHasOwner, AjaxOK
  <2>5. CASE ~held
    <3>1. SendFetch(i, "fetch", NoState, state) /\ BeforeRequest
      BY <1>5, <2>5 DEF AjaxActionSucceeds
    <3>2. /\ state' \in PageStates /\ requests' \in [Ids -> Requests] /\ PagesOK'
          /\ InFlight' = InFlight \cup {i} /\ Attached' \subseteq Attached
      BY <2>3, <3>1, SendFetchEffect, NoStateType DEF IInv, Kinds
    <3>3. TypeOK'
      BY <2>1, <2>2, <3>1, <3>2, BeforeRequestType DEF IInv, TypeOK
    <3>4. AttachedOK'
      BY <2>1, <3>2, AttachedShrinks DEF IInv, TypeOK
    <3>5. CountsRequests' /\ MaskHasOwner'
      BY <2>1, <3>1, <3>2, CountUp DEF IInv
    <3>. QED  BY <2>2, <3>2, <3>3, <3>4, <3>5 DEF IInv, AjaxOK
  <2>. QED  BY <2>4, <2>5
<1>. QED  BY <1>3, <1>4, <1>5 DEF AjaxAnswerStep

LEMMA NextIInv == IInv /\ [Next]_vars => IInv'
<1>. SUFFICES ASSUME IInv, [Next]_vars PROVE IInv'
  OBVIOUS
<1>1. ASSUME Intact, NEW i \in Ids, UserStep(i) \/ RefreshStep(i) PROVE IInv'
  BY <1>1, UserStepIInv, RefreshStepIInv
<1>2. CASE Intact /\ (StartAjaxAction \/ AjaxAnswerStep)
  BY <1>2, AjaxStepIInv
<1>3. ASSUME Intact, NEW i \in Ids, AnswerStep(i) \/ ServeFetch(i) \/ ServeDestroy(i) PROVE IInv'
  BY <1>3, AnswerStepIInv, ServeStepIInv
<1>4. CASE OthersChangeData
  BY <1>4, OthersChangeDataIInv
<1>5. CASE UNCHANGED vars
  BY <1>5 DEF vars, IInv, TypeOK, PagesOK, Intact, AttachedOK, Attached, CountsRequests, InFlight,
              MaskHasOwner, RequestsAreMasked, AjaxOK
<1>. QED  BY <1>1, <1>2, <1>3, <1>4, <1>5 DEF Next, WorkStep

(***************************************************************************)
(* The theorems.                                                           *)
(***************************************************************************)
\* Everything above holds in every reachable state of the grid: the paging
\* state, the models, the slots and the counter keep to their types.
THEOREM Invariance == Spec => []IInv
<1>. QED  BY InitIInv, NextIInv, PTL DEF Spec

\* Type correctness of the grid, its collection and its requests.
THEOREM TypeCorrect == Spec => []TypeOK
<1>1. IInv => TypeOK
  BY DEF IInv
<1>. QED  BY <1>1, Invariance, PTL

\* grid.requestsCount is the number of requests in flight, however those of
\* fetches and of destroyed models overlap.
THEOREM RequestCountCorrect == Spec => []CountsRequests
<1>1. IInv => CountsRequests
  BY DEF IInv
<1>. QED  BY <1>1, Invariance, PTL

\* The loading mask is never left shown with nothing under way that will
\* hide it, with any number of ajax actions hiding it early.
THEOREM MaskNeverOrphaned == Spec => []MaskHasOwner
<1>1. IInv => MaskHasOwner
  BY DEF IInv
<1>. QED  BY <1>1, Invariance, PTL

\* Without ajax actions the mask covers every request for all its life.
THEOREM MaskCoversRequests == MaxAjax = 0 => (Spec => []RequestsAreMasked)
<1>. SUFFICES ASSUME MaxAjax = 0 PROVE Spec => []RequestsAreMasked
  OBVIOUS
<1>1. IInv => RequestsAreMasked
  BY DEF IInv, AjaxOK
<1>. QED  BY <1>1, Invariance, PTL

-----------------------------------------------------------------------------
(***************************************************************************)
(* The pager's arithmetic: page k of size b is the rows b*(k-1) < r <= b*k *)
(***************************************************************************)
LEMMA CeilDivBounds ==
    ASSUME NEW r \in Nat, NEW b \in Nat, b > 0
    PROVE  /\ CeilDiv(r, b) \in Nat
           /\ b * (CeilDiv(r, b) - 1) < r
           /\ r <= b * CeilDiv(r, b)
<1>. DEFINE q == (r + b - 1) \div b
            m == (r + b - 1) % b
<1>1. q \in Int /\ m \in 0 .. (b - 1) /\ r + b - 1 = b * q + m
  OBVIOUS
<1>2. q \in Nat
  BY CeilDivType DEF CeilDiv
<1>. HIDE DEF q, m
<1>3. b * (q - 1) = b * q - b /\ b * q \in Int
  BY <1>1
<1>4. r <= b * q /\ b * (q - 1) < r
  BY <1>1, <1>3
<1>. QED  BY <1>2, <1>4 DEF CeilDiv, q

LEMMA Monotone ==
    ASSUME NEW b \in Nat, NEW x \in Int, NEW y \in Int, x <= y
    PROVE  b * x <= b * y
<1>1. PICK d \in Nat : y = x + d
  BY y - x \in Nat
<1>2. b * (x + d) = b * x + b * d /\ b * d >= 0 /\ b * x \in Int /\ b * d \in Int
  OBVIOUS
<1>. QED  BY <1>1, <1>2

\* The page of a row is the one whose rows it is among.
LEMMA CeilDivIsPage ==
    ASSUME NEW r \in Nat, NEW b \in Nat, b > 0, NEW k \in Int
    PROVE  CeilDiv(r, b) = k <=> b * (k - 1) < r /\ r <= b * k
<1>. DEFINE q == CeilDiv(r, b)
<1>1. q \in Nat /\ r <= b * q /\ b * (q - 1) < r
  BY CeilDivBounds
<1>. HIDE DEF q
<1>2. ASSUME b * (k - 1) < r, r <= b * k PROVE q = k
  <2>1. CASE q <= k - 1
    <3>1. b * q <= b * (k - 1) /\ b * q \in Int /\ b * (k - 1) \in Int
      BY <1>1, <2>1, Monotone
    <3>. QED  BY <1>1, <1>2, <3>1
  <2>2. CASE k <= q - 1
    <3>1. b * k <= b * (q - 1) /\ b * k \in Int /\ b * (q - 1) \in Int
      BY <1>1, <2>2, Monotone
    <3>. QED  BY <1>1, <1>2, <3>1
  <2>. QED  BY <1>1, <2>1, <2>2
<1>. QED  BY <1>1, <1>2 DEF q

\* Pages that have rows are those up to the last.
LEMMA PagesWithRows ==
    ASSUME NEW n \in Nat, NEW b \in Nat, b > 0, NEW k \in Nat
    PROVE  k <= CeilDiv(n, b) <=> b * (k - 1) < n \/ k = 0
<1>. DEFINE q == CeilDiv(n, b)
<1>1. q \in Nat /\ n <= b * q /\ b * (q - 1) < n
  BY CeilDivBounds
<1>. HIDE DEF q
<1>2. ASSUME k <= q, k # 0 PROVE b * (k - 1) < n
  <2>1. b * (k - 1) <= b * (q - 1) /\ b * (k - 1) \in Int /\ b * (q - 1) \in Int
    BY <1>1, <1>2, Monotone
  <2>. QED  BY <1>1, <2>1
<1>3. ASSUME k > q, k # 0 PROVE ~(b * (k - 1) < n)
  <2>1. b * q <= b * (k - 1) /\ b * q \in Int /\ b * (k - 1) \in Int
    BY <1>1, <1>3, Monotone
  <2>. QED  BY <1>1, <2>1
<1>. QED  BY <1>1, <1>2, <1>3 DEF q

SizedPager(page, size) ==
    [page |-> page, maxPerPage |-> size, lastPage |-> 1, offset |-> 0, limit |-> NoLimit]

PagerRecords == [page : Int, maxPerPage : Int, lastPage : Int, offset : Int, limit : Int]

LEMMA SamePager ==
    ASSUME NEW p \in PagerRecords, NEW q \in PagerRecords,
           p.page = q.page, p.maxPerPage = q.maxPerPage, p.lastPage = q.lastPage,
           p.offset = q.offset, p.limit = q.limit
    PROVE  p = q
BY DEF PagerRecords

LEMMA SettersOfPager ==
    ASSUME NEW page \in Int, NEW size \in Nat, NEW k \in Int, NEW m \in Nat
    PROVE  /\ SetPage(SizedPager(page, size), k)
                = SizedPager(IF k > 0 THEN k ELSE IF size # 0 THEN 1 ELSE 0, size)
           /\ SetMaxPerPage(SizedPager(page, size), m)
                = SizedPager(IF m = 0 THEN 0 ELSE IF page = 0 THEN 1 ELSE page, m)
<1>. DEFINE p  == SizedPager(page, size)
            p1 == SetPage(p, k)
            q1 == SizedPager(IF k > 0 THEN k ELSE IF size # 0 THEN 1 ELSE 0, size)
            p2 == SetMaxPerPage(p, m)
            q2 == SizedPager(IF m = 0 THEN 0 ELSE IF page = 0 THEN 1 ELSE page, m)
<1>1. \A x \in Int, y \in Nat :
        /\ SizedPager(x, y) \in PagerRecords
        /\ SizedPager(x, y).page = x /\ SizedPager(x, y).maxPerPage = y
        /\ SizedPager(x, y).lastPage = 1 /\ SizedPager(x, y).offset = 0
        /\ SizedPager(x, y).limit = NoLimit
  BY DEF SizedPager, PagerRecords, NoLimit
<1>3. p \in PagerRecords /\ p.page = page /\ p.maxPerPage = size
      /\ p.lastPage = 1 /\ p.offset = 0 /\ p.limit = NoLimit
  BY <1>1
<1>. HIDE DEF p
<1>4. p1 = q1
  <2>. DEFINE i == IF k > 0 THEN k ELSE IF size # 0 THEN 1 ELSE 0
  <2>1. p1 = [p EXCEPT !.page = i]
    BY <1>3 DEF SetPage
  <2>2. i \in Int
    OBVIOUS
  <2>. HIDE DEF i
  <2>3. q1 = SizedPager(i, size)
    BY DEF i
  <2>. HIDE DEF p1, q1
  <2>4. /\ p1 \in PagerRecords /\ p1.page = i /\ p1.maxPerPage = size
        /\ p1.lastPage = 1 /\ p1.offset = 0 /\ p1.limit = NoLimit
    BY <1>3, <2>1, <2>2 DEF PagerRecords
  <2>5. /\ q1 \in PagerRecords /\ q1.page = i /\ q1.maxPerPage = size
        /\ q1.lastPage = 1 /\ q1.offset = 0 /\ q1.limit = NoLimit
    BY <1>1, <2>2, <2>3
  <2>. QED  BY <2>4, <2>5, SamePager
<1>5. p2 = q2
  <2>. DEFINE i == IF m = 0 THEN 0 ELSE IF page = 0 THEN 1 ELSE page
  <2>1. p2 = [p EXCEPT !.maxPerPage = m, !.page = i]
    BY <1>3 DEF SetMaxPerPage
  <2>2. i \in Int
    OBVIOUS
  <2>. HIDE DEF i
  <2>3. q2 = SizedPager(i, m)
    BY DEF i
  <2>. HIDE DEF p2, q2
  <2>4. /\ p2 \in PagerRecords /\ p2.page = i /\ p2.maxPerPage = m
        /\ p2.lastPage = 1 /\ p2.offset = 0 /\ p2.limit = NoLimit
    <3>. DEFINE p3 == [p EXCEPT !.maxPerPage = m]
    <3>1. /\ p3 \in PagerRecords /\ p3.maxPerPage = m
          /\ p3.lastPage = 1 /\ p3.offset = 0 /\ p3.limit = NoLimit
      BY <1>3 DEF PagerRecords
    <3>2. p2 = [p3 EXCEPT !.page = i]
      BY <2>1
    <3>. HIDE DEF p3
    <3>. QED  BY <2>2, <3>1, <3>2 DEF PagerRecords
  <2>5. /\ q2 \in PagerRecords /\ q2.page = i /\ q2.maxPerPage = m
        /\ q2.lastPage = 1 /\ q2.offset = 0 /\ q2.limit = NoLimit
    BY <1>1, <2>2, <2>3
  <2>. QED  BY <2>4, <2>5, SamePager
<1>. QED  BY <1>4, <1>5 DEF p

\* The pager when its query is made.
PageAsked(page, size) == IF size = 0 THEN 0 ELSE IF page > 0 THEN page ELSE 1

LEMMA NewPagerSet ==
    ASSUME NEW k \in Int, NEW m \in Nat
    PROVE  SetMaxPerPage(SetPage(NewPager, k), m)
              = SizedPager(IF m = 0 THEN 0 ELSE IF k > 0 THEN k ELSE 1, m)
<1>1. NewPager = SizedPager(1, 10)
  <2>1. NewPager = SetMaxPerPage(SizedPager(1, 0), 10)
    BY DEF NewPager, SizedPager
  <2>. QED  BY <2>1, SettersOfPager
<1>. DEFINE i == IF k > 0 THEN k ELSE 1
<1>2. SetPage(NewPager, k) = SizedPager(i, 10) /\ i \in Int /\ i # 0
  BY <1>1, SettersOfPager
<1>. HIDE DEF i
<1>3. SetMaxPerPage(SizedPager(i, 10), m) = SizedPager(IF m = 0 THEN 0 ELSE IF i = 0 THEN 1 ELSE i, m)
  BY <1>2, SettersOfPager
<1>. QED  BY <1>2, <1>3 DEF i

LEMMA VisitPager ==
    ASSUME NEW d \in Nat, NEW page \in Int, NEW size \in Nat, NEW n
    PROVE  VisitDatasource(FALSE, d, page, size, n)
              = PagerInit(SizedPager(PageAsked(page, size), size), n)
BY NewPagerSet DEF VisitDatasource, PageAsked

LEMMA VisitOnePage ==
    ASSUME NEW d \in Nat, NEW page \in Int, NEW size \in Nat, NEW n
    PROVE  VisitDatasource(TRUE, d, page, size, n)
              = PagerInit(IF d = 0 \/ size = 0 THEN SizedPager(0, 0) ELSE SizedPager(1, size), n)
BY NewPagerSet DEF VisitDatasource

LEMMA RowsOfPage ==
    ASSUME NEW k \in Nat, k > 0, NEW size \in Nat, size > 0, NEW n \in Nat
    PROVE  LET pager == PagerInit(SizedPager(k, size), n)
           IN  /\ RowsReturned(pager, n) = {r \in 1 .. n : CeilDiv(r, size) = k}
               /\ n > 0 => pager.lastPage = CeilDiv(n, size)
<1>. DEFINE pager == PagerInit(SizedPager(k, size), n)
<1>1. CASE n = 0
  <2>1. 1 .. n = {}
    BY <1>1
  <2>. QED  BY <1>1, <2>1 DEF RowsReturned
<1>2. CASE n > 0
  <2>. DEFINE last == CeilDiv(n, size)
              p0   == SizedPager(k, size)
              sp   == SetLastPage(p0, last)
  <2>1. pager = [sp EXCEPT !.offset = (k - 1) * size, !.limit = size]
    BY <1>2 DEF PagerInit, SizedPager
  <2>2. last \in Int /\ (k - 1) * size \in Int
    BY CeilDivBounds
  <2>. HIDE DEF last, pager
  <2>3. p0 \in PagerRecords /\ p0.page = k /\ p0.maxPerPage = size
    BY DEF SizedPager, PagerRecords, NoLimit
  <2>. HIDE DEF p0
  <2>4. sp \in PagerRecords /\ sp.lastPage = last
    <3>. DEFINE p1 == [p0 EXCEPT !.lastPage = last]
    <3>1. p1 \in PagerRecords /\ p1.lastPage = last
      BY <2>2, <2>3 DEF PagerRecords
    <3>2. sp = p1 \/ \E i \in Int : sp = [p1 EXCEPT !.page = i]
      <4>. HIDE DEF p1
      <4>1. sp = IF p1.page > last THEN SetPage(p1, last) ELSE p1
        BY DEF SetLastPage, p1, sp
      <4>. DEFINE v == IF last > 0 THEN last ELSE IF p1.maxPerPage # 0 THEN 1 ELSE 0
      <4>2. SetPage(p1, last) = [p1 EXCEPT !.page = v] /\ v \in Int
        BY <2>2 DEF SetPage
      <4>. HIDE DEF v
      <4>. QED  BY <4>1, <4>2
    <3>. HIDE DEF p1
    <3>. QED  BY <3>1, <3>2 DEF PagerRecords
  <2>. HIDE DEF sp
  <2>5. pager.lastPage = last /\ pager.offset = (k - 1) * size /\ pager.limit = size
    BY <2>1, <2>2, <2>4 DEF PagerRecords
  <2>6. ASSUME NEW r \in 1 .. n
        PROVE  (r > pager.offset /\ (pager.limit # NoLimit => r <= pager.offset + pager.limit))
                  <=> CeilDiv(r, size) = k
    <3>1. CeilDiv(r, size) = k <=> size * (k - 1) < r /\ r <= size * k
      BY CeilDivIsPage
    <3>2. (k - 1) * size = size * (k - 1) /\ size * k = size * (k - 1) + size
          /\ size * (k - 1) \in Int
      OBVIOUS
    <3>3. pager.limit # NoLimit
      BY <2>5 DEF NoLimit
    <3>. QED  BY <2>5, <3>1, <3>2, <3>3
  <2>. QED  BY <2>5, <2>6 DEF RowsReturned, pager, last
<1>. QED  BY <1>1, <1>2

LEMMA RowsOfAll ==
    ASSUME NEW n \in Nat
    PROVE  RowsReturned(PagerInit(SizedPager(0, 0), n), n) = 1 .. n
<1>. DEFINE pager == PagerInit(SizedPager(0, 0), n)
<1>1. pager.offset = 0 /\ pager.limit = NoLimit
  BY DEF PagerInit, SizedPager, SetLastPage, SetPage
<1>. HIDE DEF pager
<1>. QED  BY <1>1 DEF RowsReturned, pager

\* Everything is on the first page when a page holds as many rows.
LEMMA OnlyPage ==
    ASSUME NEW n \in Nat
    PROVE  {r \in 1 .. n : CeilDiv(r, n) = 1} = 1 .. n
<1>1. ASSUME NEW r \in 1 .. n PROVE CeilDiv(r, n) = 1
  <2>1. r \in Nat /\ n > 0 /\ n * (1 - 1) < r /\ r <= n * 1
    BY <1>1
  <2>. QED  BY <2>1, CeilDivIsPage
<1>. QED  BY <1>1

-----------------------------------------------------------------------------
\* The request that is answered is one of those enumerated.
AnswerOK ==
    \E page \in Int, size \in Nat, n \in Nat : answer = Reply(page, size, n)

LEMMA AnswerIsReply == MCSpec => []AnswerOK
<1>1. MCInit => AnswerOK
  <2>. SUFFICES ASSUME MCInit PROVE AnswerOK
    OBVIOUS
  <2>1. total \in Nat
    BY InitIInv DEF MCInit, IInv, TypeOK
  <2>. QED  BY <2>1 DEF MCInit, AnswerOK
<1>2. AnswerOK /\ [MCNext]_<<part, vars, answer, barVars>> => AnswerOK'
  <2>. SUFFICES ASSUME AnswerOK, [MCNext]_<<part, vars, answer, barVars>> PROVE AnswerOK'
    OBVIOUS
  <2>1. CASE answer' = answer
    BY <2>1 DEF AnswerOK, Reply
  <2>2. CASE Request
    <3>1. MaxPage \in Nat /\ MaxSize \in Nat /\ MaxResults \in Nat
      BY PagingAssumption
    <3>. QED  BY <2>2, <3>1 DEF Request, AnswerOK
  <2>. QED  BY <2>1, <2>2 DEF MCNext
<1>. QED  BY <1>1, <1>2, PTL DEF MCSpec

\* For a page that exists the query returns exactly that page, and the last page is
\* the last that has rows, for every page, size and number of results.
THEOREM PagerCorrect == MCSpec => []ReturnsThePage
<1>1. AnswerOK => ReturnsThePage
  <2>. SUFFICES ASSUME NEW page \in Int, NEW size \in Nat, NEW n \in Nat,
                       answer = Reply(page, size, n)
                PROVE  ReturnsThePage
    BY DEF AnswerOK
  <2>1. /\ answer.page = page /\ answer.size = size /\ answer.n = n
        /\ answer.pager = VisitDatasource(FALSE, 10, page, size, n)
    BY DEF Reply
  <2>. DEFINE k == PageAsked(page, size)
  <2>4. answer.pager = PagerInit(SizedPager(k, size), n)
    <3>1. VisitDatasource(FALSE, 10, page, size, n) = PagerInit(SizedPager(PageAsked(page, size), size), n)
      BY NewPagerSet DEF VisitDatasource, PageAsked
    <3>. QED  BY <2>1, <3>1
  <2>2. CASE size = 0
    BY <2>1, <2>2, <2>4, RowsOfAll DEF ReturnsThePage, PageAsked
  <2>3. CASE size # 0
    <3>1. ASSUME page \in 1 .. CeilDiv(n, size)
          PROVE  RowsReturned(answer.pager, n) = ReferencePage(page, size, n)
      <4>1. page \in Nat /\ page > 0 /\ size > 0
        BY <2>3, <3>1
      <4>2. k = page
        BY <2>3, <4>1 DEF PageAsked
      <4>3. RowsReturned(PagerInit(SizedPager(page, size), n), n)
              = {r \in 1 .. n : CeilDiv(r, size) = page}
        BY <4>1, RowsOfPage
      <4>. HIDE DEF k
      <4>. QED  BY <2>4, <4>2, <4>3 DEF ReferencePage
    <3>2. n > 0 => answer.pager.lastPage = CeilDiv(n, size)
      BY <2>3, <2>4, RowsOfPage DEF PageAsked
    <3>. QED  BY <2>1, <2>3, <3>1, <3>2 DEF ReturnsThePage
  <2>. QED  BY <2>2, <2>3
<1>. QED  BY <1>1, AnswerIsReply, PTL

-----------------------------------------------------------------------------
(***************************************************************************)
(* The pagination.  A state is well paged when its current page is among   *)
(* those it counts and these hold all its records: the pages before        *)
(* lastPage are then those the handles and the field can ask for.          *)
(***************************************************************************)
LastShown(s) == IF s.lastPage \in {0, Unknown} THEN FirstPage ELSE s.lastPage

WellPaged(s) ==
    /\ s \in PageStates
    /\ s.totalRecords > 0 =>
         /\ s.currentPage >= FirstPage
         /\ s.currentPage <= LastShown(s)
         /\ ~OnePage /\ s.pageSize > 0 => CeilDiv(s.totalRecords, s.pageSize) <= s.lastPage

LEMMA CheckedIsWellPaged ==
    ASSUME NEW s \in PageStates, ~RaisesRangeError(s)
    PROVE  WellPaged(CheckState(s))
<1>. DEFINE c == CheckState(s)
<1>1. c \in PageStates /\ (c.totalRecords > 0 => c.currentPage >= FirstPage)
  BY CheckStateSafe DEF Fine, Unknown
<1>2. ASSUME c.totalRecords > 0
      PROVE  /\ c.currentPage <= LastShown(c)
             /\ ~OnePage /\ c.pageSize > 0 => CeilDiv(c.totalRecords, c.pageSize) <= c.lastPage
  <2>1. s.totalRecords \in Nat /\ s.totalRecords > 0
    BY <1>2 DEF CheckState, PageStates, Unknown
  <2>2. /\ c.totalRecords = s.totalRecords /\ c.pageSize = SizeOf(s)
        /\ c.currentPage = PageOf(s) /\ c.lastPage = PagesOf(s)
    BY <2>1 DEF CheckState, Unknown
  <2>3. SizeOf(s) \in Nat /\ AskedOf(s) \in Nat
    BY <2>1 DEF SizeOf, AskedOf, PageStates, FirstPage
  <2>. HIDE DEF c
  <2>4. CASE SizeOf(s) = 0
    <3>1. c.currentPage = 1
      BY <2>1, <2>2, <2>4 DEF PageOf
    <3>2. LastShown(c) >= 1
      BY <1>1 DEF LastShown, PageStates, Unknown, FirstPage
    <3>3. LastShown(c) \in Int
      BY <1>1 DEF LastShown, PageStates, Unknown, FirstPage
    <3>. QED  BY <2>2, <2>4, <3>1, <3>2, <3>3
  <2>5. CASE SizeOf(s) > 0
    <3>1. PagesOf(s) = CeilDiv(s.totalRecords, SizeOf(s))
      BY <2>3, <2>5 DEF PagesOf
    <3>2. PagesOf(s) \in Nat /\ PagesOf(s) >= 1
      BY <2>1, <2>3, <2>5, <3>1, CeilDivType
    <3>3. PageOf(s) <= PagesOf(s)
      BY <2>1, <2>3, <2>5, <3>2 DEF PageOf
    <3>4. LastShown(c) = PagesOf(s)
      BY <2>2, <3>2 DEF LastShown, Unknown
    <3>. QED  BY <2>2, <3>1, <3>2, <3>3, <3>4
  <2>. QED  BY <2>3, <2>4, <2>5
<1>. QED  BY <1>1, <1>2 DEF WellPaged

\* Fewer records need no more pages.
LEMMA FewerPages ==
    ASSUME NEW n \in Nat, NEW b \in Nat, b > 0
    PROVE  CeilDiv(n, b) <= CeilDiv(n + 1, b)
<1>. DEFINE k == CeilDiv(n, b)
<1>1. k \in Nat /\ n + 1 \in Nat /\ b * (k - 1) < n
  BY CeilDivBounds
<1>2. CeilDiv(n + 1, b) \in Nat
  BY <1>1, CeilDivBounds
<1>. HIDE DEF k
<1>3. b * (k - 1) \in Int
  BY <1>1
<1>4. k <= CeilDiv(n + 1, b)
  BY <1>1, <1>3, PagesWithRows
<1>. QED  BY <1>4 DEF k

(***************************************************************************)
(* What getPage(p) brings.                                                 *)
(***************************************************************************)
LEMMA RowsOfOnePage ==
    ASSUME NEW s \in PageStates, s.totalRecords > 0, NEW p \in Int, OnePage \/ s.pageSize = 0
    PROVE  RowsGot(s, p) = 1 .. s.totalRecords
<1>. DEFINE n == s.totalRecords
            t == [s EXCEPT !.currentPage = p]
            asked == CheckState(t)
<1>1. n \in Nat /\ n > 0 /\ OnePage \in BOOLEAN /\ DefaultPageSize \in Nat
  BY OnePageAssumption, GridPagingAssumption DEF PageStates, Unknown
<1>2. t.totalRecords = n /\ t.pageSize = s.pageSize /\ t.currentPage = p
  BY DEF PageStates
<1>. HIDE DEF n, t
<1>3. asked.currentPage = PageOf(t) /\ asked.pageSize = SizeOf(t)
  BY <1>1, <1>2 DEF CheckState, Unknown
<1>. HIDE DEF asked
<1>4. RowsGot(s, p)
        = RowsReturned(VisitDatasource(OnePage, DefaultPageSize, asked.currentPage, asked.pageSize, n), n)
  BY DEF RowsGot, asked, t, n
<1>5. CASE OnePage
  <2>1. asked.pageSize = n
    BY <1>2, <1>3, <1>5 DEF SizeOf
  <2>2. asked.currentPage = 1
    <3>1. SizeOf(t) = n /\ AskedOf(t) = 1
      BY <1>2, <1>5 DEF SizeOf, AskedOf, FirstPage
    <3>2. PagesOf(t) \in Nat /\ PagesOf(t) >= 1
      BY <1>1, <1>2, <3>1, CeilDivType DEF PagesOf
    <3>. QED  BY <1>1, <1>2, <1>3, <3>1, <3>2 DEF PageOf
  <2>. DEFINE sized == IF DefaultPageSize = 0 \/ n = 0 THEN SizedPager(0, 0) ELSE SizedPager(1, n)
  <2>3. VisitDatasource(TRUE, DefaultPageSize, 1, n, n) = PagerInit(sized, n)
    BY <1>1, NewPagerSet DEF VisitDatasource
  <2>4. RowsGot(s, p) = RowsReturned(PagerInit(sized, n), n)
    BY <1>4, <1>5, <2>1, <2>2, <2>3
  <2>5. CASE DefaultPageSize = 0
    BY <1>1, <2>4, <2>5, RowsOfAll DEF n
  <2>6. CASE DefaultPageSize # 0
    <3>1. RowsReturned(PagerInit(SizedPager(1, n), n), n) = {r \in 1 .. n : CeilDiv(r, n) = 1}
      BY <1>1, RowsOfPage
    <3>2. {r \in 1 .. n : CeilDiv(r, n) = 1} = 1 .. n
      BY <1>1, OnlyPage
    <3>3. sized = SizedPager(1, n)
      BY <1>1, <2>6
    <3>. HIDE DEF sized
    <3>. QED  BY <2>4, <3>1, <3>2, <3>3 DEF n
  <2>. QED  BY <2>5, <2>6
<1>6. CASE ~OnePage
  <2>1. SizeOf(t) = 0 /\ OnePage = FALSE
    BY <1>1, <1>2, <1>6 DEF SizeOf
  <2>2. asked.pageSize = 0 /\ asked.currentPage = 1
    BY <1>1, <1>2, <1>3, <2>1 DEF PageOf
  <2>3. VisitDatasource(FALSE, DefaultPageSize, 1, 0, n) = PagerInit(SizedPager(0, 0), n)
    BY <1>1, NewPagerSet DEF VisitDatasource
  <2>. QED  BY <1>1, <1>4, <2>1, <2>2, <2>3, RowsOfAll DEF n
<1>. QED  BY <1>5, <1>6

LEMMA RowsOfAsked ==
    ASSUME NEW s \in PageStates, s.totalRecords > 0, ~OnePage, s.pageSize > 0,
           NEW p \in Nat, p >= 1
    PROVE  LET last == CeilDiv(s.totalRecords, s.pageSize)
               k    == IF p > last THEN last ELSE p
           IN  /\ k \in Nat /\ k >= 1 /\ k <= last
               /\ RowsGot(s, p) = {r \in 1 .. s.totalRecords : CeilDiv(r, s.pageSize) = k}
<1>. DEFINE n == s.totalRecords
            b == s.pageSize
            last == CeilDiv(n, b)
            k == IF p > last THEN last ELSE p
            t == [s EXCEPT !.currentPage = p]
            asked == CheckState(t)
<1>1. n \in Nat /\ n > 0 /\ b \in Nat /\ b > 0 /\ OnePage = FALSE /\ DefaultPageSize \in Nat
  BY OnePageAssumption, GridPagingAssumption DEF PageStates, Unknown
<1>2. t.totalRecords = n /\ t.pageSize = b /\ t.currentPage = p
  BY DEF PageStates
<1>. HIDE DEF n, b, t
<1>3. last \in Nat /\ last >= 1
  BY <1>1, CeilDivType
<1>4. k \in Nat /\ k >= 1 /\ k <= last
  BY <1>3
<1>5. asked.currentPage = k /\ asked.pageSize = b
  <2>1. asked.currentPage = PageOf(t) /\ asked.pageSize = SizeOf(t)
    BY <1>1, <1>2 DEF CheckState, Unknown
  <2>2. SizeOf(t) = b /\ AskedOf(t) = p /\ PagesOf(t) = last
    BY <1>1, <1>2 DEF SizeOf, AskedOf, PagesOf
  <2>. QED  BY <1>1, <1>2, <2>1, <2>2 DEF PageOf
<1>. HIDE DEF asked, k, last
<1>6. RowsGot(s, p)
        = RowsReturned(VisitDatasource(OnePage, DefaultPageSize, asked.currentPage, asked.pageSize, n), n)
  BY DEF RowsGot, asked, t, n
<1>7. VisitDatasource(FALSE, DefaultPageSize, k, b, n) = PagerInit(SizedPager(k, b), n)
  BY <1>1, <1>4, NewPagerSet DEF VisitDatasource
<1>8. RowsReturned(PagerInit(SizedPager(k, b), n), n) = {r \in 1 .. n : CeilDiv(r, b) = k}
  BY <1>1, <1>4, RowsOfPage
<1>9. RowsGot(s, p) = {r \in 1 .. n : CeilDiv(r, b) = k}
  BY <1>1, <1>5, <1>6, <1>7, <1>8
<1>. QED  BY <1>4, <1>9 DEF n, b, k, last

LEMMA BringsRows ==
    ASSUME NEW s \in PageStates, s.totalRecords > 0, NEW p \in Nat, p >= 1
    PROVE  RowsGot(s, p) # {}
<1>. DEFINE n == s.totalRecords
            b == s.pageSize
<1>1. n \in Nat /\ n > 0 /\ b \in Nat
  BY DEF PageStates, Unknown
<1>2. CASE OnePage \/ b = 0
  <2>1. RowsGot(s, p) = 1 .. n
    BY <1>2, RowsOfOnePage
  <2>2. 1 \in 1 .. n
    BY <1>1
  <2>. HIDE DEF n
  <2>. QED  BY <2>1, <2>2
<1>3. CASE ~OnePage /\ b > 0
  <2>. DEFINE last == CeilDiv(n, b)
              k == IF p > last THEN last ELSE p
              r == b * (k - 1) + 1
  <2>1. /\ k \in Nat /\ k >= 1 /\ k <= last
        /\ RowsGot(s, p) = {x \in 1 .. n : CeilDiv(x, b) = k}
    BY <1>3, RowsOfAsked
  <2>. HIDE DEF k, n, b
  <2>2. b * (k - 1) < n
    BY <1>1, <1>3, <2>1, PagesWithRows
  <2>3. b * (k - 1) \in Nat /\ b * k = b * (k - 1) + b
    BY <1>1, <2>1
  <2>4. r \in 1 .. n /\ r \in Nat /\ b * (k - 1) < r /\ r <= b * k
    BY <1>1, <1>3, <2>2, <2>3
  <2>5. CeilDiv(r, b) = k
    BY <1>1, <1>3, <2>1, <2>4, CeilDivIsPage
  <2>. QED  BY <2>1, <2>4, <2>5
<1>. QED  BY <1>1, <1>2, <1>3

(***************************************************************************)
(* The numbered handles.                                                   *)
(***************************************************************************)
LEMMA WindowAround ==
    ASSUME NEW c \in Nat, c >= 1, NEW w \in Nat, w >= 1
    PROVE  LET start == ((c - 1) \div w) * w
           IN  start \in Nat /\ start <= c - 1 /\ c - 1 <= start + w - 1
<1>. DEFINE q == (c - 1) \div w
            m == (c - 1) % w
<1>1. q \in Int /\ m \in 0 .. (w - 1) /\ c - 1 = w * q + m
  OBVIOUS
<1>2. q >= 0
  <2>1. SUFFICES ASSUME q <= -1 PROVE FALSE
    BY <1>1
  <2>2. w * q <= -w
    BY <1>1, <2>1
  <2>. QED  BY <1>1, <2>2
<1>. HIDE DEF q, m
<1>3. q * w = w * q /\ q * w \in Int
  BY <1>1
<1>4. q * w \in Nat
  BY <1>1, <1>2
<1>5. q * w <= c - 1 /\ c - 1 <= q * w + w - 1
  BY <1>1, <1>3
<1>. QED  BY <1>4, <1>5 DEF q

LEMMA WindowPages ==
    ASSUME NEW s \in PageStates, s.currentPage >= 1, NEW w \in Nat
    PROVE  /\ \A label \in Window(s, w) : label \in Nat /\ label >= 1
           /\ w >= 1 /\ s.currentPage <= LastShown(s) => s.currentPage \in Window(s, w)
<1>. DEFINE c     == s.currentPage
            start == ((c - 1) \div w) * w
            last  == LastShown(s) - 1
            D     == { j \in start..(start + w - 1) : j <= last }
            W     == { i + 1 : i \in D }
<1>1. c \in Nat /\ c >= 1 /\ LastShown(s) \in Int
  BY DEF PageStates, LastShown, Unknown, FirstPage
<1>2. CASE w = 0
  BY <1>2 DEF Window
<1>3. CASE w >= 1
  <2>1. Window(s, w) = W
    BY <1>3 DEF Window, LastShown
  <2>2. start \in Nat /\ start <= c - 1 /\ c - 1 <= start + w - 1
    BY <1>1, <1>3, WindowAround
  <2>. HIDE DEF c, start, last
  <2>3. \A j \in D : j \in Nat
    BY <2>2
  <2>4. \A label \in W : label \in Nat /\ label >= 1
    BY <2>3
  <2>5. ASSUME c <= LastShown(s) PROVE c \in W
    <3>1. c - 1 <= last
      BY <1>1, <2>5 DEF last
    <3>2. c - 1 \in D
      BY <1>1, <1>3, <2>2, <3>1
    <3>3. c = (c - 1) + 1
      BY <1>1
    <3>. HIDE DEF D
    <3>. QED  BY <3>2, <3>3
  <2>. QED  BY <2>1, <2>4, <2>5 DEF c
<1>. QED  BY <1>2, <1>3

(***************************************************************************)
(* The field.                                                              *)
(***************************************************************************)
LEMMA FieldReaches ==
    ASSUME NEW s \in PageStates, WellPaged(s), s.totalRecords > 0
    PROVE  UNION { RowsGot(s, PageOfInput(s, k)) : k \in 0..s.lastPage + 1 } = 1..s.totalRecords
<1>. DEFINE n == s.totalRecords
            b == s.pageSize
            R == { RowsGot(s, PageOfInput(s, k)) : k \in 0..s.lastPage + 1 }
<1>1. n \in Nat /\ n > 0 /\ b \in Nat /\ s.lastPage \in Int /\ s.lastPage >= -1
  BY DEF PageStates, Unknown
<1>2. UNION R \subseteq 1 .. n
  <2>1. \A p : RowsGot(s, p) \subseteq 1 .. n
    BY DEF RowsGot, RowsReturned
  <2>. QED  BY <2>1
<1>3. ASSUME NEW r \in 1 .. n PROVE r \in UNION R
  <2>1. CASE OnePage \/ b = 0
    <3>1. 0 \in 0 .. s.lastPage + 1
      BY <1>1
    <3>2. PageOfInput(s, 0) \in Int
      BY <1>1 DEF PageOfInput, FirstPage
    <3>3. RowsGot(s, PageOfInput(s, 0)) = 1 .. n
      BY <2>1, <3>2, RowsOfOnePage
    <3>. QED  BY <3>1, <3>3
  <2>2. CASE ~OnePage /\ b > 0
    <3>. DEFINE k == CeilDiv(r, b)
                last == CeilDiv(n, b)
    <3>1. r \in Nat /\ r > 0 /\ r <= n
      BY <1>1
    <3>2. k \in Nat /\ k >= 1 /\ b * (k - 1) < r /\ last \in Nat
      BY <1>1, <2>2, <3>1, CeilDivBounds, CeilDivType
    <3>3. last <= s.lastPage
      BY <1>1, <2>2 DEF WellPaged
    <3>. HIDE DEF k
    <3>4. k <= last
      <4>1. b * (k - 1) < n
        <5>1. b * (k - 1) \in Int
          BY <1>1, <3>2
        <5>. QED  BY <1>1, <3>1, <3>2, <5>1
      <4>. QED  BY <1>1, <2>2, <3>2, <4>1, PagesWithRows
    <3>5. k \in 0 .. s.lastPage + 1 /\ PageOfInput(s, k) = k
      <4>. HIDE DEF last
      <4>. QED  BY <1>1, <3>2, <3>3, <3>4 DEF PageOfInput, FirstPage
    <3>6. RowsGot(s, k) = {x \in 1 .. n : CeilDiv(x, b) = k}
      BY <2>2, <3>2, <3>4, RowsOfAsked
    <3>7. r \in RowsGot(s, PageOfInput(s, k))
      BY <3>5, <3>6 DEF k
    <3>. QED  BY <3>5, <3>7
  <2>. QED  BY <1>1, <2>1, <2>2
<1>. QED  BY <1>2, <1>3

LEMMA WellPagedReaches ==
    ASSUME NEW s, WellPaged(s)
    PROVE  HandlesReach(s)
<1>. SUFFICES ASSUME ~Disabled(s, TRUE)
     PROVE  /\ \A w \in 0..MaxWindow : \A p \in Gets(s, w) : RowsGot(s, p) # {}
            /\ \A w \in 1..MaxWindow : s.currentPage \in Window(s, w)
            /\ UNION { RowsGot(s, PageOfInput(s, k)) : k \in 0..s.lastPage + 1 } = 1..s.totalRecords
  BY DEF HandlesReach
<1>1. s \in PageStates /\ s.totalRecords > 0 /\ s.currentPage \in Nat /\ s.currentPage >= 1
      /\ s.currentPage <= LastShown(s)
  BY DEF Disabled, WellPaged, PageStates, Unknown, FirstPage
<1>2. ASSUME NEW w \in 0..MaxWindow, NEW p \in Gets(s, w) PROVE RowsGot(s, p) # {}
  <2>1. \A label \in Window(s, w) : label \in Nat /\ label >= 1
    BY <1>1, WindowPages
  <2>2. p \in Nat /\ p >= 1
    BY <1>1, <2>1 DEF Gets, PageOfLabel, FirstPage, HasPrevious, HasNext
  <2>. QED  BY <1>1, <2>2, BringsRows
<1>3. ASSUME NEW w \in 1..MaxWindow PROVE s.currentPage \in Window(s, w)
  <2>1. w \in Nat /\ w >= 1
    BY PagingAssumption
  <2>. QED  BY <1>1, <2>1, WindowPages
<1>. QED  BY <1>1, <1>2, <1>3, FieldReaches

(***************************************************************************)
(* How the state changes.                                                  *)
(***************************************************************************)
Askable(st) ==
    /\ st \in PageStates
    /\ ~RaisesRangeError(st)
    /\ OnePage /\ st.totalRecords = Unknown => st.currentPage = FirstPage

Checked == \E st : Askable(st) /\ state' = CheckState(st)

\* What is asked for before the first answer, and by a grid of one page.
AskableOK ==
    /\ Askable(state)
    /\ \A i \in Ids : requests[i].kind = "size" => ~OnePage
    /\ \A i \in Ids : requests[i].phase = "waiting" => requests[i].kind # "destroy"

CountedOff == state' = [state EXCEPT !.totalRecords = IF @ > 0 THEN @ - 1 ELSE @]

LEMMA CheckedIsAskable ==
    ASSUME NEW st, Askable(st)
    PROVE  Askable(CheckState(st))
<1>1. CheckState(st) \in PageStates /\ ~RaisesRangeError(CheckState(st))
  BY CheckStateSafe DEF Askable
<1>2. CheckState(st).totalRecords = st.totalRecords
  BY DEF CheckState
<1>3. st.totalRecords = Unknown => CheckState(st) = st
  BY DEF CheckState
<1>. QED  BY <1>1, <1>2, <1>3 DEF Askable

LEMMA PageChosen ==
    ASSUME state \in PageStates, NEW n \in 0..MaxTotal, n \in Choices
    PROVE  [state EXCEPT !.currentPage = n] \in PageStates /\ Fine([state EXCEPT !.currentPage = n])
BY GridPagingAssumption DEF Choices, PageStates, FirstPage, Fine, Unknown

LEMMA SizeChosen ==
    ASSUME state \in PageStates, Fine(state), NEW n \in PageSizes
    PROVE  [state EXCEPT !.pageSize = n] \in PageStates /\ Fine([state EXCEPT !.pageSize = n])
BY GridPagingAssumption DEF PageStates, Fine

LEMMA RaisedNotIntact ==
    ASSUME IInv, NEW i \in Ids, FetchRaises(i)
    PROVE  ~Intact'
<1>1. AfterReset(i)[i] = Idle
  BY DEF AfterReset
<1>2. requests'[i].phase = "raised"
  BY <1>1 DEF FetchRaises, AfterReset, Idle
<1>. QED  BY <1>2 DEF Intact

\* The grid is not put together again.
LEMMA IntactBefore ==
    ASSUME [Next]_vars, Intact'
    PROVE  Intact
BY DEF Next, OthersChangeData, vars, Intact

LEMMA FetchChecks ==
    ASSUME NEW i, NEW kind, NEW from, NEW held \in BOOLEAN,
           NEW st, Askable(st), Fetch(i, kind, from, CheckState(st), held)
    PROVE  Checked
<1>1. Askable(CheckState(st))
  BY CheckedIsAskable
<1>. QED  BY <1>1 DEF Fetch, HoldFetch, SendFetch, Checked

LEMMA FineIsAskable ==
    ASSUME NEW st \in PageStates, Fine(st), ~OnePage \/ st.currentPage = FirstPage
    PROVE  Askable(st)
BY CheckStateSafe DEF Askable

LEMMA StateSteps ==
    ASSUME IInv, AskableOK, Intact, Intact', [Next]_vars
    PROVE  state' = state \/ CountedOff \/ Checked
<1>. Askable(state) /\ state \in PageStates /\ Fine(state)
  BY DEF AskableOK, Askable, IInv, PagesOK
<1>. \A i \in Ids : requests[i] \in Requests
  BY DEF IInv, TypeOK
<1>1. ASSUME NEW i \in Ids, NEW n \in 0..MaxTotal, NEW held \in BOOLEAN, UserGetsPage(i, n, held)
      PROVE  Checked
  <2>1. Askable([state EXCEPT !.currentPage = n])
    BY <1>1, PageChosen, FineIsAskable DEF UserGetsPage
  <2>. QED  BY <1>1, <2>1, FetchChecks DEF UserGetsPage
<1>2. ASSUME NEW i \in Ids, NEW n \in PageSizes, NEW held \in BOOLEAN, UserSetsPageSize(i, n, held)
      PROVE  Checked
  <2>1. Askable([state EXCEPT !.pageSize = n])
    BY <1>2, SizeChosen, FineIsAskable DEF UserSetsPageSize
  <2>. QED  BY <1>2, <2>1, FetchChecks DEF UserSetsPageSize
<1>3. ASSUME NEW i \in Ids, Confirm(i) PROVE Checked
  BY <1>3 DEF Confirm, Checked
<1>4. ASSUME NEW i \in Ids, state' = Reverted(requests[i]) PROVE state' = state \/ Checked
  <2>1. CASE requests[i].kind = "size"
    <3>1. Askable(requests[i].from)
      BY <2>1, FineIsAskable DEF Requests, IInv, PagesOK, AskableOK
    <3>. QED  BY <1>4, <2>1, <3>1 DEF Reverted, Checked
  <2>2. CASE requests[i].kind # "size"
    BY <1>4, <2>2 DEF Reverted
  <2>. QED  BY <2>1, <2>2
<1>5. ASSUME NEW i \in Ids, NEW held \in BOOLEAN, Refresh(i, held) PROVE state' = state \/ Checked
  BY <1>5 DEF Refresh, Fetch, HoldFetch, SendFetch, Checked
<1>6. ASSUME NEW i \in Ids, NEW held \in BOOLEAN, Reset(i, held) PROVE Checked
  <2>1. Askable(InitialState)
    BY GridPagingAssumption, FineIsAskable DEF InitialState, PageStates, FirstPage, Fine
  <2>. QED  BY <1>6, <2>1, FetchChecks DEF Reset
<1>7. ASSUME NEW i \in Ids, FetchSucceeds(i) PROVE Checked
  <2>. DEFINE st == Counted(i)
  <2>1. st \in PageStates /\ st.totalRecords # Unknown
    BY DEF Counted, PageStates, Requests, Unknown
  <2>2. state' = CheckState(st) /\ ~RaisesRangeError(st)
    BY <1>7 DEF FetchSucceeds
  <2>. QED  BY <2>1, <2>2 DEF Checked, Askable
<1>8. ASSUME NEW i \in Ids, NEW held \in BOOLEAN, RowDestroyed(i, held) PROVE CountedOff \/ Checked
  <2>. DEFINE st == [state EXCEPT !.totalRecords = IF @ > 0 THEN @ - 1 ELSE @]
  <2>1. Askable(st)
    <3>1. st \in PageStates /\ Fine(st) /\ st.currentPage = state.currentPage
          /\ (st.totalRecords = Unknown => state.totalRecords = Unknown)
      BY DEF PageStates, Unknown, Fine
    <3>. QED  BY <3>1, CheckStateSafe DEF Askable
  <2>2. state' = st \/ state' = CheckState(st)
    BY <1>8 DEF RowDestroyed, HoldFetch, SendFetch
  <2>. QED  BY <2>1, <2>2 DEF Checked, CountedOff
<1>9. ASSUME NEW i \in Ids, NEW held \in BOOLEAN, AjaxActionSucceeds(i, held)
      PROVE state' = state \/ Checked
  BY <1>9 DEF AjaxActionSucceeds, HoldFetch, SendFetch, Checked
<1>10. ASSUME NEW i \in Ids, UserStep(i) \/ RefreshStep(i) PROVE state' = state \/ Checked
  BY <1>1, <1>2, <1>3, <1>4, <1>5, <1>6, <1>10 DEF UserStep, RefreshStep, Cancel, DestroyRow
<1>11. ASSUME NEW i \in Ids, AnswerStep(i) \/ ServeFetch(i) \/ ServeDestroy(i)
       PROVE state' = state \/ CountedOff \/ Checked
  BY <1>4, <1>7, <1>8, <1>11, RaisedNotIntact
  DEF AnswerStep, ServeFetch, ServeDestroy, RequestFails, DetachedRowDestroyed
<1>12. CASE StartAjaxAction \/ AjaxAnswerStep \/ OthersChangeData \/ UNCHANGED vars
  BY <1>9, <1>12 DEF StartAjaxAction, AjaxAnswerStep, AjaxActionFails, OthersChangeData, vars
<1>. QED  BY <1>10, <1>11, <1>12 DEF Next, WorkStep

(***************************************************************************)
(* How the slots change.                                                   *)
(***************************************************************************)
\* Slot i becomes r, the others may only be disturbed or detached.
Becomes(i, r) ==
    /\ requests'[i] = r
    /\ \A j \in Ids \ {i} :
         /\ requests'[j].phase = requests[j].phase /\ requests'[j].kind = requests[j].kind
         /\ requests'[j].page = requests[j].page /\ requests'[j].size = requests[j].size
         /\ requests'[j].total = requests[j].total /\ requests'[j].count = requests[j].count
         /\ requests'[j].from = requests[j].from
         /\ requests'[j].undisturbed => requests[j].undisturbed

LEMMA FetchBegins ==
    ASSUME IInv, NEW i \in Ids, NEW kind \in Kinds, NEW from \in PageStates, NEW st,
           SendFetch(i, kind, from, st) \/ HoldFetch(i, kind, from, st)
    PROVE  /\ \A j \in Ids \ {i} : ~requests'[j].undisturbed
           /\ \/ /\ Becomes(i, Sent(Called(i, kind, from), st)) /\ state' = CheckState(st)
              \/ /\ Becomes(i, Called(i, kind, from)) /\ state' = st
<1>1. requests \in [Ids -> Requests]
  BY DEF IInv, TypeOK
<1>. DEFINE r == IF SendFetch(i, kind, from, st) THEN Sent(Called(i, kind, from), st)
                 ELSE Called(i, kind, from)
<1>2. requests' = [Disturbed EXCEPT ![i] = r]
  BY DEF SendFetch, HoldFetch
<1>. HIDE DEF r
<1>3. requests'[i] = r
  BY <1>2 DEF Disturbed
<1>4. ASSUME NEW j \in Ids \ {i}
      PROVE  /\ requests'[j].phase = requests[j].phase /\ requests'[j].kind = requests[j].kind
             /\ requests'[j].page = requests[j].page /\ requests'[j].size = requests[j].size
             /\ requests'[j].total = requests[j].total /\ requests'[j].count = requests[j].count
             /\ requests'[j].from = requests[j].from
             /\ ~requests'[j].undisturbed
  <2>1. requests'[j] = [requests[j] EXCEPT !.undisturbed = FALSE]
    BY <1>2 DEF Disturbed
  <2>2. requests[j] \in Requests
    BY <1>1
  <2>. QED  BY <2>1, <2>2 DEF Requests
<1>5. Becomes(i, r)
  BY <1>3, <1>4 DEF Becomes
<1>. QED  BY <1>4, <1>5 DEF r, SendFetch, HoldFetch

LEMMA OneSlotBecomes ==
    ASSUME IInv, NEW i \in Ids, NEW r, requests' = [requests EXCEPT ![i] = r]
    PROVE  Becomes(i, r)
BY DEF Becomes, IInv, TypeOK

LEMMA ResetBecomes ==
    ASSUME IInv, NEW i \in Ids, requests' = AfterReset(i)
    PROVE  Becomes(i, Idle)
<1>1. requests'[i] = Idle
  BY DEF AfterReset
<1>2. ASSUME NEW j \in Ids \ {i}
      PROVE  /\ requests'[j].phase = requests[j].phase /\ requests'[j].kind = requests[j].kind
             /\ requests'[j].page = requests[j].page /\ requests'[j].size = requests[j].size
             /\ requests'[j].total = requests[j].total /\ requests'[j].count = requests[j].count
             /\ requests'[j].from = requests[j].from
             /\ requests'[j].undisturbed = requests[j].undisturbed
  <2>1. requests'[j] = [requests[j] EXCEPT !.attached = FALSE] /\ requests[j] \in Requests
    BY <1>2 DEF AfterReset, IInv, TypeOK
  <2>. QED  BY <2>1 DEF Requests
<1>. QED  BY <1>1, <1>2 DEF Becomes

LEMMA CalledFields ==
    ASSUME NEW i \in Ids, NEW kind \in Kinds, NEW from \in PageStates
    PROVE  LET r == Called(i, kind, from)
           IN  r.phase = "waiting" /\ r.kind = kind /\ r.from = from /\ r.undisturbed = Alone(i)
BY DEF Called, Idle

LEMMA SentFields ==
    ASSUME NEW r \in Requests, NEW st
    PROVE  /\ Sent(r, st).phase = "sent" /\ Sent(r, st).kind = r.kind /\ Sent(r, st).from = r.from
           /\ Sent(r, st).undisturbed = r.undisturbed
           /\ Sent(r, st).page = CheckState(st).currentPage
           /\ Sent(r, st).size = CheckState(st).pageSize
BY DEF Sent, Requests

(***************************************************************************)
(* Every step is of one of these kinds, with slot i.                       *)
(***************************************************************************)
\* A fetch of kind begins and checks or leaves the state st.
Begins(i, kind, from, st) ==
    /\ kind \in Kinds /\ kind # "destroy" /\ from \in PageStates
    /\ \A j \in Ids \ {i} : ~requests'[j].undisturbed
    /\ \/ Becomes(i, Sent(Called(i, kind, from), st)) /\ state' = CheckState(st)
       \/ Becomes(i, Called(i, kind, from)) /\ state' = st

FetchBeginsStep ==
    \E i \in Ids, kind \in Kinds, from \in PageStates, st \in PageStates :
        /\ Begins(i, kind, from, st)
        /\ kind = "size" => ~OnePage

ConfirmStep ==
    \E i \in Ids : /\ requests[i].phase = "waiting" /\ Becomes(i, Sent(requests[i], state))
                   /\ state' = CheckState(state)

FetchEndsStep == \E i \in Ids : IsFetch(requests[i]) /\ Becomes(i, Idle)

DestroyStep ==
    /\ state' = state
    /\ \E i \in Ids, r \in Requests : Becomes(i, r) /\ ~IsFetch(r) /\ r.kind # "size"
                                      /\ r.phase \notin {"waiting", "raised"}

Served(r) == [r EXCEPT !.phase = "answered", !.total = total,
                       !.count = Answered(r.page, r.size, total)]

ServeStep ==
    /\ state' = state
    /\ \E i \in Ids : /\ requests[i].phase = "sent" /\ IsFetch(requests[i])
                       /\ Becomes(i, Served(requests[i]))

OtherStep == UNCHANGED <<state, requests>>

RaiseStep == \E i \in Ids : FetchRaises(i)

LEMMA FetchIsBegun ==
    ASSUME IInv, NEW i \in Ids, NEW kind \in {"fetch", "size"}, NEW from \in PageStates,
           NEW st \in PageStates, kind = "size" => ~OnePage,
           SendFetch(i, kind, from, st) \/ HoldFetch(i, kind, from, st)
    PROVE  FetchBeginsStep
<1>1. kind \in Kinds /\ kind # "destroy"
  BY DEF Kinds
<1>. QED  BY <1>1, FetchBegins DEF Begins, FetchBeginsStep

LEMMA StepKinds ==
    ASSUME IInv, AskableOK, Intact, [Next]_vars
    PROVE  \/ FetchBeginsStep \/ ConfirmStep \/ FetchEndsStep
           \/ DestroyStep \/ ServeStep \/ OtherStep \/ RaiseStep
<1>. Askable(state) /\ state \in PageStates /\ Fine(state)
  BY DEF AskableOK, Askable, IInv, PagesOK
<1>. requests \in [Ids -> Requests]
  BY DEF IInv, TypeOK
<1>1. ASSUME NEW i \in Ids, NEW n \in 0..MaxTotal, NEW held \in BOOLEAN, UserGetsPage(i, n, held)
      PROVE  FetchBeginsStep
  <2>. DEFINE st == [state EXCEPT !.currentPage = n]
  <2>1. st \in PageStates
    BY <1>1 DEF PageStates
  <2>2. CheckState(st) \in PageStates
    BY <2>1, CheckStateSafe
  <2>. HIDE DEF st
  <2>3. SendFetch(i, "fetch", NoState, CheckState(st)) \/ HoldFetch(i, "fetch", NoState, CheckState(st))
    BY <1>1 DEF UserGetsPage, Fetch, st
  <2>. QED  BY <2>2, <2>3, FetchIsBegun, NoStateType
<1>2. ASSUME NEW i \in Ids, NEW n \in PageSizes, NEW held \in BOOLEAN, UserSetsPageSize(i, n, held)
      PROVE  FetchBeginsStep
  <2>. DEFINE st == [state EXCEPT !.pageSize = n]
  <2>1. st \in PageStates
    BY GridPagingAssumption DEF PageStates
  <2>2. CheckState(st) \in PageStates
    BY <2>1, CheckStateSafe
  <2>. HIDE DEF st
  <2>3. SendFetch(i, "size", state, CheckState(st)) \/ HoldFetch(i, "size", state, CheckState(st))
    BY <1>2 DEF UserSetsPageSize, Fetch, st
  <2>4. ~OnePage
    BY <1>2 DEF UserSetsPageSize
  <2>. QED  BY <2>2, <2>3, <2>4, FetchIsBegun
<1>3. ASSUME NEW i \in Ids, Confirm(i) PROVE ConfirmStep
  <2>1. requests' = [requests EXCEPT ![i] = Sent(requests[i], state)]
    BY <1>3 DEF Confirm
  <2>2. Becomes(i, Sent(requests[i], state))
    BY <2>1, OneSlotBecomes
  <2>. QED  BY <1>3, <2>2 DEF Confirm, ConfirmStep
<1>4. ASSUME NEW i \in Ids, Cancel(i) PROVE FetchEndsStep
  <2>1. IsFetch(requests[i])
    BY <1>4 DEF Cancel, IsFetch, AskableOK
  <2>2. requests' = [requests EXCEPT ![i] = Idle]
    BY <1>4 DEF Cancel
  <2>3. Becomes(i, Idle)
    BY <2>2, OneSlotBecomes
  <2>. QED  BY <2>1, <2>3 DEF FetchEndsStep
<1>5. ASSUME NEW i \in Ids, DestroyRow(i) PROVE DestroyStep
  <2>. DEFINE r == [Idle EXCEPT !.phase = "sent", !.kind = "destroy", !.attached = TRUE]
  <2>1. r \in Requests /\ r.phase = "sent" /\ r.kind = "destroy"
    BY IdleType DEF Requests, Phases, Kinds, Idle
  <2>2. requests' = [requests EXCEPT ![i] = r] /\ state' = state
    BY <1>5 DEF DestroyRow
  <2>. HIDE DEF r
  <2>3. Becomes(i, r)
    BY <2>2, OneSlotBecomes
  <2>. QED  BY <2>1, <2>2, <2>3 DEF DestroyStep, IsFetch
<1>6. ASSUME NEW i \in Ids, NEW held \in BOOLEAN, Refresh(i, held) PROVE FetchBeginsStep
  <2>1. SendFetch(i, "fetch", NoState, state) \/ HoldFetch(i, "fetch", NoState, state)
    BY <1>6 DEF Refresh, Fetch
  <2>. QED  BY <2>1, FetchIsBegun, NoStateType
<1>7. ASSUME NEW i \in Ids, NEW held \in BOOLEAN, Reset(i, held) PROVE FetchBeginsStep
  <2>. DEFINE st == CheckState(InitialState)
  <2>1. InitialState \in PageStates
    BY GridPagingAssumption DEF InitialState, PageStates, FirstPage
  <2>2. st \in PageStates
    BY <2>1, CheckStateSafe
  <2>. HIDE DEF st
  <2>3. SendFetch(i, "fetch", NoState, st) \/ HoldFetch(i, "fetch", NoState, st)
    BY <1>7 DEF Reset, Fetch, st
  <2>. QED  BY <2>2, <2>3, FetchIsBegun, NoStateType
<1>8. ASSUME NEW i \in Ids, FetchSucceeds(i) PROVE FetchEndsStep
  BY <1>8, ResetBecomes DEF FetchSucceeds, FetchEndsStep, IsFetch
<1>9. ASSUME NEW i \in Ids, requests' = [requests EXCEPT ![i] = Idle],
             i \in InFlight, state' = Reverted(requests[i])
      PROVE  FetchEndsStep \/ DestroyStep
  <2>1. Becomes(i, Idle)
    BY <1>9, OneSlotBecomes
  <2>2. CASE IsFetch(requests[i])
    BY <2>1, <2>2 DEF FetchEndsStep
  <2>3. CASE ~IsFetch(requests[i])
    <3>1. state' = state
      BY <1>9, <2>3 DEF IsFetch, InFlight, Reverted
    <3>2. Idle \in Requests /\ Idle.phase = "idle" /\ Idle.kind = "fetch"
      BY IdleType DEF Idle
    <3>. QED  BY <2>1, <3>1, <3>2 DEF DestroyStep, IsFetch
  <2>. QED  BY <2>2, <2>3
<1>10. ASSUME NEW i \in Ids, NEW held \in BOOLEAN, RowDestroyed(i, held) PROVE FetchBeginsStep
  <2>. DEFINE st == [state EXCEPT !.totalRecords = IF @ > 0 THEN @ - 1 ELSE @]
  <2>1. st \in PageStates
    BY DEF PageStates, Unknown
  <2>2. SendFetch(i, "fetch", NoState, st) \/ HoldFetch(i, "fetch", NoState, st)
    BY <1>10 DEF RowDestroyed
  <2>. HIDE DEF st
  <2>. QED  BY <2>1, <2>2, FetchIsBegun, NoStateType
<1>11. ASSUME NEW i \in Ids, DetachedRowDestroyed(i) PROVE DestroyStep
  <2>1. Becomes(i, Idle)
    BY <1>11, OneSlotBecomes DEF DetachedRowDestroyed
  <2>2. Idle \in Requests /\ Idle.phase = "idle" /\ Idle.kind = "fetch"
    BY IdleType DEF Idle
  <2>. QED  BY <1>11, <2>1, <2>2 DEF DestroyStep, IsFetch, DetachedRowDestroyed
<1>12. ASSUME NEW i \in Ids, ServeFetch(i) PROVE ServeStep
  <2>1. requests' = [requests EXCEPT ![i] = Served(requests[i])] /\ state' = state
    BY <1>12 DEF ServeFetch, Served
  <2>2. Becomes(i, Served(requests[i]))
    BY <2>1, OneSlotBecomes
  <2>. QED  BY <1>12, <2>1, <2>2 DEF ServeStep, ServeFetch, IsFetch
<1>13. ASSUME NEW i \in Ids, ServeDestroy(i) PROVE DestroyStep
  <2>. DEFINE r == [requests[i] EXCEPT !.phase = "answered"]
  <2>1. r \in Requests /\ r.phase = "answered" /\ r.kind = "destroy"
    BY <1>13 DEF Requests, Phases, ServeDestroy
  <2>2. requests' = [requests EXCEPT ![i] = r] /\ state' = state
    BY <1>13 DEF ServeDestroy
  <2>. HIDE DEF r
  <2>3. Becomes(i, r)
    BY <2>2, OneSlotBecomes
  <2>. QED  BY <2>1, <2>2, <2>3 DEF DestroyStep, IsFetch
<1>14. ASSUME NEW i \in Ids, NEW held \in BOOLEAN, AjaxActionSucceeds(i, held) PROVE FetchBeginsStep
  <2>1. SendFetch(i, "fetch", NoState, state) \/ HoldFetch(i, "fetch", NoState, state)
    BY <1>14 DEF AjaxActionSucceeds
  <2>. QED  BY <2>1, FetchIsBegun, NoStateType
<1>15. CASE StartAjaxAction \/ AjaxActionFails \/ OthersChangeData \/ UNCHANGED vars
  BY <1>15 DEF StartAjaxAction, AjaxActionFails, OthersChangeData, vars, OtherStep
<1>16. ASSUME NEW i \in Ids, UserStep(i) \/ RefreshStep(i)
       PROVE FetchBeginsStep \/ ConfirmStep \/ FetchEndsStep \/ DestroyStep
  BY <1>1, <1>2, <1>3, <1>4, <1>5, <1>6, <1>7, <1>16 DEF UserStep, RefreshStep
<1>17. ASSUME NEW i \in Ids, AnswerStep(i) \/ ServeFetch(i) \/ ServeDestroy(i)
       PROVE FetchBeginsStep \/ FetchEndsStep \/ DestroyStep \/ ServeStep \/ RaiseStep
  BY <1>8, <1>9, <1>10, <1>11, <1>12, <1>13, <1>17 DEF AnswerStep, RequestFails, RaiseStep
<1>. QED  BY <1>14, <1>15, <1>16, <1>17 DEF Next, WorkStep, AjaxAnswerStep

LEMMA AskableInit == Init => AskableOK /\ WellPaged(state)
<1>. SUFFICES ASSUME Init PROVE AskableOK /\ WellPaged(state)
  OBVIOUS
<1>1. PICK n \in 0..MaxTotal, p \in 1..(MaxTotal + 1) :
        state = CheckState([totalRecords |-> n, pageSize |-> DefaultPageSize,
                            currentPage |-> p, totalPages |-> Unknown, lastPage |-> Unknown])
  BY DEF Init
<1>. DEFINE s == [totalRecords |-> n, pageSize |-> DefaultPageSize,
                  currentPage |-> p, totalPages |-> Unknown, lastPage |-> Unknown]
<1>2. Askable(s) /\ s \in PageStates /\ ~RaisesRangeError(s)
  <2>1. s \in PageStates /\ Fine(s) /\ s.totalRecords # Unknown
    BY GridPagingAssumption DEF PageStates, FirstPage, Unknown, Fine
  <2>. QED  BY <2>1, CheckStateSafe DEF Askable
<1>3. state = CheckState(s)
  BY <1>1
<1>. HIDE DEF s
<1>4. Askable(state) /\ WellPaged(state)
  BY <1>2, <1>3, CheckedIsAskable, CheckedIsWellPaged
<1>. QED  BY <1>4 DEF Init, AskableOK, Idle

LEMMA AskableStep ==
    ASSUME IInv, AskableOK, Intact, Intact', [Next]_vars
    PROVE  AskableOK'
<1>. requests \in [Ids -> Requests] /\ IInv'
  BY NextIInv DEF IInv, TypeOK
<1>1. Askable(state)'
  <2>1. CASE state' = state
    BY <2>1 DEF AskableOK, Askable
  <2>2. CASE CountedOff
    <3>. DEFINE st == [state EXCEPT !.totalRecords = IF @ > 0 THEN @ - 1 ELSE @]
    <3>1. state \in PageStates /\ Fine(state)
      BY DEF IInv, TypeOK, PagesOK
    <3>2. st \in PageStates /\ Fine(st) /\ st.currentPage = state.currentPage
          /\ (st.totalRecords = Unknown => state.totalRecords = Unknown)
      BY <3>1 DEF PageStates, Unknown, Fine
    <3>3. Askable(st)
      BY <3>2, CheckStateSafe DEF Askable, AskableOK
    <3>. HIDE DEF st
    <3>4. state' = st
      BY <2>2 DEF CountedOff, st
    <3>. QED  BY <3>3, <3>4
  <2>3. CASE Checked
    BY <2>3, CheckedIsAskable DEF Checked, Askable
  <2>. QED  BY <2>1, <2>2, <2>3, StateSteps
<1>. DEFINE SlotOK(r) == /\ r.kind = "size" => ~OnePage
                         /\ r.phase = "waiting" => r.kind # "destroy"
<1>2. ASSUME NEW i \in Ids, NEW r, Becomes(i, r), SlotOK(r)
      PROVE  \A j \in Ids : SlotOK(requests'[j])
  BY <1>2 DEF Becomes, AskableOK
<1>3. \A j \in Ids : SlotOK(requests'[j])
  <2>1. CASE FetchBeginsStep
    <3>1. PICK i \in Ids, kind \in Kinds, from \in PageStates, st \in PageStates :
            Begins(i, kind, from, st) /\ (kind = "size" => ~OnePage)
      BY <2>1 DEF FetchBeginsStep
    <3>. DEFINE r == Called(i, kind, from)
                q == Sent(r, st)
    <3>2. r \in Requests /\ r.kind = kind /\ r.from = from /\ r.phase = "waiting"
      BY CalledType
    <3>. HIDE DEF r
    <3>3. q.kind = kind /\ q.from = from /\ q.phase = "sent"
      BY <3>2, SentFields
    <3>. HIDE DEF q
    <3>4. Becomes(i, r) \/ Becomes(i, q)
      BY <3>1 DEF Begins, r, q
    <3>5. SlotOK(r) /\ SlotOK(q)
      BY <3>1, <3>2, <3>3 DEF Begins
    <3>. HIDE DEF SlotOK
    <3>. QED  BY <1>2, <3>4, <3>5
  <2>2. CASE ConfirmStep
    <3>1. PICK i \in Ids : Becomes(i, Sent(requests[i], state))
      BY <2>2 DEF ConfirmStep
    <3>. DEFINE q == Sent(requests[i], state)
    <3>2. q.kind = requests[i].kind /\ q.from = requests[i].from /\ q.phase = "sent"
      BY SentFields
    <3>. HIDE DEF q
    <3>3. SlotOK(q) /\ Becomes(i, q)
      BY <3>1, <3>2 DEF AskableOK, q
    <3>. HIDE DEF SlotOK
    <3>. QED  BY <1>2, <3>3
  <2>3. CASE FetchEndsStep
    <3>1. SlotOK(Idle)
      BY DEF Idle
    <3>. HIDE DEF SlotOK
    <3>. QED  BY <1>2, <2>3, <3>1 DEF FetchEndsStep
  <2>4. CASE DestroyStep
    BY <1>2, <2>4 DEF DestroyStep
  <2>5. CASE ServeStep
    <3>1. PICK i \in Ids : Becomes(i, Served(requests[i]))
      BY <2>5 DEF ServeStep
    <3>. DEFINE q == Served(requests[i])
    <3>2. q.kind = requests[i].kind /\ q.from = requests[i].from /\ q.phase = "answered"
      BY DEF Requests, Served
    <3>. HIDE DEF q
    <3>3. SlotOK(q) /\ Becomes(i, q)
      BY <3>1, <3>2 DEF AskableOK, q
    <3>. HIDE DEF SlotOK
    <3>. QED  BY <1>2, <3>3
  <2>6. CASE OtherStep
    BY <2>6 DEF OtherStep, AskableOK
  <2>. QED  BY <2>1, <2>2, <2>3, <2>4, <2>5, <2>6, StepKinds, RaisedNotIntact DEF RaiseStep
<1>. QED  BY <1>1, <1>3 DEF AskableOK

LEMMA WellPagedStep ==
    ASSUME IInv, AskableOK, WellPaged(state), Intact, Intact', [Next]_vars
    PROVE  WellPaged(state)'
<1>1. CASE state' = state
  BY <1>1 DEF WellPaged, LastShown
<1>2. CASE Checked
  BY <1>2, CheckedIsWellPaged DEF Checked, Askable
<1>3. CASE CountedOff
  <2>. DEFINE n == state.totalRecords
              s == [state EXCEPT !.totalRecords = IF n > 0 THEN n - 1 ELSE n]
  <2>1. state \in PageStates /\ n \in Nat \cup {-1} /\ state.pageSize \in Nat
    BY DEF IInv, TypeOK, PageStates, Unknown
  <2>2. s \in PageStates /\ s.currentPage = state.currentPage /\ s.lastPage = state.lastPage
        /\ s.pageSize = state.pageSize /\ s.totalRecords = IF n > 0 THEN n - 1 ELSE n
    BY <2>1 DEF PageStates, Unknown
  <2>3. state' = s
    BY <1>3 DEF CountedOff
  <2>. HIDE DEF s
  <2>4. WellPaged(s)
    <3>1. ASSUME s.totalRecords > 0
          PROVE /\ s.currentPage >= FirstPage /\ s.currentPage <= LastShown(s)
                /\ ~OnePage /\ s.pageSize > 0 => CeilDiv(s.totalRecords, s.pageSize) <= s.lastPage
      <4>1. n \in Nat /\ n > 0 /\ n - 1 \in Nat /\ s.totalRecords = n - 1
        BY <2>1, <2>2, <3>1
      <4>2. s.currentPage >= FirstPage /\ s.currentPage <= LastShown(s)
        BY <2>2, <4>1 DEF WellPaged, LastShown
      <4>3. ASSUME ~OnePage, s.pageSize > 0
            PROVE  CeilDiv(s.totalRecords, s.pageSize) <= s.lastPage
        <5>1. CeilDiv(n, state.pageSize) <= state.lastPage
          BY <2>2, <4>1, <4>3 DEF WellPaged
        <5>2. CeilDiv(n - 1, state.pageSize) <= CeilDiv((n - 1) + 1, state.pageSize)
          BY <2>1, <2>2, <4>1, <4>3, FewerPages
        <5>3. (n - 1) + 1 = n
          BY <4>1
        <5>4. CeilDiv(n, state.pageSize) \in Nat /\ CeilDiv(n - 1, state.pageSize) \in Nat
              /\ state.lastPage \in Int
          BY <2>1, <2>2, <4>1, <4>3, CeilDivType DEF PageStates, Unknown
        <5>. HIDE DEF n
        <5>. QED  BY <2>2, <4>1, <5>1, <5>2, <5>3, <5>4
      <4>. QED  BY <4>2, <4>3
    <3>. QED  BY <2>2, <3>1 DEF WellPaged
  <2>. QED  BY <2>3, <2>4 DEF WellPaged, LastShown
<1>. QED  BY <1>1, <1>2, <1>3, StateSteps

PagingInv == IInv /\ (Intact => AskableOK /\ WellPaged(state))

LEMMA PagingInvInit == Init => PagingInv
BY InitIInv, AskableInit DEF PagingInv

LEMMA PagingInvStep == PagingInv /\ [Next]_vars => PagingInv'
<1>. SUFFICES ASSUME PagingInv, [Next]_vars PROVE PagingInv'
  OBVIOUS
<1>1. IInv /\ IInv'
  BY NextIInv DEF PagingInv
<1>2. ASSUME Intact' PROVE AskableOK' /\ WellPaged(state)'
  <2>1. Intact /\ AskableOK /\ WellPaged(state)
    BY <1>2, IntactBefore DEF PagingInv
  <2>. QED  BY <1>1, <1>2, <2>1, AskableStep, WellPagedStep
<1>. QED  BY <1>1, <1>2 DEF PagingInv

LEMMA RaisesOnPageZero ==
    ASSUME PagingInv, [Next]_vars, Intact, ~Intact'
    PROVE  state.currentPage = 0 /\ state.totalRecords = Unknown
<1>. IInv /\ AskableOK /\ requests \in [Ids -> Requests]
  BY DEF PagingInv, IInv, TypeOK
<1>1. ASSUME NEW i \in Ids, FetchRaises(i)
      PROVE  state.currentPage = 0 /\ state.totalRecords = Unknown
  <2>1. RaisesRangeError(Counted(i))
    BY <1>1 DEF FetchRaises
  <2>2. /\ Counted(i) \in PageStates /\ Counted(i).currentPage = state.currentPage
        /\ state \in PageStates /\ Fine(state)
    BY DEF IInv, TypeOK, PagesOK, Counted, PageStates, Requests
  <2>3. ~(state.currentPage >= FirstPage)
    BY <2>1, <2>2, CheckStateSafe DEF Fine
  <2>. QED  BY <2>2, <2>3 DEF Fine, FirstPage, PageStates
<1>2. ASSUME NEW i \in Ids, NEW q, Becomes(i, q), q.phase # "raised" PROVE FALSE
  BY <1>2 DEF Becomes, Intact
<1>3. CASE FetchBeginsStep
  <2>1. PICK i \in Ids, kind \in Kinds, from \in PageStates, st \in PageStates :
          Begins(i, kind, from, st)
    BY <1>3 DEF FetchBeginsStep
  <2>. DEFINE q == Called(i, kind, from)
  <2>2. q \in Requests /\ q.phase = "waiting"
    BY CalledType
  <2>. HIDE DEF q
  <2>3. Sent(q, st).phase = "sent"
    BY <2>2, SentFields
  <2>4. Becomes(i, q) \/ Becomes(i, Sent(q, st))
    BY <2>1 DEF Begins, q
  <2>. QED  BY <1>2, <2>2, <2>3, <2>4
<1>4. CASE ConfirmStep
  <2>1. PICK i \in Ids : Becomes(i, Sent(requests[i], state))
    BY <1>4 DEF ConfirmStep
  <2>2. Sent(requests[i], state).phase = "sent"
    BY SentFields
  <2>. QED  BY <1>2, <2>1, <2>2
<1>5. CASE FetchEndsStep
  <2>1. Idle.phase = "idle"
    BY DEF Idle
  <2>2. PICK i \in Ids : Becomes(i, Idle)
    BY <1>5 DEF FetchEndsStep
  <2>. QED  BY <1>2, <2>1, <2>2
<1>6. CASE DestroyStep
  <2>1. PICK i \in Ids, q \in Requests : Becomes(i, q) /\ q.phase # "raised"
    BY <1>6 DEF DestroyStep
  <2>. QED  BY <1>2, <2>1
<1>7. CASE ServeStep
  <2>1. PICK i \in Ids : Becomes(i, Served(requests[i]))
    BY <1>7 DEF ServeStep
  <2>2. Served(requests[i]).phase = "answered"
    BY DEF Served, Requests
  <2>. QED  BY <1>2, <2>1, <2>2
<1>8. CASE OtherStep
  <2>1. requests' = requests
    BY <1>8 DEF OtherStep
  <2>. QED  BY <2>1 DEF Intact
<1>. QED  BY <1>1, <1>3, <1>4, <1>5, <1>6, <1>7, <1>8, StepKinds DEF RaiseStep

\* No sequence of clicks, held-back or failed fetches, removals and late answers makes
\* PageableCollection._checkState raise its RangeError, but for an answer that meets
\* the page 0 of a pager used while the total is not known.
THEOREM NeverOutOfRange == Spec => NoRangeError
<1>. DEFINE Accepted == Intact => ~RaisesRangeError(state)
            Raise == Intact /\ ~Intact' => state.currentPage = 0 /\ state.totalRecords = Unknown
<1>1. IInv => Accepted
  BY CheckStateSafe DEF IInv, TypeOK, PagesOK
<1>2. PagingInv /\ [Next]_vars => [Raise]_vars
  BY RaisesOnPageZero
<1>5. Spec => []PagingInv
  BY PagingInvInit, PagingInvStep, PTL DEF Spec
<1>3. Spec => []Accepted
  BY <1>1, Invariance, PTL
<1>4. Spec => [][Raise]_vars
  BY <1>2, <1>5, PTL DEF Spec
<1>. QED  BY <1>3, <1>4 DEF NoRangeError

LEMMA GridInMCSpec == MCSpec => []PagingInv
<1>1. MCInit => PagingInv
  BY PagingInvInit DEF MCInit
<1>2. PagingInv /\ [MCNext]_<<part, vars, answer, barVars>> => PagingInv'
  <2>1. [MCNext]_<<part, vars, answer, barVars>> => [Next]_vars
    BY DEF MCNext
  <2>. QED  BY <2>1, PagingInvStep
<1>. QED  BY <1>1, <1>2, PTL DEF MCSpec

\* In every state the grid or an answer of the pager leads to, the numbered
\* handles include the current page, every handle and every page typed into
\* the field bring rows, and the field reaches every record: for every page
\* size, "All" included, every number of records and every window.
THEOREM PaginationCorrect == MCSpec => []HandlesReachEveryRecord
<1>1. PagingInv /\ AnswerOK => HandlesReachEveryRecord
  <2>. SUFFICES ASSUME PagingInv, AnswerOK PROVE HandlesReachEveryRecord
    OBVIOUS
  <2>1. Intact => HandlesReach(state)
    BY WellPagedReaches DEF PagingInv
  <2>2. ASSUME answer.size > 0, answer.page > 0
        PROVE  HandlesReach(CheckState([totalRecords |-> answer.n, pageSize |-> answer.size,
                                        currentPage |-> answer.page, totalPages |-> 1, lastPage |-> 1]))
    <3>. DEFINE s == [totalRecords |-> answer.n, pageSize |-> answer.size,
                      currentPage |-> answer.page, totalPages |-> 1, lastPage |-> 1]
    <3>1. answer.n \in Nat /\ answer.size \in Nat /\ answer.page \in Int
      BY DEF AnswerOK, Reply
    <3>2. s \in PageStates /\ Fine(s)
      BY <2>2, <3>1 DEF PageStates, FirstPage, Fine
    <3>. HIDE DEF s
    <3>3. HandlesReach(CheckState(s))
      BY <3>2, CheckStateSafe, CheckedIsWellPaged, WellPagedReaches
    <3>. QED  BY <3>3 DEF s
  <2>. QED  BY <2>1, <2>2 DEF HandlesReachEveryRecord
<1>. QED  BY <1>1, GridInMCSpec, AnswerIsReply, PTL

-----------------------------------------------------------------------------
(***************************************************************************)
(* Rows and state together.  A fetch that no other fetch disturbed is the  *)
(* only one there is, and once it is sent the state stays the one it was   *)
(* sent from: everything that changes the state starts or ends a fetch.    *)
(***************************************************************************)
OneShown(s) ==
    OnePage \/ (s.pageSize = 0 /\ s.totalRecords # Unknown) => s.currentPage = FirstPage

Synced(i) ==
    IsFetch(requests[i]) /\ requests[i].undisturbed =>
        /\ Alone(i)
        /\ requests[i].phase \in {"sent", "answered"} =>
              requests[i].page = state.currentPage /\ requests[i].size = state.pageSize

AnsweredOK ==
    \A i \in Ids : IsFetch(requests[i]) /\ requests[i].phase = "answered" =>
        requests[i].count = Answered(requests[i].page, requests[i].size, requests[i].total)

SyncInv == AskableOK /\ OneShown(state) /\ AnsweredOK /\ \A i \in Ids : Synced(i)

SyncedWhileIntact == IInv /\ (Intact => SyncInv)

LEMMA CheckedShowsOne ==
    ASSUME NEW s, Askable(s)
    PROVE  OneShown(CheckState(s))
<1>. SUFFICES ASSUME OnePage \/ (CheckState(s).pageSize = 0 /\ CheckState(s).totalRecords # Unknown)
     PROVE  CheckState(s).currentPage = FirstPage
  BY DEF OneShown
<1>1. CASE s.totalRecords = Unknown
  BY <1>1 DEF CheckState, Askable
<1>2. CASE s.totalRecords # Unknown
  <2>1. s.totalRecords \in Nat
    BY <1>2 DEF Askable, PageStates
  <2>2. CheckState(s).currentPage = PageOf(s) /\ CheckState(s).pageSize = SizeOf(s)
    BY <1>2 DEF CheckState
  <2>3. CASE SizeOf(s) = 0
    BY <2>2, <2>3 DEF PageOf, FirstPage
  <2>4. CASE OnePage /\ SizeOf(s) # 0
    <3>1. SizeOf(s) = s.totalRecords /\ AskedOf(s) = 1
      BY <2>4 DEF SizeOf, AskedOf, FirstPage
    <3>2. PagesOf(s) = CeilDiv(s.totalRecords, s.totalRecords) /\ s.totalRecords > 0
      BY <2>1, <2>4, <3>1 DEF PagesOf
    <3>3. PagesOf(s) \in Nat /\ PagesOf(s) >= 1
      BY <2>1, <3>2, CeilDivType
    <3>. QED  BY <2>1, <2>2, <2>4, <3>1, <3>3 DEF PageOf, FirstPage
  <2>. QED  BY <2>2, <2>3, <2>4
<1>. QED  BY <1>1, <1>2

LEMMA OneShownStep ==
    ASSUME IInv, AskableOK, OneShown(state), Intact, Intact', [Next]_vars
    PROVE  OneShown(state)'
<1>1. CASE state' = state
  BY <1>1 DEF OneShown
<1>2. CASE CountedOff
  BY <1>2 DEF CountedOff, OneShown, AskableOK, Askable, PageStates, Unknown
<1>3. CASE Checked
  BY <1>3, CheckedShowsOne DEF Checked, OneShown
<1>. QED  BY <1>1, <1>2, <1>3, StateSteps

LEMMA AnsweredStep ==
    ASSUME IInv, AskableOK, AnsweredOK, Intact, Intact', [Next]_vars
    PROVE  AnsweredOK'
<1>. requests \in [Ids -> Requests]
  BY DEF IInv, TypeOK
<1>. DEFINE SlotOK(r) == IsFetch(r) /\ r.phase = "answered" => r.count = Answered(r.page, r.size, r.total)
<1>1. ASSUME NEW i \in Ids, NEW r, Becomes(i, r), SlotOK(r)
      PROVE  AnsweredOK'
  <2>. SUFFICES ASSUME NEW j \in Ids PROVE SlotOK(requests'[j])
    BY DEF AnsweredOK
  <2>1. CASE j = i
    BY <1>1, <2>1 DEF Becomes
  <2>2. CASE j # i
    BY <1>1, <2>2 DEF Becomes, AnsweredOK, IsFetch
  <2>. QED  BY <2>1, <2>2
<1>2. CASE FetchBeginsStep
  <2>1. PICK i \in Ids, kind \in Kinds, from \in PageStates, st \in PageStates :
          Begins(i, kind, from, st)
    BY <1>2 DEF FetchBeginsStep
  <2>. DEFINE r == Called(i, kind, from)
              q == Sent(r, st)
  <2>2. r \in Requests /\ r.phase = "waiting"
    BY CalledType
  <2>. HIDE DEF r
  <2>3. q.phase = "sent"
    BY <2>2, SentFields
  <2>. HIDE DEF q
  <2>4. Becomes(i, r) \/ Becomes(i, q)
    BY <2>1 DEF Begins, r, q
  <2>. QED  BY <1>1, <2>2, <2>3, <2>4
<1>3. CASE ConfirmStep
  <2>1. PICK i \in Ids : Becomes(i, Sent(requests[i], state))
    BY <1>3 DEF ConfirmStep
  <2>. DEFINE q == Sent(requests[i], state)
  <2>2. q.phase = "sent"
    BY SentFields
  <2>. HIDE DEF q
  <2>. QED  BY <1>1, <2>1, <2>2 DEF q
<1>4. CASE FetchEndsStep
  BY <1>1, <1>4 DEF FetchEndsStep, IsFetch, Idle
<1>5. CASE DestroyStep
  BY <1>1, <1>5 DEF DestroyStep
<1>6. CASE ServeStep
  <2>1. PICK i \in Ids : Becomes(i, Served(requests[i]))
    BY <1>6 DEF ServeStep
  <2>. DEFINE q == Served(requests[i])
  <2>2. q.count = Answered(q.page, q.size, q.total)
    BY DEF Served, Requests
  <2>. HIDE DEF q
  <2>. QED  BY <1>1, <2>1, <2>2 DEF q
<1>7. CASE OtherStep
  BY <1>7 DEF OtherStep, AnsweredOK
<1>. QED  BY <1>2, <1>3, <1>4, <1>5, <1>6, <1>7, StepKinds, RaisedNotIntact DEF RaiseStep

\* A step with slot i keeps the others synced when they can stay alone.
LEMMA OthersSynced ==
    ASSUME IInv, \A j \in Ids : Synced(j), NEW i \in Ids, NEW r, Becomes(i, r),
           IsFetch(requests[i]) \/ (~IsFetch(r) /\ state' = state),
           NEW j \in Ids, j # i
    PROVE  Synced(j)'
<1>. SUFFICES ASSUME IsFetch(requests'[j]), requests'[j].undisturbed
     PROVE  /\ Alone(j)'
            /\ requests'[j].phase \in {"sent", "answered"} =>
                 requests'[j].page = state'.currentPage /\ requests'[j].size = state'.pageSize
  BY DEF Synced
<1>1. IsFetch(requests[j]) /\ requests[j].undisturbed
  BY DEF Becomes, IsFetch
<1>2. Alone(j) /\ (requests[j].phase \in {"sent", "answered"} =>
        requests[j].page = state.currentPage /\ requests[j].size = state.pageSize)
  BY <1>1 DEF Synced
<1>3. ~IsFetch(requests[i])
  BY <1>2 DEF Alone
<1>4. ~IsFetch(r) /\ state' = state
  BY <1>3
<1>5. Alone(j)'
  <2>1. ASSUME NEW k \in Ids \ {j} PROVE ~IsFetch(requests'[k])
    <3>1. CASE k = i
      BY <1>4, <3>1 DEF Becomes
    <3>2. CASE k # i
      BY <1>2, <2>1, <3>2 DEF Becomes, Alone, IsFetch
    <3>. QED  BY <3>1, <3>2
  <2>. QED  BY <2>1 DEF Alone
<1>6. /\ requests'[j].phase = requests[j].phase
      /\ requests'[j].page = requests[j].page /\ requests'[j].size = requests[j].size
  BY DEF Becomes
<1>. QED  BY <1>2, <1>4, <1>5, <1>6

LEMMA StaysAlone ==
    ASSUME NEW i \in Ids, NEW r, Becomes(i, r), Alone(i)
    PROVE  Alone(i)'
<1>1. ASSUME NEW k \in Ids \ {i} PROVE ~IsFetch(requests'[k])
  BY <1>1 DEF Becomes, Alone, IsFetch
<1>. QED  BY <1>1 DEF Alone

LEMMA SyncedStep ==
    ASSUME IInv, SyncInv, Intact, Intact', [Next]_vars
    PROVE  \A i \in Ids : Synced(i)'
<1>. requests \in [Ids -> Requests]
  BY DEF IInv, TypeOK
<1>0. IInv /\ AskableOK /\ \A j \in Ids : Synced(j)
  BY DEF SyncInv
<1>2. CASE FetchBeginsStep
  <2>1. PICK i \in Ids, kind \in Kinds, from \in PageStates, st \in PageStates :
          Begins(i, kind, from, st)
    BY <1>2 DEF FetchBeginsStep
  <2>. DEFINE r == Called(i, kind, from)
              q == Sent(r, st)
  <2>2. r \in Requests /\ r.phase = "waiting" /\ r.undisturbed = Alone(i)
    BY CalledType, CalledFields
  <2>. HIDE DEF r
  <2>3. /\ q.phase = "sent" /\ q.undisturbed = r.undisturbed
        /\ q.page = CheckState(st).currentPage /\ q.size = CheckState(st).pageSize
    BY <2>2, SentFields
  <2>. HIDE DEF q
  <2>4. (Becomes(i, r) /\ state' = st) \/ (Becomes(i, q) /\ state' = CheckState(st))
    BY <2>1 DEF Begins, r, q
  <2>5. ASSUME NEW j \in Ids, j # i PROVE Synced(j)'
    BY <2>1, <2>5 DEF Begins, Synced
  <2>6. Synced(i)'
    <3>. SUFFICES ASSUME requests'[i].undisturbed
         PROVE  /\ Alone(i)'
                /\ requests'[i].phase \in {"sent", "answered"} =>
                     requests'[i].page = state'.currentPage /\ requests'[i].size = state'.pageSize
      BY DEF Synced
    <3>1. Alone(i)
      BY <2>2, <2>3, <2>4 DEF Becomes
    <3>2. Alone(i)'
      BY <2>4, <3>1, StaysAlone
    <3>. QED  BY <2>2, <2>3, <2>4, <3>2 DEF Becomes
  <2>. QED  BY <2>5, <2>6
<1>3. CASE ConfirmStep
  <2>1. PICK i \in Ids : /\ requests[i].phase = "waiting" /\ Becomes(i, Sent(requests[i], state))
                         /\ state' = CheckState(state)
    BY <1>3 DEF ConfirmStep
  <2>. DEFINE q == Sent(requests[i], state)
  <2>2. /\ q.undisturbed = requests[i].undisturbed
        /\ q.page = CheckState(state).currentPage /\ q.size = CheckState(state).pageSize
    BY SentFields
  <2>. HIDE DEF q
  <2>3. Becomes(i, q)
    BY <2>1 DEF q
  <2>4. IsFetch(requests[i])
    BY <1>0, <2>1 DEF AskableOK, IsFetch
  <2>5. ASSUME NEW j \in Ids, j # i PROVE Synced(j)'
    BY <1>0, <2>3, <2>4, <2>5, OthersSynced
  <2>6. Synced(i)'
    <3>. SUFFICES ASSUME requests'[i].undisturbed
         PROVE  /\ Alone(i)'
                /\ requests'[i].page = state'.currentPage /\ requests'[i].size = state'.pageSize
      BY DEF Synced
    <3>1. Alone(i)
      BY <1>0, <2>2, <2>3, <2>4 DEF Becomes, Synced
    <3>2. Alone(i)'
      BY <2>3, <3>1, StaysAlone
    <3>. QED  BY <2>1, <2>2, <2>3, <3>2 DEF Becomes
  <2>. QED  BY <2>5, <2>6
<1>4. CASE FetchEndsStep
  <2>1. PICK i \in Ids : IsFetch(requests[i]) /\ Becomes(i, Idle)
    BY <1>4 DEF FetchEndsStep
  <2>2. Synced(i)'
    BY <2>1 DEF Becomes, Synced, IsFetch, Idle
  <2>3. ASSUME NEW j \in Ids, j # i PROVE Synced(j)'
    BY <1>0, <2>1, <2>3, OthersSynced
  <2>. QED  BY <2>2, <2>3
<1>5. CASE DestroyStep
  <2>1. PICK i \in Ids, r \in Requests : Becomes(i, r) /\ ~IsFetch(r) /\ state' = state
    BY <1>5 DEF DestroyStep
  <2>2. Synced(i)'
    BY <2>1 DEF Becomes, Synced
  <2>3. ASSUME NEW j \in Ids, j # i PROVE Synced(j)'
    BY <1>0, <2>1, <2>3, OthersSynced
  <2>. QED  BY <2>2, <2>3
<1>6. CASE ServeStep
  <2>1. PICK i \in Ids : /\ requests[i].phase = "sent" /\ IsFetch(requests[i])
                         /\ Becomes(i, Served(requests[i])) /\ state' = state
    BY <1>6 DEF ServeStep
  <2>. DEFINE q == Served(requests[i])
  <2>2. /\ q.page = requests[i].page /\ q.size = requests[i].size
        /\ q.undisturbed = requests[i].undisturbed
    BY DEF Served, Requests
  <2>. HIDE DEF q
  <2>3. Becomes(i, q)
    BY <2>1 DEF q
  <2>4. Synced(i)'
    <3>. SUFFICES ASSUME requests'[i].undisturbed
         PROVE  /\ Alone(i)'
                /\ requests'[i].page = state'.currentPage /\ requests'[i].size = state'.pageSize
      BY DEF Synced
    <3>1. /\ Alone(i) /\ requests[i].page = state.currentPage /\ requests[i].size = state.pageSize
      BY <1>0, <2>1, <2>2, <2>3 DEF Becomes, Synced
    <3>2. Alone(i)'
      BY <2>3, <3>1, StaysAlone
    <3>. QED  BY <2>1, <2>2, <2>3, <3>1, <3>2 DEF Becomes
  <2>5. ASSUME NEW j \in Ids, j # i PROVE Synced(j)'
    BY <1>0, <2>1, <2>3, <2>5, OthersSynced
  <2>. QED  BY <2>4, <2>5
<1>7. CASE OtherStep
  BY <1>0, <1>7 DEF OtherStep, Synced, Alone
<1>. QED  BY <1>0, <1>2, <1>3, <1>4, <1>5, <1>6, <1>7, StepKinds, RaisedNotIntact DEF RaiseStep

\* An answer brings the rows of the page the state is on, or none.
LEMMA NoRowsPastEnd ==
    ASSUME NEW page \in Nat, NEW size \in Nat, NEW n \in Nat,
           n = 0 \/ (~OnePage /\ size > 0 /\ page > CeilDiv(n, size))
    PROVE  Answered(page, size, n) = 0
<1>. DEFINE R == RowsReturned(VisitDatasource(OnePage, DefaultPageSize, page, size, n), n)
<1>1. R = {}
  <2>1. CASE n = 0
    <3>1. 1 .. n = {}
      BY <2>1
    <3>. QED  BY <3>1 DEF RowsReturned
  <2>2. CASE n > 0 /\ ~OnePage /\ size > 0 /\ page > CeilDiv(n, size)
    <3>. DEFINE last == CeilDiv(n, size)
    <3>1. last \in Nat /\ last >= 1 /\ DefaultPageSize \in Nat /\ OnePage = FALSE
      BY <2>2, CeilDivType, OnePageAssumption, GridPagingAssumption
    <3>2. page > 0 /\ page > last
      BY <2>2, <3>1
    <3>3. VisitDatasource(FALSE, DefaultPageSize, page, size, n) = PagerInit(SizedPager(page, size), n)
      BY <2>2, <3>1, <3>2, NewPagerSet DEF VisitDatasource
    <3>4. RowsReturned(PagerInit(SizedPager(page, size), n), n) = {r \in 1 .. n : CeilDiv(r, size) = page}
      BY <2>2, <3>2, RowsOfPage
    <3>5. ASSUME NEW r \in 1 .. n PROVE CeilDiv(r, size) # page
      <4>. SUFFICES ASSUME CeilDiv(r, size) = page PROVE FALSE
        OBVIOUS
      <4>1. r \in Nat /\ size * (page - 1) < r
        BY <2>2, CeilDivIsPage
      <4>2. size * (page - 1) < n
        <5>1. size * (page - 1) \in Int /\ r <= n
          OBVIOUS
        <5>. QED  BY <4>1, <5>1
      <4>3. page <= last
        BY <2>2, <3>2, <4>2, PagesWithRows
      <4>. HIDE DEF last
      <4>. QED  BY <3>1, <3>2, <4>3
    <3>6. R = {r \in 1 .. n : CeilDiv(r, size) = page}
      BY <3>1, <3>3, <3>4
    <3>. HIDE DEF R
    <3>. QED  BY <3>5, <3>6
  <2>. QED  BY <2>1, <2>2
<1>2. Cardinality({}) = 0
  BY FS_EmptySet
<1>. HIDE DEF R
<1>. QED  BY <1>1, <1>2 DEF Answered, R

LEMMA AnswerSyncs ==
    ASSUME IInv, SyncInv, NEW i \in Ids, FetchSucceeds(i), requests[i].undisturbed
    PROVE  /\ rows'.size = state'.pageSize \/ OnePage
           /\ rows'.page = state'.currentPage \/ rows'.count = 0 \/ rows'.size = 0
<1>. DEFINE n  == requests[i].total
            st == [state EXCEPT !.totalRecords = n]
<1>1. /\ requests[i] \in Requests /\ state \in PageStates
      /\ requests[i].phase = "answered" /\ IsFetch(requests[i])
  BY DEF IInv, TypeOK, FetchSucceeds, IsFetch
<1>2. /\ requests[i].page = state.currentPage /\ requests[i].size = state.pageSize
      /\ requests[i].count = Answered(requests[i].page, requests[i].size, n)
  BY <1>1 DEF SyncInv, Synced, AnsweredOK
<1>3. /\ rows' = [page |-> requests[i].page, size |-> requests[i].size, count |-> requests[i].count]
      /\ state' = CheckState(st)
  BY DEF FetchSucceeds, Counted
<1>4. /\ n \in Nat /\ st.totalRecords = n /\ st.pageSize = state.pageSize
      /\ st.currentPage = state.currentPage /\ state.pageSize \in Nat /\ state.currentPage \in Nat
  BY <1>1 DEF Requests, PageStates
<1>5. /\ rows'.page = state.currentPage /\ rows'.size = state.pageSize
      /\ rows'.count = Answered(state.currentPage, state.pageSize, n)
  BY <1>2, <1>3
<1>. HIDE DEF st, n
<1>6. state'.pageSize = SizeOf(st) /\ state'.currentPage = PageOf(st)
  BY <1>3, <1>4 DEF CheckState, Unknown
<1>7. rows'.size = state'.pageSize \/ OnePage
  BY <1>4, <1>5, <1>6 DEF SizeOf
<1>8. CASE n = 0
  <2>1. rows'.count = 0
    BY <1>4, <1>5, <1>8, NoRowsPastEnd
  <2>. QED  BY <1>7, <2>1
<1>9. CASE n > 0 /\ OnePage
  <2>1. state.currentPage = 1
    BY <1>9 DEF SyncInv, OneShown, FirstPage
  <2>2. PageOf(st) = 1
    <3>1. SizeOf(st) = n /\ AskedOf(st) = 1
      BY <1>4, <1>9 DEF SizeOf, AskedOf, FirstPage
    <3>2. PagesOf(st) = CeilDiv(n, n)
      BY <1>4, <1>9, <3>1 DEF PagesOf
    <3>3. CeilDiv(n, n) \in Nat /\ CeilDiv(n, n) >= 1
      BY <1>4, <1>9, CeilDivType
    <3>. QED  BY <1>4, <1>9, <3>1, <3>2, <3>3 DEF PageOf
  <2>. QED  BY <1>5, <1>6, <1>7, <2>1, <2>2
<1>11. CASE state.pageSize = 0
  BY <1>5, <1>7, <1>11
<1>10. CASE n > 0 /\ ~OnePage /\ state.pageSize > 0
  <2>. DEFINE last == CeilDiv(n, state.pageSize)
  <2>1. SizeOf(st) = state.pageSize /\ AskedOf(st) = state.currentPage /\ PagesOf(st) = last
    BY <1>4, <1>10 DEF SizeOf, AskedOf, PagesOf
  <2>2. last \in Nat
    BY <1>4, <1>10, CeilDivType
  <2>3. CASE state.currentPage > last
    <3>1. rows'.count = 0
      BY <1>4, <1>5, <1>10, <2>3, NoRowsPastEnd
    <3>. QED  BY <1>7, <3>1
  <2>4. CASE ~(state.currentPage > last)
    <3>. HIDE DEF last
    <3>1. PageOf(st) = state.currentPage
      BY <1>4, <1>10, <2>1, <2>2, <2>4 DEF PageOf
    <3>. QED  BY <1>5, <1>6, <1>7, <3>1
  <2>. QED  BY <2>3, <2>4
<1>. QED  BY <1>4, <1>8, <1>9, <1>10, <1>11

LEMMA SyncInvariance == Spec => []SyncedWhileIntact
<1>1. Init => SyncedWhileIntact
  <2>. SUFFICES ASSUME Init PROVE SyncInv
    BY InitIInv DEF SyncedWhileIntact
  <2>1. PICK n \in 0..MaxTotal, p \in 1..(MaxTotal + 1) :
          state = CheckState([totalRecords |-> n, pageSize |-> DefaultPageSize,
                              currentPage |-> p, totalPages |-> Unknown, lastPage |-> Unknown])
    BY DEF Init
  <2>. DEFINE s == [totalRecords |-> n, pageSize |-> DefaultPageSize,
                    currentPage |-> p, totalPages |-> Unknown, lastPage |-> Unknown]
  <2>2. Askable(s)
    <3>1. s \in PageStates /\ Fine(s) /\ s.totalRecords # Unknown
      BY GridPagingAssumption DEF PageStates, FirstPage, Unknown, Fine
    <3>. QED  BY <3>1, CheckStateSafe DEF Askable
  <2>3. state = CheckState(s)
    BY <2>1
  <2>. HIDE DEF s
  <2>4. OneShown(state)
    BY <2>2, <2>3, CheckedShowsOne
  <2>. QED  BY <2>4, AskableInit DEF Init, SyncInv, Idle, AnsweredOK, Synced, IsFetch
<1>2. SyncedWhileIntact /\ [Next]_vars => SyncedWhileIntact'
  <2>. SUFFICES ASSUME SyncedWhileIntact, [Next]_vars, Intact' PROVE SyncInv'
    BY NextIInv DEF SyncedWhileIntact
  <2>1. Intact /\ IInv /\ SyncInv
    BY IntactBefore DEF SyncedWhileIntact
  <2>2. AskableOK' /\ OneShown(state)' /\ AnsweredOK'
    BY <2>1, AskableStep, OneShownStep, AnsweredStep DEF SyncInv
  <2>. QED  BY <2>1, <2>2, SyncedStep DEF SyncInv
<1>. QED  BY <1>1, <1>2, PTL DEF Spec

\* After an answer to a fetch that no other fetch disturbed, the rows are those
\* of the current page and size, whatever page sizes, records, removals, held
\* fetches and ajax actions there were, with and without one-page pagination.
THEOREM AnswersSync == Spec => UndisturbedAnswerSyncs
<1>. DEFINE A == \A i \in Ids :
         FetchSucceeds(i) /\ requests[i].undisturbed
           => /\ rows'.size = state'.pageSize \/ OnePage
              /\ rows'.page = state'.currentPage \/ rows'.count = 0 \/ rows'.size = 0
<1>1. SyncedWhileIntact /\ [Next]_vars => [A]_vars
  <2>. SUFFICES ASSUME IInv, Intact => SyncInv, NEW i \in Ids, FetchSucceeds(i),
                       requests[i].undisturbed, Next
       PROVE  /\ rows'.size = state'.pageSize \/ OnePage
              /\ rows'.page = state'.currentPage \/ rows'.count = 0 \/ rows'.size = 0
    BY DEF SyncedWhileIntact
  <2>1. requests' # requests
    BY DEF FetchSucceeds, AfterReset, Idle
  <2>2. Intact
    BY <2>1 DEF Next, OthersChangeData
  <2>. QED  BY <2>2, AnswerSyncs
<1>2. Spec => [][A]_vars
  BY <1>1, SyncInvariance, PTL DEF Spec
<1>. QED  BY <1>2 DEF UndisturbedAnswerSyncs

-----------------------------------------------------------------------------
(***************************************************************************)
(* A failed change of the page size.  In a grid without ajax actions the   *)
(* selector is enabled only when nothing is under way, and the pager, once *)
(* it is rendered, only while the total is not known, when no page but 0   *)
(* and the first one can be asked for.  So every fetch that overlaps the   *)
(* change was sent with another size or for one of these pages: its answer *)
(* cannot pass for the rows of the state that comes back.                  *)
(***************************************************************************)
Sizing(r) == IsFetch(r) /\ r.kind = "size"

\* The rows, if they have the state's size, are among the records it counts.
RowsFit(rw, s) ==
    s.totalRecords # Unknown /\ rw.size = s.pageSize /\ rw.count > 0 /\ rw.page > 1
      => (rw.page - 1) * rw.size + rw.count <= s.totalRecords

Elsewhere(page, size, from) == page <= 1 \/ size # from.pageSize

Revertible(i) ==
    /\ RowsFit(rows, requests[i].from) /\ OneShown(requests[i].from)
    /\ Elsewhere(state.currentPage, state.pageSize, requests[i].from)
    /\ \A j \in Ids : IsFetch(requests[j]) /\ requests[j].phase \in {"sent", "answered"} =>
           Elsewhere(requests[j].page, requests[j].size, requests[i].from)
    /\ \A j \in Ids \ {i} : ~Sizing(requests[j])

RevertInv ==
    IF OnePage THEN \A i \in Ids : ~Sizing(requests[i])
    ELSE /\ (\A i \in Ids : ~Sizing(requests[i])) => RowsFit(rows, state)
         /\ \A i \in Ids : Sizing(requests[i]) => Revertible(i)

\* What can be used with something under way: the selector never, the pager only
\* while the total is not known, as long as the change of the size lasts.
WidgetsOK ==
    /\ widgets.size => ~loading
    /\ (\E i \in Ids : Sizing(requests[i])) /\ widgets.pager /\ loading
         => state.totalRecords = Unknown

LEMMA NothingAlive ==
    ASSUME IInv, WidgetsOK, Intact, MaxAjax = 0, widgets.size, ~ModalOpen
    PROVE  \A i \in Ids : requests[i].phase = "idle"
<1>1. requestsCount = 0
  <2>1. Cardinality(InFlight) \in Nat
    BY Finite, FS_CardinalityType
  <2>. QED  BY <2>1 DEF IInv, CountsRequests, AjaxOK, RequestsAreMasked, WidgetsOK
<1>2. InFlight = {}
  BY <1>1, Finite, FS_EmptySet DEF IInv, CountsRequests
<1>. QED  BY <1>2 DEF ModalOpen, InFlight, IInv, TypeOK, Requests, Phases

\* In server mode without one-page pagination only the pages are recomputed.
LEMMA CheckedKeeps ==
    ASSUME ~OnePage, NEW st \in PageStates
    PROVE  /\ CheckState(st).totalRecords = st.totalRecords
           /\ CheckState(st).pageSize = st.pageSize
           /\ st.currentPage <= 1 => CheckState(st).currentPage <= 1
<1>1. CASE st.totalRecords = Unknown
  BY <1>1 DEF CheckState
<1>2. CASE st.totalRecords \in Nat
  <2>1. /\ CheckState(st).totalRecords = st.totalRecords
        /\ CheckState(st).pageSize = st.pageSize
        /\ CheckState(st).currentPage = PageOf(st)
    BY <1>2 DEF CheckState, SizeOf, Unknown
  <2>2. ASSUME st.currentPage <= 1 PROVE PageOf(st) <= 1
    <3>1. CASE st.totalRecords = 0 \/ st.pageSize = 0
      BY <3>1 DEF PageOf, SizeOf, FirstPage
    <3>2. CASE st.totalRecords # 0 /\ st.pageSize # 0
      <4>1. PagesOf(st) = CeilDiv(st.totalRecords, st.pageSize) /\ AskedOf(st) = st.currentPage
        BY <2>2, <3>2 DEF PagesOf, SizeOf, AskedOf
      <4>2. st.pageSize \in Nat /\ st.pageSize > 0 /\ st.totalRecords > 0
        BY <1>2, <3>2 DEF PageStates
      <4>3. PagesOf(st) \in Nat /\ PagesOf(st) >= 1
        BY <1>2, <4>1, <4>2, CeilDivType
      <4>4. SizeOf(st) # 0 /\ st.currentPage \in Nat
        BY <3>2 DEF SizeOf, PageStates
      <4>5. PageOf(st) = st.currentPage
        BY <2>2, <3>2, <4>1, <4>3, <4>4 DEF PageOf
      <4>. QED  BY <2>2, <4>5
    <3>. QED  BY <3>1, <3>2
  <2>. QED  BY <2>1, <2>2
<1>. QED  BY <1>1, <1>2 DEF PageStates

\* A page the query returns lies within the results.
LEMMA AnsweredFits ==
    ASSUME ~OnePage, NEW page \in Nat, NEW size \in Nat, NEW n \in Nat,
           Answered(page, size, n) > 0
    PROVE  (page - 1) * size + Answered(page, size, n) <= n
<1>. DEFINE R == RowsReturned(VisitDatasource(OnePage, DefaultPageSize, page, size, n), n)
            c == Cardinality(R)
<1>1. /\ Answered(page, size, n) = c /\ R \subseteq 1 .. n
  BY DEF Answered, RowsReturned
<1>2. /\ IsFiniteSet(1 .. n) /\ Cardinality(1 .. n) = n
  <2>1. IsFiniteSet(1 .. n) /\ Cardinality(1 .. n) = IF 1 > n THEN 0 ELSE n - 1 + 1
    BY FS_Interval
  <2>. QED  BY <2>1
<1>3. c \in Nat /\ c <= n
  BY <1>1, <1>2, FS_Subset, FS_CardinalityType
<1>4. CASE size = 0 \/ page <= 1
  <2>1. (page - 1) * size <= 0 /\ (page - 1) * size \in Int
    <3>1. CASE size = 0
      BY <3>1
    <3>2. CASE page = 0
      BY <3>2
    <3>3. CASE page = 1
      BY <3>3
    <3>. QED  BY <1>4, <3>1, <3>2, <3>3
  <2>. HIDE DEF c
  <2>. QED  BY <1>1, <1>3, <2>1
<1>5. CASE size > 0 /\ page > 1
  <2>. DEFINE a == size * (page - 1)
  <2>1. R = {r \in 1 .. n : CeilDiv(r, size) = page}
    <3>1. DefaultPageSize \in Nat /\ OnePage = FALSE
      BY OnePageAssumption, GridPagingAssumption
    <3>2. VisitDatasource(FALSE, DefaultPageSize, page, size, n) = PagerInit(SizedPager(page, size), n)
      BY <1>5, <3>1, NewPagerSet DEF VisitDatasource
    <3>3. RowsReturned(PagerInit(SizedPager(page, size), n), n) = {r \in 1 .. n : CeilDiv(r, size) = page}
      BY <1>5, RowsOfPage
    <3>. QED  BY <3>1, <3>2, <3>3
  <2>2. a \in Nat /\ (page - 1) * size = a
    BY <1>5
  <2>3. \A r \in R : r \in (a + 1) .. n
    <3>. SUFFICES ASSUME NEW r \in R PROVE r \in (a + 1) .. n
      OBVIOUS
    <3>1. r \in Nat /\ r <= n /\ CeilDiv(r, size) = page
      BY <2>1
    <3>2. a < r
      BY <1>5, <3>1, CeilDivIsPage
    <3>. HIDE DEF a, R
    <3>. QED  BY <2>2, <3>1, <3>2
  <2>. HIDE DEF a, R
  <2>4. R # {}
    BY <1>1, FS_EmptySet
  <2>5. a + 1 <= n
    BY <2>2, <2>3, <2>4
  <2>6. IsFiniteSet((a + 1) .. n) /\ Cardinality((a + 1) .. n) = n - a
    <3>. DEFINE low == a + 1
    <3>1. low \in Int /\ low <= n
      BY <2>2, <2>5
    <3>. HIDE DEF low
    <3>2. IsFiniteSet(low .. n) /\ Cardinality(low .. n) = IF low > n THEN 0 ELSE n - low + 1
      <4>1. n \in Int /\ low \in Int
        BY <3>1
      <4>. QED  BY <4>1, FS_Interval, Zenon
    <3>3. IsFiniteSet(low .. n) /\ Cardinality(low .. n) = n - low + 1
      BY <3>1, <3>2
    <3>. QED  BY <2>2, <3>3 DEF low
  <2>7. c <= n - a
    BY <2>3, <2>6, FS_Subset
  <2>. HIDE DEF c
  <2>. QED  BY <1>1, <1>3, <2>2, <2>7
<1>. QED  BY <1>4, <1>5

(***************************************************************************)
(* A step of slot i that neither begins nor ends a change of the size.     *)
(***************************************************************************)
LEMMA RevertKept ==
    ASSUME ~OnePage, RevertInv, NEW i \in Ids, NEW r, Becomes(i, r),
           Sizing(r) <=> Sizing(requests[i]),
           Sizing(r) => r.from = requests[i].from,
           (\A k \in Ids : ~Sizing(requests[k])) => RowsFit(rows', state'),
           \A k \in Ids : Sizing(requests[k]) =>
             /\ RowsFit(rows', requests[k].from)
             /\ Elsewhere(state'.currentPage, state'.pageSize, requests[k].from)
             /\ IsFetch(r) /\ r.phase \in {"sent", "answered"} =>
                  Elsewhere(r.page, r.size, requests[k].from)
    PROVE  RevertInv'
<1>1. \A k \in Ids : Sizing(requests'[k]) <=> Sizing(requests[k])
  BY DEF Becomes, Sizing, IsFetch
<1>2. \A k \in Ids : Sizing(requests'[k]) => requests'[k].from = requests[k].from
  BY DEF Becomes
<1>3. ASSUME NEW k \in Ids, Sizing(requests'[k]) PROVE Revertible(k)'
  <2>1. Sizing(requests[k]) /\ requests'[k].from = requests[k].from
    BY <1>1, <1>2, <1>3
  <2>2. Revertible(k)
    BY <2>1 DEF RevertInv
  <2>3. \A j \in Ids \ {k} : ~Sizing(requests'[j])
    BY <1>1, <2>2 DEF Revertible
  <2>4. ASSUME NEW j \in Ids, IsFetch(requests'[j]), requests'[j].phase \in {"sent", "answered"}
        PROVE  Elsewhere(requests'[j].page, requests'[j].size, requests[k].from)
    <3>1. CASE j = i
      BY <2>1, <2>4, <3>1 DEF Becomes
    <3>2. CASE j # i
      BY <2>2, <2>4, <3>2 DEF Becomes, Revertible, IsFetch
    <3>. QED  BY <3>1, <3>2
  <2>5. OneShown(requests[k].from)
    BY <2>2 DEF Revertible
  <2>6. RowsFit(rows', requests[k].from)
        /\ Elsewhere(state'.currentPage, state'.pageSize, requests[k].from)
    BY <2>1
  <2>. QED  BY <2>1, <2>3, <2>4, <2>5, <2>6 DEF Revertible
<1>. QED  BY <1>1, <1>3 DEF RevertInv

LEMMA RevertEnded ==
    ASSUME ~OnePage, RevertInv, NEW i \in Ids, Sizing(requests[i]), Becomes(i, Idle),
           RowsFit(rows', state')
    PROVE  RevertInv'
<1>1. Revertible(i)
  BY DEF RevertInv
<1>2. \A k \in Ids : ~Sizing(requests'[k])
  <2>. SUFFICES ASSUME NEW k \in Ids PROVE ~Sizing(requests'[k])
    OBVIOUS
  <2>1. CASE k = i
    BY <2>1 DEF Becomes, Sizing, IsFetch, Idle
  <2>2. CASE k # i
    BY <1>1, <2>2 DEF Becomes, Revertible, Sizing, IsFetch
  <2>. QED  BY <2>1, <2>2
<1>. QED  BY <1>2 DEF RevertInv

LEMMA RevertBegins ==
    ASSUME IInv, RevertInv, ~OnePage, NEW i \in Ids, NEW st \in PageStates,
           SendFetch(i, "fetch", NoState, st) \/ HoldFetch(i, "fetch", NoState, st),
           ~Sizing(requests[i]),
           (\A k \in Ids : ~Sizing(requests[k])) => RowsFit(rows', st),
           \A k \in Ids : Sizing(requests[k]) =>
             /\ RowsFit(rows', requests[k].from)
             /\ st.currentPage <= 1 \/ (st.pageSize = state.pageSize /\ st.currentPage = state.currentPage)
    PROVE  RevertInv'
<1>. DEFINE w == Called(i, "fetch", NoState)
            q == Sent(w, st)
            r == IF Becomes(i, w) THEN w ELSE q
<1>1. w \in Requests /\ w.phase = "waiting" /\ w.kind = "fetch"
  BY CalledType, NoStateType DEF Kinds
<1>2. \/ Becomes(i, q) /\ state' = CheckState(st)
      \/ Becomes(i, w) /\ state' = st
  BY FetchBegins, NoStateType DEF Kinds
<1>. HIDE DEF w
<1>3. /\ q.phase = "sent" /\ q.kind = "fetch"
      /\ q.page = CheckState(st).currentPage /\ q.size = CheckState(st).pageSize
  BY <1>1, SentFields
<1>. HIDE DEF q
<1>4. /\ CheckState(st).totalRecords = st.totalRecords /\ CheckState(st).pageSize = st.pageSize
      /\ st.currentPage <= 1 => CheckState(st).currentPage <= 1
  BY CheckedKeeps
<1>5. \A k \in Ids : Sizing(requests[k]) =>
        \/ st.currentPage <= 1 \/ st.pageSize # requests[k].from.pageSize
  BY DEF RevertInv, Revertible, Elsewhere
<1>6. \A k \in Ids : Sizing(requests[k]) =>
        /\ Elsewhere(st.currentPage, st.pageSize, requests[k].from)
        /\ Elsewhere(CheckState(st).currentPage, CheckState(st).pageSize, requests[k].from)
  BY <1>4, <1>5 DEF Elsewhere
<1>7. (\A k \in Ids : ~Sizing(requests[k])) => RowsFit(rows', CheckState(st))
  BY <1>4 DEF RowsFit
<1>8. ~Sizing(w) /\ ~Sizing(q)
  BY <1>1, <1>3 DEF Sizing
<1>9. CASE Becomes(i, q) /\ state' = CheckState(st)
  BY <1>3, <1>6, <1>7, <1>8, <1>9, RevertKept
<1>10. CASE Becomes(i, w) /\ state' = st
  BY <1>1, <1>6, <1>8, <1>10, RevertKept
<1>. QED  BY <1>2, <1>9, <1>10

\* With nothing else under way a change of the size begins.
LEMMA SizingBegins ==
    ASSUME IInv, SyncInv, RevertInv, ~OnePage, \A j \in Ids : requests[j].phase = "idle",
           NEW i \in Ids, NEW st \in PageStates, st.pageSize # state.pageSize,
           SendFetch(i, "size", state, st) \/ HoldFetch(i, "size", state, st), rows' = rows
    PROVE  RevertInv'
<1>. DEFINE w == Called(i, "size", state)
            q == Sent(w, st)
<1>0. state \in PageStates
  BY DEF IInv, TypeOK
<1>1. w \in Requests /\ w.phase = "waiting" /\ w.kind = "size" /\ w.from = state
  BY <1>0, CalledType DEF Kinds
<1>2. \/ Becomes(i, q) /\ state' = CheckState(st)
      \/ Becomes(i, w) /\ state' = st
  BY <1>0, FetchBegins DEF Kinds
<1>. HIDE DEF w
<1>3. /\ q.phase = "sent" /\ q.kind = "size" /\ q.from = state
      /\ q.page = CheckState(st).currentPage /\ q.size = CheckState(st).pageSize
  BY <1>1, SentFields
<1>. HIDE DEF q
<1>4. CheckState(st).pageSize = st.pageSize
  BY CheckedKeeps
<1>5. RowsFit(rows, state) /\ OneShown(state)
  BY DEF RevertInv, SyncInv, Sizing, IsFetch
<1>6. ASSUME NEW r, Becomes(i, r), r.from = state, state'.pageSize # state.pageSize,
             r.phase \in {"sent", "answered"} => r.size # state.pageSize
      PROVE  RevertInv'
  <2>1. \A j \in Ids \ {i} : ~IsFetch(requests'[j]) /\ ~Sizing(requests'[j])
    BY <1>6 DEF Becomes, IsFetch, Sizing
  <2>2. requests'[i] = r
    BY <1>6 DEF Becomes
  <2>3. Revertible(i)'
    <3>1. RowsFit(rows', requests'[i].from) /\ OneShown(requests'[i].from)
          /\ Elsewhere(state'.currentPage, state'.pageSize, requests'[i].from)
      BY <1>5, <1>6, <2>2 DEF Elsewhere
    <3>2. \A j \in Ids : IsFetch(requests'[j]) /\ requests'[j].phase \in {"sent", "answered"} =>
              Elsewhere(requests'[j].page, requests'[j].size, requests'[i].from)
      BY <1>6, <2>1, <2>2 DEF Elsewhere
    <3>. QED  BY <2>1, <3>1, <3>2 DEF Revertible
  <2>4. Sizing(requests'[i])
    BY <1>1, <1>2, <1>3 DEF Becomes, Sizing, IsFetch
  <2>. QED  BY <2>1, <2>3, <2>4 DEF RevertInv
<1>7. CASE Becomes(i, q) /\ state' = CheckState(st)
  BY <1>3, <1>4, <1>6, <1>7
<1>8. CASE Becomes(i, w) /\ state' = st
  BY <1>1, <1>6, <1>8
<1>. QED  BY <1>2, <1>7, <1>8

\* Rows and state stay, and slot i neither begins nor ends a fetch's answer.
LEMMA RevertQuiet ==
    ASSUME RevertInv, ~OnePage, UNCHANGED <<state, rows>>, NEW i \in Ids, NEW r, Becomes(i, r),
           ~IsFetch(r), ~Sizing(requests[i])
    PROVE  RevertInv'
<1>1. ~Sizing(r)
  BY DEF Sizing
<1>2. (\A k \in Ids : ~Sizing(requests[k])) => RowsFit(rows', state')
  BY DEF RevertInv
<1>3. ASSUME NEW k \in Ids, Sizing(requests[k])
      PROVE  /\ RowsFit(rows', requests[k].from)
             /\ Elsewhere(state'.currentPage, state'.pageSize, requests[k].from)
  BY <1>3 DEF RevertInv, Revertible
<1>. QED  BY <1>1, <1>2, <1>3, RevertKept

\* A fetch is refused or fails.
LEMMA RevertFails ==
    ASSUME IInv, AskableOK, RevertInv, ~OnePage, NEW i \in Ids, requests[i].phase # "idle",
           requests' = [requests EXCEPT ![i] = Idle], state' = Reverted(requests[i]), rows' = rows
    PROVE  RevertInv'
<1>. requests \in [Ids -> Requests]
  BY DEF IInv, TypeOK
<1>1. Becomes(i, Idle)
  BY OneSlotBecomes
<1>2. CASE requests[i].kind = "size"
  <2>1. Sizing(requests[i])
    BY <1>2 DEF Sizing, IsFetch
  <2>2. requests[i].from \in PageStates /\ state' = CheckState(requests[i].from)
    BY <1>2 DEF Requests, Reverted
  <2>3. RowsFit(rows, requests[i].from)
    BY <2>1 DEF RevertInv, Revertible
  <2>4. RowsFit(rows', state')
    BY <2>2, <2>3, CheckedKeeps DEF RowsFit
  <2>. QED  BY <1>1, <2>1, <2>4, RevertEnded
<1>3. CASE requests[i].kind # "size"
  BY <1>1, <1>3, RevertQuiet DEF Reverted, Sizing, IsFetch, Idle
<1>. QED  BY <1>2, <1>3

LEMMA RevertUser ==
    ASSUME MaxAjax = 0, IInv, Intact, SyncInv, RevertInv, WidgetsOK, ~OnePage,
           NEW i \in Ids, UserStep(i)
    PROVE  RevertInv'
<1>. requests \in [Ids -> Requests] /\ state \in PageStates
  BY DEF IInv, TypeOK, PagesOK
<1>1. ASSUME NEW n \in 0..MaxTotal, NEW held \in BOOLEAN, UserGetsPage(i, n, held)
      PROVE  RevertInv'
  <2>. DEFINE u  == [state EXCEPT !.currentPage = n]
              st == CheckState(u)
  <2>1. u \in PageStates /\ u.currentPage = n
        /\ u.totalRecords = state.totalRecords /\ u.pageSize = state.pageSize
    BY <1>1 DEF PageStates
  <2>. HIDE DEF u
  <2>2. st \in PageStates /\ st.totalRecords = state.totalRecords /\ st.pageSize = state.pageSize
        /\ (n <= 1 => st.currentPage <= 1)
    BY <2>1, CheckStateSafe, CheckedKeeps
  <2>. HIDE DEF st
  <2>3. (SendFetch(i, "fetch", NoState, st) \/ HoldFetch(i, "fetch", NoState, st)) /\ rows' = rows
    BY <1>1 DEF UserGetsPage, Fetch, st, u
  <2>4. ASSUME NEW k \in Ids, Sizing(requests[k]) PROVE n <= 1 /\ RowsFit(rows', requests[k].from)
    <3>1. k \in InFlight /\ widgets.pager /\ n \in Choices
      BY <1>1, <2>4 DEF UserGetsPage, ModalOpen, Sizing, IsFetch, InFlight, Requests, Phases
    <3>2. requestsCount > 0
      <4>1. Cardinality(InFlight) \in Nat /\ Cardinality(InFlight) # 0
        BY <3>1, Finite, FS_CardinalityType, FS_EmptySet
      <4>. QED  BY <4>1 DEF IInv, CountsRequests
    <3>3. loading
      BY <3>2 DEF IInv, AjaxOK, RequestsAreMasked
    <3>4. state.totalRecords = Unknown
      BY <2>4, <3>1, <3>3 DEF WidgetsOK
    <3>. QED  BY <2>3, <2>4, <3>1, <3>3, <3>4 DEF Choices, FirstPage, RevertInv, Revertible
  <2>5. (\A k \in Ids : ~Sizing(requests[k])) => RowsFit(rows', st)
    BY <2>2, <2>3 DEF RevertInv, RowsFit
  <2>6. ~Sizing(requests[i])
    BY <1>1 DEF UserGetsPage, Fetch, Sizing, IsFetch
  <2>. QED  BY <2>2, <2>3, <2>4, <2>5, <2>6, RevertBegins
<1>2. ASSUME NEW n \in PageSizes, NEW held \in BOOLEAN, UserSetsPageSize(i, n, held)
      PROVE  RevertInv'
  <2>. DEFINE u  == [state EXCEPT !.pageSize = n]
              st == CheckState(u)
  <2>1. u \in PageStates /\ u.pageSize = n /\ n # state.pageSize
    BY <1>2, GridPagingAssumption DEF PageStates, UserSetsPageSize
  <2>. HIDE DEF u
  <2>2. st \in PageStates /\ st.pageSize # state.pageSize
    BY <2>1, CheckStateSafe, CheckedKeeps
  <2>. HIDE DEF st
  <2>3. (SendFetch(i, "size", state, st) \/ HoldFetch(i, "size", state, st)) /\ rows' = rows
    BY <1>2 DEF UserSetsPageSize, Fetch, st, u
  <2>4. \A j \in Ids : requests[j].phase = "idle"
    BY <1>2, NothingAlive DEF UserSetsPageSize
  <2>. QED  BY <2>2, <2>3, <2>4, SizingBegins
<1>3. ASSUME Confirm(i) PROVE RevertInv'
  <2>. DEFINE q == Sent(requests[i], state)
  <2>1. /\ requests[i].phase = "waiting" /\ state' = CheckState(state) /\ rows' = rows
        /\ requests' = [requests EXCEPT ![i] = q]
    BY <1>3 DEF Confirm
  <2>2. /\ q.phase = "sent" /\ q.kind = requests[i].kind /\ q.from = requests[i].from
        /\ q.page = CheckState(state).currentPage /\ q.size = CheckState(state).pageSize
    BY SentFields
  <2>. HIDE DEF q
  <2>3. Becomes(i, q)
    BY <2>1, OneSlotBecomes
  <2>4. Sizing(q) <=> Sizing(requests[i])
    BY <2>1, <2>2 DEF Sizing, IsFetch
  <2>5. /\ CheckState(state).totalRecords = state.totalRecords
        /\ CheckState(state).pageSize = state.pageSize
        /\ state.currentPage <= 1 => CheckState(state).currentPage <= 1
    BY CheckedKeeps
  <2>6. (\A k \in Ids : ~Sizing(requests[k])) => RowsFit(rows', state')
    BY <2>1, <2>5 DEF RevertInv, RowsFit
  <2>7. ASSUME NEW k \in Ids, Sizing(requests[k])
        PROVE  /\ RowsFit(rows', requests[k].from)
               /\ Elsewhere(state'.currentPage, state'.pageSize, requests[k].from)
               /\ Elsewhere(q.page, q.size, requests[k].from)
    BY <2>1, <2>2, <2>5, <2>7 DEF RevertInv, Revertible, Elsewhere
  <2>. QED  BY <2>2, <2>3, <2>4, <2>6, <2>7, RevertKept
<1>4. ASSUME Cancel(i) PROVE RevertInv'
  BY <1>4, RevertFails DEF Cancel, SyncInv
<1>5. ASSUME DestroyRow(i) PROVE RevertInv'
  <2>. DEFINE q == [Idle EXCEPT !.phase = "sent", !.kind = "destroy", !.attached = TRUE]
  <2>1. q.kind = "destroy"
    BY DEF Idle
  <2>2. requests[i].phase = "idle" /\ requests' = [requests EXCEPT ![i] = q] /\ UNCHANGED <<state, rows>>
    BY <1>5 DEF DestroyRow
  <2>. HIDE DEF q
  <2>3. Becomes(i, q)
    BY <2>2, OneSlotBecomes
  <2>. QED  BY <2>1, <2>2, <2>3, RevertQuiet DEF Sizing, IsFetch
<1>. QED  BY <1>1, <1>2, <1>3, <1>4, <1>5 DEF UserStep

LEMMA RevertAnswers ==
    ASSUME IInv, SyncInv, RevertInv, ~OnePage, Intact', NEW i \in Ids, AnswerStep(i)
    PROVE  RevertInv'
<1>. requests \in [Ids -> Requests] /\ state \in PageStates
  BY DEF IInv, TypeOK
<1>1. ASSUME FetchSucceeds(i) PROVE RevertInv'
  <2>. DEFINE u == Counted(i)
              t == requests[i]
  <2>1. /\ t.phase = "answered" /\ IsFetch(t) /\ state' = CheckState(u)
        /\ rows' = [page |-> t.page, size |-> t.size, count |-> t.count]
        /\ requests' = AfterReset(i)
    BY <1>1 DEF FetchSucceeds, IsFetch
  <2>2. t.page \in Nat /\ t.size \in Nat /\ t.total \in Nat /\ t.count \in Nat
    BY DEF Requests
  <2>3. u \in PageStates /\ u.totalRecords = t.total /\ u.pageSize = state.pageSize
        /\ u.currentPage = state.currentPage
    BY <2>2 DEF PageStates, Counted
  <2>4. Becomes(i, Idle)
    BY <2>1, ResetBecomes
  <2>5. t.count = Answered(t.page, t.size, t.total)
    BY <2>1 DEF SyncInv, AnsweredOK
  <2>. HIDE DEF u
  <2>6. state'.totalRecords = t.total /\ state'.pageSize = state.pageSize
        /\ (state.currentPage <= 1 => state'.currentPage <= 1)
    BY <2>1, <2>3, CheckedKeeps
  <2>7. RowsFit(rows', state')
    <3>1. rows'.page = t.page /\ rows'.size = t.size /\ rows'.count = t.count
      BY <2>1
    <3>2. t.count > 0 => (t.page - 1) * t.size + t.count <= t.total
      BY <2>2, <2>5, AnsweredFits
    <3>. HIDE DEF t
    <3>. QED  BY <2>6, <3>1, <3>2 DEF RowsFit
  <2>8. CASE Sizing(requests[i])
    BY <2>4, <2>7, <2>8, RevertEnded
  <2>9. CASE ~Sizing(requests[i])
    <3>1. ASSUME NEW k \in Ids, Sizing(requests[k])
          PROVE  /\ RowsFit(rows', requests[k].from)
                 /\ Elsewhere(state'.currentPage, state'.pageSize, requests[k].from)
      <4>1. Elsewhere(t.page, t.size, requests[k].from)
            /\ Elsewhere(state.currentPage, state.pageSize, requests[k].from)
        BY <2>1, <3>1 DEF RevertInv, Revertible
      <4>2. rows'.page = t.page /\ rows'.size = t.size
        BY <2>1
      <4>3. t.page \in Nat /\ state.currentPage \in Nat /\ state'.currentPage \in Nat
        BY <2>1, <2>2, <2>3, CheckStateSafe DEF PageStates
      <4>. HIDE DEF t
      <4>4. RowsFit(rows', requests[k].from)
        BY <4>1, <4>2, <4>3 DEF Elsewhere, RowsFit
      <4>5. Elsewhere(state'.currentPage, state'.pageSize, requests[k].from)
        BY <2>6, <4>1, <4>3 DEF Elsewhere
      <4>. QED  BY <4>4, <4>5
    <3>. QED  BY <2>4, <2>7, <2>9, <3>1, RevertKept DEF Sizing, IsFetch, Idle
  <2>. QED  BY <2>8, <2>9
<1>2. ASSUME RequestFails(i) PROVE RevertInv'
  BY <1>2, RevertFails DEF RequestFails, InFlight, SyncInv
<1>3. ASSUME NEW held \in BOOLEAN, RowDestroyed(i, held) PROVE RevertInv'
  <2>. DEFINE n  == state.totalRecords
              st == [state EXCEPT !.totalRecords = IF @ > 0 THEN @ - 1 ELSE @]
  <2>1. /\ requests[i].kind = "destroy" /\ rows' = [rows EXCEPT !.count = @ - 1]
        /\ SendFetch(i, "fetch", NoState, st) \/ HoldFetch(i, "fetch", NoState, st)
    BY <1>3 DEF RowDestroyed
  <2>2. /\ n \in Nat \cup {-1} /\ rows \in [page : Nat, size : Nat, count : Nat]
    BY DEF PageStates, Unknown, IInv, TypeOK
  <2>3. st \in PageStates /\ st.totalRecords = (IF n > 0 THEN n - 1 ELSE n)
        /\ st.pageSize = state.pageSize /\ st.currentPage = state.currentPage
    BY <2>2 DEF PageStates, Unknown
  <2>. HIDE DEF st, n
  <2>4. rows'.page = rows.page /\ rows'.size = rows.size /\ rows'.count = rows.count - 1
        /\ rows.page \in Nat /\ rows.size \in Nat /\ rows.count \in Nat
    BY <2>1, <2>2
  <2>5. (rows.page - 1) * rows.size \in Int
    BY <2>4
  <2>6. ASSUME NEW from \in PageStates, RowsFit(rows, from) PROVE RowsFit(rows', from)
    BY <2>4, <2>5, <2>6 DEF RowsFit, PageStates, Unknown
  <2>7. ASSUME RowsFit(rows, state) PROVE RowsFit(rows', st)
    <3>. SUFFICES ASSUME st.totalRecords # Unknown, rows'.size = st.pageSize, rows'.count > 0,
                         rows'.page > 1
         PROVE  (rows'.page - 1) * rows'.size + rows'.count <= st.totalRecords
      BY DEF RowsFit
    <3>1. n # Unknown
      BY <2>2, <2>3 DEF Unknown
    <3>2. (rows.page - 1) * rows.size + rows.count <= n
      BY <2>3, <2>4, <2>7, <3>1 DEF RowsFit, n
    <3>3. rows.page > 1
      BY <2>4
    <3>4. CASE n > 0
      <4>1. st.totalRecords = n - 1
        BY <2>3, <3>4
      <4>. QED  BY <2>2, <2>4, <2>5, <3>2, <4>1
    <3>5. CASE n = 0
      <4>1. st.totalRecords = 0
        BY <2>3, <3>5
      <4>. QED  BY <2>2, <2>4, <2>5, <3>2, <3>5, <4>1
    <3>. QED  BY <2>2, <3>1, <3>4, <3>5 DEF Unknown
  <2>8. ~Sizing(requests[i])
    BY <2>1 DEF Sizing, IsFetch
  <2>9. (\A k \in Ids : ~Sizing(requests[k])) => RowsFit(rows', st)
    BY <2>7 DEF RevertInv
  <2>10. ASSUME NEW k \in Ids, Sizing(requests[k]) PROVE RowsFit(rows', requests[k].from)
    <3>1. requests[k].from \in PageStates
      BY DEF Requests
    <3>. QED  BY <2>6, <2>10, <3>1 DEF RevertInv, Revertible
  <2>. QED  BY <2>1, <2>3, <2>8, <2>9, <2>10, RevertBegins
<1>4. ASSUME DetachedRowDestroyed(i) PROVE RevertInv'
  <2>1. Becomes(i, Idle) /\ UNCHANGED <<state, rows>>
    BY <1>4, OneSlotBecomes DEF DetachedRowDestroyed
  <2>. QED  BY <1>4, <2>1, RevertQuiet DEF DetachedRowDestroyed, Sizing, IsFetch, Idle
<1>. QED  BY <1>1, <1>2, <1>3, <1>4, RaisedNotIntact DEF AnswerStep

LEMMA RevertOther ==
    ASSUME IInv, SyncInv, RevertInv, ~OnePage, NEW i \in Ids,
           \/ RefreshStep(i) \/ ServeFetch(i) \/ ServeDestroy(i)
           \/ \E held \in BOOLEAN : AjaxActionSucceeds(i, held)
    PROVE  RevertInv'
<1>. requests \in [Ids -> Requests] /\ state \in PageStates
  BY DEF IInv, TypeOK
<1>1. ASSUME NEW st \in PageStates, SendFetch(i, "fetch", NoState, st) \/ HoldFetch(i, "fetch", NoState, st),
             rows' = rows, requests[i].phase = "idle",
             st = state \/ (st.totalRecords = Unknown /\ st.currentPage = 1)
      PROVE  RevertInv'
  <2>1. (\A k \in Ids : ~Sizing(requests[k])) => RowsFit(rows', st)
    BY <1>1 DEF RevertInv, RowsFit
  <2>2. ASSUME NEW k \in Ids, Sizing(requests[k]) PROVE RowsFit(rows', requests[k].from)
    BY <1>1, <2>2 DEF RevertInv, Revertible
  <2>. QED  BY <1>1, <2>1, <2>2, RevertBegins DEF Sizing, IsFetch
<1>2. ASSUME NEW held \in BOOLEAN, Refresh(i, held) PROVE RevertInv'
  BY <1>1, <1>2 DEF Refresh, Fetch
<1>3. ASSUME NEW held \in BOOLEAN, Reset(i, held) PROVE RevertInv'
  <2>. DEFINE st == CheckState(InitialState)
  <2>1. st \in PageStates /\ st.totalRecords = Unknown /\ st.currentPage = 1
    BY GridPagingAssumption DEF InitialState, PageStates, FirstPage, CheckState
  <2>. HIDE DEF st
  <2>2. (SendFetch(i, "fetch", NoState, st) \/ HoldFetch(i, "fetch", NoState, st))
        /\ rows' = rows /\ requests[i].phase = "idle"
    BY <1>3 DEF Reset, Fetch, st
  <2>. QED  BY <1>1, <2>1, <2>2
<1>4. ASSUME NEW held \in BOOLEAN, AjaxActionSucceeds(i, held) PROVE RevertInv'
  BY <1>1, <1>4 DEF AjaxActionSucceeds
<1>5. ASSUME ServeDestroy(i) PROVE RevertInv'
  <2>. DEFINE q == [requests[i] EXCEPT !.phase = "answered"]
  <2>1. q.kind = "destroy" /\ requests[i].kind = "destroy"
    BY <1>5 DEF ServeDestroy, Requests
  <2>2. requests' = [requests EXCEPT ![i] = q] /\ UNCHANGED <<state, rows>>
    BY <1>5 DEF ServeDestroy
  <2>. HIDE DEF q
  <2>3. Becomes(i, q)
    BY <2>2, OneSlotBecomes
  <2>. QED  BY <2>1, <2>2, <2>3, RevertQuiet DEF Sizing, IsFetch
<1>6. ASSUME ServeFetch(i) PROVE RevertInv'
  <2>. DEFINE q == Served(requests[i])
  <2>1. /\ requests[i].phase = "sent" /\ requests[i].kind # "destroy"
        /\ requests' = [requests EXCEPT ![i] = q] /\ UNCHANGED <<state, rows>>
    BY <1>6 DEF ServeFetch, Served
  <2>2. /\ q.phase = "answered" /\ q.kind = requests[i].kind /\ q.from = requests[i].from
        /\ q.page = requests[i].page /\ q.size = requests[i].size
    BY DEF Requests, Served
  <2>. HIDE DEF q
  <2>3. Becomes(i, q)
    BY <2>1, OneSlotBecomes
  <2>4. Sizing(q) <=> Sizing(requests[i])
    BY <2>1, <2>2 DEF Sizing, IsFetch
  <2>5. (\A k \in Ids : ~Sizing(requests[k])) => RowsFit(rows', state')
    BY <2>1 DEF RevertInv
  <2>6. ASSUME NEW k \in Ids, Sizing(requests[k])
        PROVE  /\ RowsFit(rows', requests[k].from)
               /\ Elsewhere(state'.currentPage, state'.pageSize, requests[k].from)
               /\ Elsewhere(q.page, q.size, requests[k].from)
    BY <2>1, <2>2, <2>6 DEF RevertInv, Revertible, IsFetch
  <2>. QED  BY <2>2, <2>3, <2>4, <2>5, <2>6, RevertKept
<1>. QED  BY <1>2, <1>3, <1>4, <1>5, <1>6 DEF RefreshStep

\* In a one-page grid the page size cannot be changed.
LEMMA NoSizing ==
    ASSUME IInv, AskableOK, OnePage, RevertInv, Intact', [Next]_vars
    PROVE  RevertInv'
<1>. requests \in [Ids -> Requests]
  BY DEF IInv, TypeOK
<1>1. ASSUME NEW i \in Ids, NEW r, Becomes(i, r), ~Sizing(r) PROVE RevertInv'
  <2>. SUFFICES ASSUME NEW j \in Ids PROVE ~Sizing(requests'[j])
    BY DEF RevertInv
  <2>1. CASE j = i
    BY <1>1, <2>1 DEF Becomes
  <2>2. CASE j # i
    BY <1>1, <2>2 DEF Becomes, RevertInv, Sizing, IsFetch
  <2>. QED  BY <2>1, <2>2
<1>2. ASSUME NEW i \in Ids, NEW st, SendFetch(i, "fetch", NoState, st) \/ HoldFetch(i, "fetch", NoState, st)
      PROVE  RevertInv'
  <2>. DEFINE w == Called(i, "fetch", NoState)
              q == Sent(w, st)
  <2>1. w \in Requests /\ w.kind = "fetch"
    BY CalledType, NoStateType DEF Kinds
  <2>2. Becomes(i, q) \/ Becomes(i, w)
    BY <1>2, FetchBegins, NoStateType DEF Kinds
  <2>. HIDE DEF w
  <2>3. q.kind = "fetch"
    BY <2>1, SentFields
  <2>. HIDE DEF q
  <2>. QED  BY <1>1, <2>1, <2>2, <2>3 DEF Sizing
<1>4. ASSUME NEW i \in Ids, Confirm(i) PROVE RevertInv'
  <2>. DEFINE q == Sent(requests[i], state)
  <2>1. q.kind = requests[i].kind
    BY SentFields
  <2>2. requests' = [requests EXCEPT ![i] = q] /\ requests[i].phase = "waiting"
    BY <1>4 DEF Confirm
  <2>. HIDE DEF q
  <2>3. ~Sizing(q)
    BY <2>1, <2>2 DEF Sizing, IsFetch, RevertInv
  <2>. QED  BY <1>1, <2>2, <2>3, OneSlotBecomes
<1>5. ASSUME NEW i \in Ids, requests' = [requests EXCEPT ![i] = Idle] \/ requests' = AfterReset(i)
      PROVE RevertInv'
  <2>1. Becomes(i, Idle)
    BY <1>5, OneSlotBecomes, ResetBecomes
  <2>. QED  BY <1>1, <2>1 DEF Sizing, IsFetch, Idle
<1>6. ASSUME NEW i \in Ids, DestroyRow(i) PROVE RevertInv'
  <2>. DEFINE q == [Idle EXCEPT !.phase = "sent", !.kind = "destroy", !.attached = TRUE]
  <2>1. q.kind = "destroy"
    BY DEF Idle
  <2>2. requests' = [requests EXCEPT ![i] = q]
    BY <1>6 DEF DestroyRow
  <2>. HIDE DEF q
  <2>. QED  BY <1>1, <2>1, <2>2, OneSlotBecomes DEF Sizing
<1>7. ASSUME NEW i \in Ids, ServeFetch(i) \/ ServeDestroy(i) PROVE RevertInv'
  <2>. DEFINE q == requests'[i]
  <2>1. q.kind = requests[i].kind /\ requests[i].phase = "sent"
        /\ \A j \in Ids \ {i} : requests'[j] = requests[j]
    BY <1>7 DEF ServeFetch, ServeDestroy, Requests
  <2>. HIDE DEF q
  <2>2. ~Sizing(q) /\ Becomes(i, q)
    BY <2>1 DEF Sizing, IsFetch, RevertInv, Becomes, q
  <2>. QED  BY <1>1, <2>2
<1>8. ASSUME NEW i \in Ids, UserStep(i) \/ RefreshStep(i) PROVE RevertInv'
  <2>1. ASSUME NEW held \in BOOLEAN, NEW n, UserGetsPage(i, n, held) \/ UserSetsPageSize(i, n, held)
        PROVE FALSE
    BY <2>1 DEF UserGetsPage, UserSetsPageSize
  <2>2. ASSUME NEW held \in BOOLEAN, Refresh(i, held) \/ Reset(i, held) PROVE RevertInv'
    BY <1>2, <2>2 DEF Refresh, Reset, Fetch
  <2>3. ASSUME Cancel(i) PROVE RevertInv'
    BY <1>5, <2>3 DEF Cancel
  <2>. QED  BY <1>4, <1>6, <1>8, <2>1, <2>2, <2>3 DEF UserStep, RefreshStep
<1>9. ASSUME NEW i \in Ids, AnswerStep(i) PROVE RevertInv'
  <2>1. ASSUME NEW held \in BOOLEAN, RowDestroyed(i, held) PROVE RevertInv'
    BY <1>2, <2>1 DEF RowDestroyed
  <2>2. ASSUME FetchSucceeds(i) \/ RequestFails(i) \/ DetachedRowDestroyed(i) PROVE RevertInv'
    BY <1>5, <2>2 DEF FetchSucceeds, RequestFails, DetachedRowDestroyed
  <2>. QED  BY <1>9, <2>1, <2>2, RaisedNotIntact DEF AnswerStep
<1>10. ASSUME NEW i \in Ids, NEW held \in BOOLEAN, AjaxActionSucceeds(i, held) PROVE RevertInv'
  BY <1>2, <1>10 DEF AjaxActionSucceeds
<1>11. CASE requests' = requests
  BY <1>11 DEF RevertInv
<1>. QED
  BY <1>7, <1>8, <1>9, <1>10, <1>11
  DEF Next, WorkStep, AjaxAnswerStep, AjaxActionFails, StartAjaxAction, OthersChangeData, vars

(***************************************************************************)
(* The widgets are rendered with everything that matters to them.          *)
(***************************************************************************)
LEMMA WidgetsRendered ==
    ASSUME IInv', Rendered
    PROVE  WidgetsOK'
<1>1. widgets'.size => ~loading'
  BY Zenon DEF Rendered, Render
<1>2. widgets'.pager /\ state'.totalRecords # Unknown => ~loading'
  BY Zenon DEF Rendered, Render
<1>. QED  BY <1>1, <1>2 DEF WidgetsOK

LEMMA WidgetsKept ==
    ASSUME WidgetsOK, UNCHANGED widgets, loading' => loading,
           \/ \A i \in Ids : ~Sizing(requests'[i])
           \/ /\ \E i \in Ids : Sizing(requests[i])
              /\ state.totalRecords = Unknown => state'.totalRecords = Unknown
           \/ ~loading
    PROVE  WidgetsOK'
BY DEF WidgetsOK

LEMMA WidgetsSame ==
    ASSUME WidgetsOK, UNCHANGED <<widgets, state>>, loading' => loading, NEW i \in Ids, NEW r,
           Becomes(i, r), Sizing(r) => Sizing(requests[i])
    PROVE  WidgetsOK'
<1>1. \A j \in Ids : Sizing(requests'[j]) => Sizing(requests[j])
  BY DEF Becomes, Sizing, IsFetch
<1>. QED  BY <1>1, WidgetsKept

LEMMA WidgetsStep ==
    ASSUME ~OnePage, IInv, IInv', AskableOK, RevertInv, WidgetsOK, Intact', [Next]_vars
    PROVE  WidgetsOK'
<1>. requests \in [Ids -> Requests] /\ state \in PageStates
  BY DEF IInv, TypeOK
<1>1. ASSUME NEW i \in Ids, NEW kind \in {"fetch", "size"}, NEW from \in PageStates,
             NEW st \in PageStates, NEW held \in BOOLEAN, Fetch(i, kind, from, st, held),
             kind = "size" => ~loading,
             state.totalRecords = Unknown => st.totalRecords = Unknown
      PROVE  WidgetsOK'
  <2>1. CASE ~held
    BY <1>1, <2>1, WidgetsRendered DEF Fetch, BeforeRequest
  <2>2. CASE held
    <3>. DEFINE w == Called(i, kind, from)
    <3>1. UNCHANGED <<loading, widgets>> /\ state' = st /\ requests' = [Disturbed EXCEPT ![i] = w]
      BY <1>1, <2>2 DEF Fetch, HoldFetch
    <3>2. w.kind = kind
      BY DEF Called, Idle
    <3>. HIDE DEF w
    <3>3. \A j \in Ids : Sizing(requests'[j]) => Sizing(requests[j]) \/ kind = "size"
      BY <3>1, <3>2, DisturbedType DEF Sizing, IsFetch
    <3>. QED  BY <1>1, <3>1, <3>3, WidgetsKept
  <2>. QED  BY <2>1, <2>2
<1>2. ASSUME NEW i \in Ids, NEW n \in 0..MaxTotal, NEW held \in BOOLEAN, UserGetsPage(i, n, held)
      PROVE  WidgetsOK'
  <2>. DEFINE u == [state EXCEPT !.currentPage = n]
              st == CheckState(u)
  <2>1. u \in PageStates /\ u.totalRecords = state.totalRecords
    BY DEF PageStates
  <2>. HIDE DEF u
  <2>2. st \in PageStates /\ st.totalRecords = state.totalRecords
    BY <2>1, CheckStateSafe, CheckedKeeps
  <2>. HIDE DEF st
  <2>3. Fetch(i, "fetch", NoState, st, held)
    BY <1>2 DEF UserGetsPage, st, u
  <2>. QED  BY <1>1, <2>2, <2>3, NoStateType
<1>3. ASSUME NEW i \in Ids, NEW n \in PageSizes, NEW held \in BOOLEAN, UserSetsPageSize(i, n, held)
      PROVE  WidgetsOK'
  <2>. DEFINE u == [state EXCEPT !.pageSize = n]
              st == CheckState(u)
  <2>1. u \in PageStates /\ u.totalRecords = state.totalRecords
    BY GridPagingAssumption DEF PageStates
  <2>. HIDE DEF u
  <2>2. st \in PageStates /\ st.totalRecords = state.totalRecords
    BY <2>1, CheckStateSafe, CheckedKeeps
  <2>. HIDE DEF st
  <2>3. Fetch(i, "size", state, st, held) /\ ~loading
    BY <1>3 DEF UserSetsPageSize, WidgetsOK, st, u
  <2>. QED  BY <1>1, <2>2, <2>3
<1>4. ASSUME NEW i \in Ids, NEW held \in BOOLEAN, Refresh(i, held) \/ Reset(i, held)
      PROVE  WidgetsOK'
  <2>1. CASE Refresh(i, held)
    BY <1>1, <2>1, NoStateType DEF Refresh
  <2>2. CASE Reset(i, held)
    <3>. DEFINE st == CheckState(InitialState)
    <3>1. st \in PageStates /\ st.totalRecords = Unknown
      BY GridPagingAssumption DEF InitialState, PageStates, FirstPage, CheckState
    <3>. HIDE DEF st
    <3>2. Fetch(i, "fetch", NoState, st, held)
      BY <2>2 DEF Reset, st
    <3>. QED  BY <1>1, <3>1, <3>2, NoStateType
  <2>. QED  BY <1>4, <2>1, <2>2
<1>5. ASSUME NEW i \in Ids, requests[i].phase # "idle", state' = Reverted(requests[i]),
             requests' = [requests EXCEPT ![i] = Idle], UNCHANGED widgets, loading' => loading
      PROVE  WidgetsOK'
  <2>1. Becomes(i, Idle)
    BY <1>5, OneSlotBecomes
  <2>2. CASE Sizing(requests[i])
    <3>1. \A j \in Ids \ {i} : ~Sizing(requests[j])
      BY <2>2 DEF RevertInv, Revertible
    <3>2. \A j \in Ids : ~Sizing(requests'[j])
      BY <2>1, <3>1 DEF Becomes, Sizing, IsFetch, Idle
    <3>. QED  BY <1>5, <3>2, WidgetsKept
  <2>3. CASE ~Sizing(requests[i])
    <3>1. state' = state
      BY <1>5, <2>3 DEF Sizing, IsFetch, Reverted
    <3>. QED  BY <1>5, <2>1, <3>1, WidgetsSame DEF Sizing, IsFetch, Idle
  <2>. QED  BY <2>2, <2>3
<1>6. AfterRequest => (loading' => loading)
  BY Zenon DEF AfterRequest
<1>7. ASSUME NEW i \in Ids, UserStep(i) PROVE WidgetsOK'
  <2>1. ASSUME Confirm(i) \/ DestroyRow(i) PROVE WidgetsOK'
    BY <2>1, WidgetsRendered DEF Confirm, DestroyRow, BeforeRequest
  <2>2. ASSUME Cancel(i) PROVE WidgetsOK'
    BY <1>5, <2>2 DEF Cancel
  <2>. QED  BY <1>2, <1>3, <1>7, <2>1, <2>2 DEF UserStep
<1>8. ASSUME NEW i \in Ids, AnswerStep(i) PROVE WidgetsOK'
  <2>1. ASSUME FetchSucceeds(i) \/ \E held \in BOOLEAN : RowDestroyed(i, held) PROVE WidgetsOK'
    BY <2>1, WidgetsRendered DEF FetchSucceeds, RowDestroyed
  <2>2. ASSUME RequestFails(i) PROVE WidgetsOK'
    <3>1. CASE Rendered
      BY <3>1, WidgetsRendered
    <3>2. CASE UNCHANGED widgets
      BY <1>5, <1>6, <2>2, <3>2 DEF RequestFails, AfterFailure, InFlight
    <3>. QED  BY <2>2, <3>1, <3>2 DEF RequestFails, AfterFailure
  <2>3. ASSUME DetachedRowDestroyed(i) PROVE WidgetsOK'
    <3>1. CASE Rendered
      BY <3>1, WidgetsRendered
    <3>2. CASE UNCHANGED widgets
      <4>1. Becomes(i, Idle)
        BY <2>3, OneSlotBecomes DEF DetachedRowDestroyed
      <4>. QED  BY <1>6, <2>3, <3>2, <4>1, WidgetsSame
           DEF DetachedRowDestroyed, AfterFailure, Sizing, IsFetch, Idle
    <3>. QED  BY <2>3, <3>1, <3>2 DEF DetachedRowDestroyed, AfterFailure
  <2>. QED  BY <1>8, <2>1, <2>2, <2>3, RaisedNotIntact DEF AnswerStep
<1>9. ASSUME NEW i \in Ids, ServeFetch(i) \/ ServeDestroy(i) PROVE WidgetsOK'
  <2>1. UNCHANGED <<state, loading, widgets>>
    BY <1>9 DEF ServeFetch, ServeDestroy
  <2>2. requests'[i].kind = requests[i].kind /\ requests[i].phase = "sent"
        /\ \A j \in Ids \ {i} : requests'[j] = requests[j]
    BY <1>9 DEF ServeFetch, ServeDestroy, Requests
  <2>3. \A j \in Ids : Sizing(requests'[j]) => Sizing(requests[j])
    BY <2>2 DEF Sizing, IsFetch
  <2>. QED  BY <2>1, <2>3, WidgetsKept
<1>10. ASSUME StartAjaxAction \/ AjaxAnswerStep PROVE WidgetsOK'
  BY <1>10, WidgetsRendered
  DEF StartAjaxAction, AjaxAnswerStep, AjaxActionFails, AjaxActionSucceeds, BeforeRequest
<1>11. CASE OthersChangeData \/ UNCHANGED vars
  BY <1>11 DEF OthersChangeData, vars, WidgetsOK
<1>. QED  BY <1>4, <1>7, <1>8, <1>9, <1>10, <1>11 DEF Next, WorkStep, RefreshStep

LEMMA RevertStep ==
    ASSUME MaxAjax = 0, IInv, SyncInv, RevertInv, ~OnePage => WidgetsOK, Intact, Intact', [Next]_vars
    PROVE  RevertInv' /\ (~OnePage => WidgetsOK')
<1>1. CASE OnePage
  BY <1>1, NoSizing DEF SyncInv
<1>2. CASE ~OnePage
  <2>1. ASSUME UNCHANGED <<state, rows, requests>> PROVE RevertInv'
    <3>1. \A i \in Ids : Revertible(i)' <=> Revertible(i)
      BY <2>1 DEF Revertible
    <3>. QED  BY <2>1, <3>1 DEF RevertInv
  <2>2. RevertInv'
    BY <1>2, <2>1, RevertUser, RevertAnswers, RevertOther
    DEF Next, WorkStep, AjaxAnswerStep, AjaxActionFails, StartAjaxAction, OthersChangeData, vars
  <2>3. WidgetsOK'
    BY <1>2, NextIInv, WidgetsStep DEF SyncInv
  <2>. QED  BY <2>2, <2>3
<1>. QED  BY <1>1, <1>2

RevertibleWhileIntact ==
    SyncedWhileIntact /\ (Intact => RevertInv /\ (~OnePage => WidgetsOK))

LEMMA RevertInvariance == MaxAjax = 0 => (Spec => []RevertibleWhileIntact)
<1>. SUFFICES ASSUME MaxAjax = 0 PROVE Spec => []RevertibleWhileIntact
  OBVIOUS
<1>1. Init => RevertInv
  <2>. SUFFICES ASSUME Init PROVE RevertInv
    OBVIOUS
  <2>1. \A i \in Ids : ~Sizing(requests[i])
    BY DEF Init, Idle, Sizing, IsFetch
  <2>2. ASSUME ~OnePage PROVE RowsFit(rows, state)
    <3>1. PICK n \in 0..MaxTotal, p \in 1..(MaxTotal + 1) :
            /\ rows = [page |-> p, size |-> DefaultPageSize,
                       count |-> Answered(p, DefaultPageSize, n)]
            /\ state = CheckState([totalRecords |-> n, pageSize |-> DefaultPageSize,
                                   currentPage |-> p, totalPages |-> Unknown, lastPage |-> Unknown])
      BY DEF Init
    <3>. DEFINE s == [totalRecords |-> n, pageSize |-> DefaultPageSize,
                      currentPage |-> p, totalPages |-> Unknown, lastPage |-> Unknown]
    <3>2. s \in PageStates /\ n \in Nat /\ p \in Nat /\ DefaultPageSize \in Nat /\ s.totalRecords = n
      BY GridPagingAssumption DEF PageStates
    <3>3. state = CheckState(s)
      BY <3>1
    <3>. HIDE DEF s
    <3>4. state.totalRecords = n
      BY <2>2, <3>2, <3>3, CheckedKeeps
    <3>5. Answered(p, DefaultPageSize, n) > 0
            => (p - 1) * DefaultPageSize + Answered(p, DefaultPageSize, n) <= n
      BY <2>2, <3>2, AnsweredFits
    <3>. QED  BY <3>1, <3>4, <3>5 DEF RowsFit
  <2>. QED  BY <2>1, <2>2 DEF RevertInv
<1>2. Init => WidgetsOK
  BY DEF Init, WidgetsOK
<1>. DEFINE Good == Intact => RevertInv /\ (~OnePage => WidgetsOK)
<1>3. Init => Good
  BY <1>1, <1>2
<1>4. SyncedWhileIntact /\ Good /\ [Next]_vars => Good'
  BY RevertStep, IntactBefore DEF SyncedWhileIntact
<1>5. Spec => []SyncedWhileIntact
  BY SyncInvariance
<1>6. Spec => []Good
  <2>. HIDE DEF Good
  <2>. QED  BY <1>3, <1>4, <1>5, PTL DEF Spec
<1>. QED  BY <1>5, <1>6, PTL DEF RevertibleWhileIntact

LEMMA FailureReverts ==
    ASSUME IInv, Intact, SyncInv, RevertInv, NEW i \in Ids, requests[i].kind = "size",
           RequestFails(i) \/ Cancel(i), rows.count > 0,
           rows.size = requests[i].from.pageSize, rows.page = requests[i].from.currentPage
    PROVE  rows.size = state'.pageSize /\ rows.page = state'.currentPage
<1>. DEFINE from == requests[i].from
<1>1. Sizing(requests[i]) /\ requests[i] \in Requests
  BY DEF RequestFails, Cancel, InFlight, Sizing, IsFetch, IInv, TypeOK
<1>2. ~OnePage /\ RowsFit(rows, from) /\ OneShown(from)
  BY <1>1 DEF RevertInv, Revertible
<1>3. state' = CheckState(from) /\ from \in PageStates /\ Fine(from)
  BY <1>1 DEF RequestFails, Cancel, Reverted, Requests, IInv, PagesOK
<1>5. rows.count \in Nat
  BY DEF IInv, TypeOK
<1>6. rows.size = from.pageSize /\ rows.page = from.currentPage
  OBVIOUS
<1>. HIDE DEF from
<1>7. CASE from.totalRecords = Unknown
  BY <1>3, <1>6, <1>7 DEF CheckState
<1>8. CASE from.totalRecords # Unknown
  <2>1. /\ from.totalRecords \in Nat /\ from.currentPage \in Nat /\ from.currentPage >= 1
        /\ from.pageSize \in Nat
    BY <1>3, <1>8 DEF PageStates, Fine, FirstPage
  <2>2. state'.pageSize = from.pageSize /\ state'.currentPage = PageOf(from)
    BY <1>2, <1>3, <1>8 DEF CheckState, SizeOf
  <2>3. from.currentPage > 1
          => /\ (from.currentPage - 1) * from.pageSize \in Nat
             /\ (from.currentPage - 1) * from.pageSize + rows.count <= from.totalRecords
    BY <1>2, <1>6, <1>8, <2>1 DEF RowsFit
  <2>4. PageOf(from) = from.currentPage
    <3>1. CASE from.totalRecords = 0
      BY <1>5, <2>1, <2>3, <3>1 DEF PageOf, FirstPage
    <3>2. CASE from.pageSize = 0
      BY <1>2, <1>8, <2>1, <3>2 DEF PageOf, SizeOf, OneShown, FirstPage
    <3>3. CASE from.pageSize > 0 /\ from.totalRecords > 0
      <4>. DEFINE last == CeilDiv(from.totalRecords, from.pageSize)
      <4>1. SizeOf(from) = from.pageSize /\ AskedOf(from) = from.currentPage /\ PagesOf(from) = last
        BY <1>2, <3>3 DEF SizeOf, AskedOf, PagesOf
      <4>2. last \in Nat /\ last >= 1
        BY <2>1, <3>3, CeilDivType
      <4>3. from.currentPage <= last
        <5>1. CASE from.currentPage = 1
          <6>. HIDE DEF last
          <6>. QED  BY <4>2, <5>1
        <5>2. CASE from.currentPage > 1
          <6>1. from.pageSize * (from.currentPage - 1) = (from.currentPage - 1) * from.pageSize
            BY <2>1
          <6>2. from.pageSize * (from.currentPage - 1) < from.totalRecords
            BY <1>5, <2>1, <2>3, <5>2, <6>1
          <6>. QED  BY <2>1, <3>3, <6>2, PagesWithRows
        <5>. QED  BY <2>1, <5>1, <5>2
      <4>. HIDE DEF last
      <4>. QED  BY <2>1, <3>3, <4>1, <4>2, <4>3 DEF PageOf
    <3>. QED  BY <2>1, <3>1, <3>2, <3>3
  <2>. QED  BY <1>6, <2>2, <2>4
<1>. QED  BY <1>7, <1>8

\* A page-size change that fails or is refused leaves rows and state as they
\* agreed before it, in every grid without ajax actions: for every total,
\* with refreshes, resets, removals and other users' changes in between.
THEOREM FailuresRevert == MaxAjax = 0 => (Spec => UndisturbedFailureReverts)
<1>. SUFFICES ASSUME MaxAjax = 0 PROVE Spec => UndisturbedFailureReverts
  OBVIOUS
<1>. DEFINE A == \A i \in Ids :
         /\ requests[i].kind = "size" /\ requests[i].undisturbed
         /\ RequestFails(i) \/ Cancel(i)
         /\ rows.count > 0
         /\ rows.size = requests[i].from.pageSize
         /\ rows.page = requests[i].from.currentPage
         => rows.size = state'.pageSize /\ rows.page = state'.currentPage
<1>1. RevertibleWhileIntact /\ [Next]_vars => [A]_vars
  <2>. SUFFICES ASSUME RevertibleWhileIntact, Next, NEW i \in Ids, requests[i].kind = "size",
                       RequestFails(i) \/ Cancel(i), rows.count > 0,
                       rows.size = requests[i].from.pageSize,
                       rows.page = requests[i].from.currentPage
       PROVE  rows.size = state'.pageSize /\ rows.page = state'.currentPage
    BY DEF RevertibleWhileIntact
  <2>1. requests[i].phase # "idle" /\ requests' = [requests EXCEPT ![i] = Idle]
    BY DEF RequestFails, Cancel, InFlight
  <2>2. requests'[i].phase = "idle"
    BY <2>1 DEF RevertibleWhileIntact, SyncedWhileIntact, IInv, TypeOK, Idle
  <2>3. Intact
    BY <2>1, <2>2 DEF Next, OthersChangeData
  <2>. QED  BY <2>3, FailureReverts DEF RevertibleWhileIntact, SyncedWhileIntact
<1>2. Spec => []RevertibleWhileIntact
  BY RevertInvariance
<1>3. Spec => [][A]_vars
  BY <1>1, <1>2, PTL DEF Spec
<1>. QED  BY <1>3 DEF UndisturbedFailureReverts

-----------------------------------------------------------------------------
(***************************************************************************)
(* The toolbars.  Every widget is enabled exactly when nothing is under    *)
(* way or the mask was hidden early; outside a modal window the pager and  *)
(* the page size show the state they were last told of, which is the       *)
(* current one unless a state was taken back; and the counter, which       *)
(* nothing disables, is told of every new total.                           *)
(***************************************************************************)
BarStates == [page : Nat, query : Queries, total : Nat \cup {Null}]
BarPagers == [enabled : BOOLEAN, page : Nat, total : Nat, on : BOOLEAN]
BarSizes  == [enabled : BOOLEAN, query : Queries, on : BOOLEAN]
BarBars   == [pager : BarPagers, size : BarSizes,
              launchers : [Bar!Actions -> [enabled : BOOLEAN]], counter : Nat]
BarSlots  == [phase : {"held", "sent", "destroy"}, before : BarStates \cup {Bar!Idle}]
             \cup {Bar!Idle}

BarSent == {s \in Ids : barRequests[s].phase \in {"sent", "destroy"}}

\* Whether the toolbars are enabled.
BarOn == (barRequestsCount = 0 /\ barAjax = 0) \/ uncovered

\* What a pager and a page size show of a state, when e is whether they are enabled.
PagerShows(pager, e, st) ==
    /\ pager.on <=> e /\ st.total # 0
    /\ pager.page = st.page /\ pager.total = st.total

SizeShows(size, e, st) ==
    /\ size.on <=> e /\ st.total \notin {0, Null}
    /\ size.query = st.query

AreEnabled(bar, e) ==
    /\ bar.pager.enabled <=> e
    /\ bar.size.enabled <=> e
    /\ \A a \in Bar!Actions : bar.launchers[a].enabled <=> e
    /\ bar.size.on => e

IsTold(bar, e, st) ==
    st.total # Null => /\ bar.pager.on <=> e /\ st.total # 0
                       /\ e => PagerShows(bar.pager, e, st) /\ SizeShows(bar.size, e, st)

BarTypeOK ==
    /\ barState \in BarStates
    /\ bars \in [Placements -> BarBars]
    /\ barRequests \in [Ids -> BarSlots]
    /\ barRequestsCount = Cardinality(BarSent)
    /\ barAjax \in Nat /\ uncovered \in BOOLEAN
    /\ open \in Placements \cup {Null}
    /\ links \in [Placements -> Queries \cup {Null}]

BarInv ==
    /\ BarTypeOK
    /\ \A p \in Placements : AreEnabled(bars[p], BarOn)
    /\ ~Bar!Modal /\ "bars" \notin overtaken =>
          \A p \in Placements : IsTold(bars[p], BarOn, barState)
    /\ "counter" \notin overtaken /\ barState.total # Null =>
          \A p \in Placements : bars[p].counter = barState.total
    /\ Bar!LinksAreCurrent

LEMMA BarCheck ==
    ASSUME NEW st \in BarStates
    PROVE  /\ Bar!Check(st) \in BarStates
           /\ Bar!Check(st).total = st.total
           /\ Bar!Check(st).query = st.query
BY DEF Bar!Check, BarStates

LEMMA PagerTold ==
    ASSUME NEW pager \in BarPagers, NEW st \in BarStates
    PROVE  /\ Bar!PagerOf(pager, st) \in BarPagers
           /\ Bar!PagerOf(pager, st).enabled = pager.enabled
           /\ st.total # Null => PagerShows(Bar!PagerOf(pager, st), pager.enabled, st)
<1>1. CASE st.total = Null
  BY <1>1 DEF Bar!PagerOf
<1>2. CASE st.total # Null
  <2>. DEFINE b == pager.enabled /\ st.total # 0
              q == [pager EXCEPT !.page = st.page, !.total = st.total, !.on = b]
  <2>1. Bar!PagerOf(pager, st) = q
    BY <1>2 DEF Bar!PagerOf
  <2>2. b \in BOOLEAN
    OBVIOUS
  <2>3. st.total \in Nat /\ st.page \in Nat
    BY <1>2 DEF BarStates
  <2>. HIDE DEF b
  <2>4. /\ q \in BarPagers /\ q.enabled = pager.enabled /\ q.on = b
        /\ q.page = st.page /\ q.total = st.total
    <3>. DEFINE q1 == [pager EXCEPT !.page = st.page]
                q2 == [q1 EXCEPT !.total = st.total]
    <3>1. q1 \in BarPagers /\ q1.enabled = pager.enabled /\ q1.page = st.page
      BY <2>3 DEF BarPagers
    <3>. HIDE DEF q1
    <3>2. q2 \in BarPagers /\ q2.enabled = pager.enabled /\ q2.page = st.page /\ q2.total = st.total
      BY <2>3, <3>1 DEF BarPagers
    <3>3. q = [q2 EXCEPT !.on = b]
      BY DEF q1
    <3>. HIDE DEF q2, q
    <3>. QED  BY <2>2, <3>2, <3>3 DEF BarPagers
  <2>. HIDE DEF q
  <2>. QED  BY <2>1, <2>4 DEF PagerShows, b
<1>. QED  BY <1>1, <1>2

LEMMA SizeTold ==
    ASSUME NEW size \in BarSizes, NEW st \in BarStates
    PROVE  /\ Bar!PageSizeOf(size, st) \in BarSizes
           /\ Bar!PageSizeOf(size, st).enabled = size.enabled
           /\ SizeShows(Bar!PageSizeOf(size, st), size.enabled, st)
<1>. DEFINE b == size.enabled /\ st.total \notin {0, Null}
            q1 == [size EXCEPT !.query = st.query]
            q == [q1 EXCEPT !.on = b]
<1>1. Bar!PageSizeOf(size, st) = q
  BY DEF Bar!PageSizeOf
<1>2. b \in BOOLEAN
  OBVIOUS
<1>. HIDE DEF b
<1>3. q1 \in BarSizes /\ q1.enabled = size.enabled /\ q1.query = st.query
  BY DEF BarSizes, BarStates
<1>. HIDE DEF q1
<1>4. q \in BarSizes /\ q.enabled = size.enabled /\ q.query = st.query /\ q.on = b
  BY <1>2, <1>3 DEF BarSizes
<1>. HIDE DEF q
<1>. QED  BY <1>1, <1>4 DEF SizeShows, b

LEMMA LaunchersTold ==
    ASSUME NEW launchers \in [Bar!Actions -> [enabled : BOOLEAN]], NEW flag \in BOOLEAN
    PROVE  /\ Bar!EnableActions(launchers, flag) \in [Bar!Actions -> [enabled : BOOLEAN]]
           /\ \A a \in Bar!Actions : Bar!EnableActions(launchers, flag)[a].enabled = flag
BY DEF Bar!EnableActions, Bar!EnableLauncher

\* disable and enable leave the counter alone and tell the rest of the state.
LEMMA BarEnable ==
    ASSUME NEW bar \in BarBars, NEW flag \in BOOLEAN, NEW st \in BarStates
    PROVE  LET to == Bar!Enable(bar, flag, st)
           IN  /\ to \in BarBars /\ to.counter = bar.counter
               /\ AreEnabled(to, flag) /\ IsTold(to, flag, st)
<1>. DEFINE to == Bar!Enable(bar, flag, st)
            p0 == [bar.pager EXCEPT !.enabled = flag]
            s0 == [bar.size EXCEPT !.enabled = flag]
            p1 == Bar!PagerOf(p0, st)
            s1 == Bar!PageSizeOf(s0, st)
            l1 == Bar!EnableActions(bar.launchers, flag)
<1>1. p0 \in BarPagers /\ p0.enabled = flag /\ s0 \in BarSizes /\ s0.enabled = flag
  BY DEF BarBars, BarPagers, BarSizes
<1>. HIDE DEF p0, s0
<1>2. /\ p1 \in BarPagers /\ p1.enabled = flag
      /\ st.total # Null => PagerShows(p1, flag, st)
  BY <1>1, PagerTold
<1>3. s1 \in BarSizes /\ s1.enabled = flag /\ SizeShows(s1, flag, st)
  BY <1>1, SizeTold
<1>4. /\ l1 \in [Bar!Actions -> [enabled : BOOLEAN]]
      /\ \A a \in Bar!Actions : l1[a].enabled = flag
  <2>1. bar.launchers \in [Bar!Actions -> [enabled : BOOLEAN]]
    BY DEF BarBars
  <2>. QED  BY <2>1, LaunchersTold
<1>5. to = [bar EXCEPT !.pager = p1, !.size = s1, !.launchers = l1]
  BY DEF Bar!Enable, Bar!EnablePager, Bar!EnablePageSize, p0, s0, BarBars
<1>. HIDE DEF p1, s1, l1, to
<1>6. /\ to \in BarBars /\ to.counter = bar.counter
      /\ to.pager = p1 /\ to.size = s1 /\ to.launchers = l1
  <2>. DEFINE b1 == [bar EXCEPT !.pager = p1]
              b2 == [b1 EXCEPT !.size = s1]
  <2>1. b1 \in BarBars /\ b1.counter = bar.counter /\ b1.pager = p1
    BY <1>2 DEF BarBars
  <2>2. to = [b2 EXCEPT !.launchers = l1]
    BY <1>5
  <2>. HIDE DEF b1
  <2>3. b2 \in BarBars /\ b2.counter = bar.counter /\ b2.pager = p1 /\ b2.size = s1
    BY <1>3, <2>1 DEF BarBars
  <2>. HIDE DEF b2
  <2>. QED  BY <1>4, <2>2, <2>3 DEF BarBars
<1>7. AreEnabled(to, flag)
  BY <1>2, <1>3, <1>4, <1>6 DEF AreEnabled, SizeShows
<1>8. IsTold(to, flag, st)
  BY <1>2, <1>3, <1>6 DEF IsTold, PagerShows
<1>. QED  BY <1>6, <1>7, <1>8 DEF to

\* The collection's events tell all but whether the widgets are enabled.
RenderedBar(bar, st) ==
    [bar EXCEPT !.pager = Bar!PagerOf(@, st), !.size = Bar!PageSizeOf(@, st),
                !.counter = Bar!CounterOf(@, st)]

LEMMA BarRender ==
    ASSUME NEW bar \in BarBars, NEW st \in BarStates, NEW e \in BOOLEAN, AreEnabled(bar, e)
    PROVE  /\ RenderedBar(bar, st) \in BarBars
           /\ st.total # Null => RenderedBar(bar, st).counter = st.total
           /\ AreEnabled(RenderedBar(bar, st), e) /\ IsTold(RenderedBar(bar, st), e, st)
<1>. DEFINE p1 == Bar!PagerOf(bar.pager, st)
            s1 == Bar!PageSizeOf(bar.size, st)
            c1 == Bar!CounterOf(bar.counter, st)
            to == [bar EXCEPT !.pager = p1, !.size = s1, !.counter = c1]
<1>1. bar.pager \in BarPagers /\ bar.size \in BarSizes /\ bar.counter \in Nat
  BY DEF BarBars
<1>2. /\ p1 \in BarPagers /\ p1.enabled = bar.pager.enabled
      /\ st.total # Null => PagerShows(p1, bar.pager.enabled, st)
  BY <1>1, PagerTold
<1>3. s1 \in BarSizes /\ s1.enabled = bar.size.enabled /\ SizeShows(s1, bar.size.enabled, st)
  BY <1>1, SizeTold
<1>4. c1 \in Nat /\ (st.total # Null => c1 = st.total)
  BY <1>1 DEF Bar!CounterOf, BarStates
<1>. HIDE DEF p1, s1, c1
<1>5. /\ to \in BarBars /\ to.counter = c1
      /\ to.pager = p1 /\ to.size = s1 /\ to.launchers = bar.launchers
  <2>. DEFINE b1 == [bar EXCEPT !.pager = p1]
              b2 == [b1 EXCEPT !.size = s1]
  <2>1. b1 \in BarBars /\ b1.launchers = bar.launchers /\ b1.pager = p1
    BY <1>2 DEF BarBars
  <2>2. to = [b2 EXCEPT !.counter = c1]
    OBVIOUS
  <2>. HIDE DEF b1
  <2>3. b2 \in BarBars /\ b2.launchers = bar.launchers /\ b2.pager = p1 /\ b2.size = s1
    BY <1>3, <2>1 DEF BarBars
  <2>. HIDE DEF b2, to
  <2>. QED  BY <1>4, <2>2, <2>3 DEF BarBars
<1>. HIDE DEF to
<1>6. AreEnabled(to, e)
  BY <1>2, <1>3, <1>5 DEF AreEnabled, SizeShows
<1>7. IsTold(to, e, st)
  BY <1>2, <1>3, <1>5 DEF IsTold, PagerShows, SizeShows, AreEnabled
<1>8. to = RenderedBar(bar, st)
  BY DEF to, p1, s1, c1, BarBars, RenderedBar
<1>. QED  BY <1>4, <1>5, <1>6, <1>7, <1>8

LEMMA ToolbarsCalled ==
    ASSUME NEW bs \in [Placements -> BarBars], NEW flag \in BOOLEAN, NEW st \in BarStates
    PROVE  /\ Bar!CallToolbar(bs, flag, st) \in [Placements -> BarBars]
           /\ \A p \in Placements : /\ AreEnabled(Bar!CallToolbar(bs, flag, st)[p], flag)
                                    /\ IsTold(Bar!CallToolbar(bs, flag, st)[p], flag, st)
                                    /\ Bar!CallToolbar(bs, flag, st)[p].counter = bs[p].counter
<1>1. ASSUME NEW p \in Placements
      PROVE  /\ Bar!CallToolbar(bs, flag, st)[p] = Bar!Enable(bs[p], flag, st)
             /\ Bar!Enable(bs[p], flag, st) \in BarBars
             /\ Bar!Enable(bs[p], flag, st).counter = bs[p].counter
             /\ AreEnabled(Bar!Enable(bs[p], flag, st), flag)
             /\ IsTold(Bar!Enable(bs[p], flag, st), flag, st)
  BY BarEnable DEF Bar!CallToolbar
<1>. QED  BY <1>1 DEF Bar!CallToolbar

LEMMA ToolbarsRendered ==
    ASSUME NEW bs \in [Placements -> BarBars], NEW st \in BarStates, NEW e \in BOOLEAN,
           \A p \in Placements : AreEnabled(bs[p], e)
    PROVE  /\ Bar!Rendered(bs, st) \in [Placements -> BarBars]
           /\ \A p \in Placements :
                /\ AreEnabled(Bar!Rendered(bs, st)[p], e)
                /\ IsTold(Bar!Rendered(bs, st)[p], e, st)
                /\ st.total # Null => Bar!Rendered(bs, st)[p].counter = st.total
<1>1. ASSUME NEW p \in Placements
      PROVE  /\ RenderedBar(bs[p], st) \in BarBars
             /\ st.total # Null => RenderedBar(bs[p], st).counter = st.total
             /\ AreEnabled(RenderedBar(bs[p], st), e) /\ IsTold(RenderedBar(bs[p], st), e, st)
  BY BarRender
<1>2. Bar!Rendered(bs, st) = [p \in Placements |-> RenderedBar(bs[p], st)]
  BY DEF Bar!Rendered, RenderedBar
<1>. QED  BY <1>1, <1>2

LEMMA BarCounts ==
    ASSUME BarTypeOK
    PROVE  /\ IsFiniteSet(BarSent) /\ barRequestsCount \in Nat
           /\ \A s \in BarSent : barRequestsCount >= 1
<1>1. IsFiniteSet(Ids) /\ BarSent \subseteq Ids
  BY GridPagingAssumption DEF BarSent
<1>2. IsFiniteSet(BarSent)
  BY <1>1, FS_Subset
<1>3. barRequestsCount \in Nat
  BY <1>2, FS_CardinalityType DEF BarTypeOK
<1>4. barRequestsCount = 0 => BarSent = {}
  BY <1>2, FS_EmptySet DEF BarTypeOK
<1>. QED  BY <1>2, <1>3, <1>4

\* Slot s holds r, and then so many are sent.
LEMMA BarSlotBecomes ==
    ASSUME BarTypeOK, NEW s \in Ids, NEW r \in BarSlots,
           barRequests' = [barRequests EXCEPT ![s] = r],
           barRequestsCount' = barRequestsCount
              + (IF r.phase \in {"sent", "destroy"} THEN 1 ELSE 0)
              - (IF barRequests[s].phase \in {"sent", "destroy"} THEN 1 ELSE 0)
    PROVE  /\ barRequests' \in [Ids -> BarSlots]
           /\ barRequestsCount' = Cardinality(BarSent')
           /\ barRequests'[s] = r /\ \A t \in Ids \ {s} : barRequests'[t] = barRequests[t]
<1>1. /\ barRequests' \in [Ids -> BarSlots] /\ barRequests'[s] = r
      /\ \A t \in Ids \ {s} : barRequests'[t] = barRequests[t]
  BY DEF BarTypeOK
<1>2. IsFiniteSet(BarSent) /\ Cardinality(BarSent) \in Nat /\ barRequestsCount = Cardinality(BarSent)
  BY BarCounts DEF BarTypeOK
<1>3. CASE r.phase \in {"sent", "destroy"} /\ barRequests[s].phase \notin {"sent", "destroy"}
  <2>1. BarSent' = BarSent \cup {s} /\ s \notin BarSent
    BY <1>1, <1>3 DEF BarSent
  <2>2. Cardinality(BarSent \cup {s}) = Cardinality(BarSent) + 1
    BY <1>2, <2>1, FS_AddElement
  <2>. QED  BY <1>1, <1>2, <1>3, <2>1, <2>2
<1>4. CASE r.phase \notin {"sent", "destroy"} /\ barRequests[s].phase \in {"sent", "destroy"}
  <2>1. BarSent' = BarSent \ {s} /\ s \in BarSent
    BY <1>1, <1>4 DEF BarSent
  <2>2. Cardinality(BarSent \ {s}) = Cardinality(BarSent) - 1
    BY <1>2, <2>1, FS_RemoveElement
  <2>. QED  BY <1>1, <1>2, <1>4, <2>1, <2>2
<1>5. CASE r.phase \in {"sent", "destroy"} <=> barRequests[s].phase \in {"sent", "destroy"}
  <2>1. BarSent' = BarSent
    BY <1>1, <1>5 DEF BarSent
  <2>. QED  BY <1>1, <1>2, <1>5, <2>1
<1>. QED  BY <1>3, <1>4, <1>5

(***************************************************************************)
(* A handler that fetches.                                                 *)
(***************************************************************************)
BarMain ==
    /\ barState \in BarStates
    /\ bars \in [Placements -> BarBars]
    /\ barRequests \in [Ids -> BarSlots]
    /\ barRequestsCount = Cardinality(BarSent)
    /\ barAjax \in Nat /\ uncovered \in BOOLEAN
    /\ \A p \in Placements : AreEnabled(bars[p], BarOn)
    /\ ~Bar!Modal /\ "bars" \notin overtaken =>
          \A p \in Placements : IsTold(bars[p], BarOn, barState)
    /\ "counter" \notin overtaken /\ barState.total # Null =>
          \A p \in Placements : bars[p].counter = barState.total

\* What the toolbars show when the mask is shown or hidden.
LEMMA BarsCalled ==
    ASSUME NEW st \in BarStates, NEW bs \in [Placements -> BarBars], NEW flag \in BOOLEAN,
           bars' = Bar!CallToolbar(bs, flag, st), flag <=> BarOn'
    PROVE  /\ bars' \in [Placements -> BarBars]
           /\ \A p \in Placements : AreEnabled(bars'[p], BarOn')
           /\ \A p \in Placements : IsTold(bars'[p], BarOn', st)
           /\ \A p \in Placements : bars'[p].counter = bs[p].counter
<1>. DEFINE to == Bar!CallToolbar(bs, flag, st)
<1>1. /\ to \in [Placements -> BarBars]
      /\ \A p \in Placements : AreEnabled(to[p], flag) /\ IsTold(to[p], flag, st)
                               /\ to[p].counter = bs[p].counter
  BY ToolbarsCalled
<1>2. bars' = to
  OBVIOUS
<1>. HIDE DEF to
<1>3. \A p \in Placements : AreEnabled(to[p], BarOn') /\ IsTold(to[p], BarOn', st)
  BY <1>1 DEF AreEnabled, IsTold
<1>. QED  BY <1>1, <1>2, <1>3

LEMMA BarsShown ==
    ASSUME NEW st \in BarStates, NEW bs \in [Placements -> BarBars], Bar!ShowLoading(bs, st),
           ~(barRequestsCount' = 0 /\ barAjax' = 0)
    PROVE  /\ bars' \in [Placements -> BarBars] /\ uncovered' \in BOOLEAN
           /\ \A p \in Placements : AreEnabled(bars'[p], BarOn')
           /\ \A p \in Placements : IsTold(bars'[p], BarOn', st)
           /\ \A p \in Placements : bars'[p].counter = bs[p].counter
<1>1. bars' = Bar!CallToolbar(bs, FALSE, st) /\ uncovered' = FALSE
  BY DEF Bar!ShowLoading
<1>2. FALSE <=> BarOn'
  BY <1>1 DEF BarOn
<1>. QED  BY <1>1, <1>2, BarsCalled

LEMMA BarsHidden ==
    ASSUME NEW st \in BarStates, NEW bs \in [Placements -> BarBars], Bar!HideLoading(bs, st),
           barRequestsCount' \in Nat, barAjax' \in Nat
    PROVE  /\ bars' \in [Placements -> BarBars] /\ uncovered' \in BOOLEAN
           /\ \A p \in Placements : AreEnabled(bars'[p], BarOn')
           /\ \A p \in Placements : IsTold(bars'[p], BarOn', st)
           /\ \A p \in Placements : bars'[p].counter = bs[p].counter
<1>. DEFINE some == barRequestsCount' + barAjax' > 0
<1>1. bars' = Bar!CallToolbar(bs, TRUE, st) /\ uncovered' = some
  BY DEF Bar!HideLoading
<1>2. ~some => barRequestsCount' = 0 /\ barAjax' = 0
  <2>1. \A m, n \in Nat : ~(m + n > 0) => m = 0 /\ n = 0
    OBVIOUS
  <2>. QED  BY <2>1
<1>3. some \in BOOLEAN
  OBVIOUS
<1>. HIDE DEF some
<1>4. TRUE <=> BarOn'
  BY <1>1, <1>2, <1>3, Zenon DEF BarOn
<1>5. uncovered' \in BOOLEAN
  BY <1>1, <1>3, Zenon
<1>. QED  BY <1>1, <1>4, <1>5, BarsCalled

\* A request less, which the toolbars hear of when it was the last.
LEMMA BarsAfter ==
    ASSUME BarInv, NEW st \in BarStates, NEW bs \in [Placements -> BarBars],
           Bar!AfterRequest(bs, st), UNCHANGED barAjax, barRequestsCount >= 1,
           \A p \in Placements : AreEnabled(bs[p], BarOn)
    PROVE  /\ bars' \in [Placements -> BarBars] /\ uncovered' \in BOOLEAN
           /\ \A p \in Placements : AreEnabled(bars'[p], BarOn')
           /\ \A p \in Placements : bars'[p].counter = bs[p].counter
           /\ barRequestsCount = 1 \/ (\A p \in Placements : IsTold(bs[p], BarOn, st))
                => \A p \in Placements : IsTold(bars'[p], BarOn', st)
<1>1. barRequestsCount \in Nat /\ barAjax \in Nat /\ uncovered \in BOOLEAN
  BY BarCounts DEF BarInv, BarTypeOK
<1>2. barRequestsCount' = barRequestsCount - 1
  BY DEF Bar!AfterRequest
<1>3. CASE barRequestsCount = 1
  <2>1. Bar!HideLoading(bs, st) /\ barRequestsCount' \in Nat /\ barAjax' \in Nat
    BY <1>1, <1>2, <1>3 DEF Bar!AfterRequest
  <2>. QED  BY <2>1, BarsHidden
<1>4. CASE barRequestsCount # 1
  <2>1. bars' = bs /\ uncovered' = uncovered
    BY <1>4 DEF Bar!AfterRequest
  <2>2. barRequestsCount' # 0 /\ barRequestsCount # 0
    BY <1>1, <1>2, <1>4
  <2>3. BarOn' <=> BarOn
    BY <2>1, <2>2 DEF BarOn
  <2>. QED  BY <1>1, <1>4, <2>1, <2>3 DEF AreEnabled, IsTold
<1>. QED  BY <1>3, <1>4

\* Slot s holds a fetch, held back or sent.
LEMMA BarCalled ==
    ASSUME BarTypeOK, NEW s \in Ids, NEW held \in BOOLEAN, NEW st \in BarStates,
           NEW before \in BarStates \cup {Bar!Idle}, Bar!Called(s, held, st, before),
           barRequestsCount' = barRequestsCount
              + (IF held THEN 0 ELSE 1)
              - (IF barRequests[s].phase \in {"sent", "destroy"} THEN 1 ELSE 0)
    PROVE  /\ barRequests' \in [Ids -> BarSlots] /\ barRequestsCount' = Cardinality(BarSent')
           /\ barState' \in BarStates
           /\ barState'.total = st.total /\ barState'.query = st.query
           /\ held => Bar!Modal'
<1>. DEFINE r == [phase |-> IF held THEN "held" ELSE "sent", before |-> before]
<1>1. /\ barRequests' = [barRequests EXCEPT ![s] = r]
      /\ barState' = IF held THEN st ELSE Bar!Check(st)
  BY DEF Bar!Called
<1>2. r \in BarSlots /\ r.phase = IF held THEN "held" ELSE "sent"
  BY DEF BarSlots
<1>. HIDE DEF r
<1>3. barRequestsCount' = barRequestsCount
              + (IF r.phase \in {"sent", "destroy"} THEN 1 ELSE 0)
              - (IF barRequests[s].phase \in {"sent", "destroy"} THEN 1 ELSE 0)
  BY <1>2
<1>4. /\ barRequests' \in [Ids -> BarSlots]
      /\ barRequestsCount' = Cardinality(BarSent') /\ barRequests'[s] = r
  BY <1>1, <1>2, <1>3, BarSlotBecomes
<1>5. held => Bar!Modal'
  BY <1>2, <1>4 DEF Bar!Modal
<1>. QED  BY <1>1, <1>4, <1>5, BarCheck

\* A fetch of a state of the same total, or of none.
LEMMA BarFetch ==
    ASSUME BarInv, NEW st \in BarStates, st.total = barState.total \/ st.total = Null,
           NEW before \in BarStates \cup {Bar!Idle}, Bar!Fetch(st, before),
           "counter" \notin overtaken' => "counter" \notin overtaken
    PROVE  BarMain'
<1>. BarTypeOK
  BY DEF BarInv
<1>1. PICK s \in Ids, held \in BOOLEAN :
        /\ barRequests[s] = Bar!Idle
        /\ Bar!Called(s, held, st, before)
        /\ IF held THEN UNCHANGED <<bars, barRequestsCount, uncovered>>
                   ELSE Bar!BeforeRequest(bars, barState')
  BY DEF Bar!Fetch
<1>2. barRequests[s].phase = "idle" /\ barAjax' = barAjax
  BY <1>1 DEF Bar!Idle, Bar!Fetch
<1>3. barRequestsCount \in Nat
  BY BarCounts
<1>4. /\ barRequests' \in [Ids -> BarSlots] /\ barRequestsCount' = Cardinality(BarSent')
      /\ barState' \in BarStates /\ barState'.total = st.total
      /\ held => Bar!Modal'
  <2>1. barRequestsCount' = barRequestsCount
              + (IF held THEN 0 ELSE 1)
              - (IF barRequests[s].phase \in {"sent", "destroy"} THEN 1 ELSE 0)
    BY <1>1, <1>2, <1>3 DEF Bar!BeforeRequest
  <2>. QED  BY <1>1, <2>1, BarCalled
<1>5. /\ bars' \in [Placements -> BarBars] /\ uncovered' \in BOOLEAN /\ barAjax' \in Nat
      /\ \A p \in Placements : AreEnabled(bars'[p], BarOn')
      /\ ~held => \A p \in Placements : IsTold(bars'[p], BarOn', barState')
      /\ \A p \in Placements : bars'[p].counter = bars[p].counter
  <2>1. CASE held
    <3>1. UNCHANGED <<bars, barRequestsCount, uncovered>>
      BY <1>1, <2>1
    <3>2. BarOn' <=> BarOn
      BY <1>2, <3>1 DEF BarOn
    <3>. QED  BY <1>2, <2>1, <3>1, <3>2 DEF BarInv, BarTypeOK, AreEnabled
  <2>2. CASE ~held
    <3>1. Bar!ShowLoading(bars, barState') /\ barRequestsCount' = barRequestsCount + 1
      BY <1>1, <2>2 DEF Bar!BeforeRequest
    <3>2. barRequestsCount' # 0
      BY <1>3, <3>1
    <3>3. bars \in [Placements -> BarBars] /\ barAjax \in Nat
      BY DEF BarTypeOK
    <3>. QED  BY <1>2, <1>4, <3>1, <3>2, <3>3, BarsShown
  <2>. QED  BY <2>1, <2>2
<1>6. "counter" \notin overtaken' /\ barState'.total # Null =>
         \A p \in Placements : bars'[p].counter = barState'.total
  BY <1>4, <1>5 DEF BarInv
<1>. QED  BY <1>4, <1>5, <1>6 DEF BarMain

BarMenu ==
    /\ open \in Placements \cup {Null}
    /\ links \in [Placements -> Queries \cup {Null}]
    /\ Bar!LinksAreCurrent

LEMMA BarParts ==
    ASSUME BarMain', BarMenu'
    PROVE  BarInv'
BY DEF BarInv, BarTypeOK, BarMain, BarMenu

LEMMA MenuElsewhere ==
    ASSUME BarInv, open' = Null, links' = links
    PROVE  BarMenu'
BY DEF BarInv, BarTypeOK, BarMenu, Bar!LinksAreCurrent

LEMMA MenuKept ==
    ASSUME BarInv, UNCHANGED <<open, links>>,
           "menu" \notin overtaken' => "menu" \notin overtaken /\ barState'.query = barState.query
    PROVE  BarMenu'
BY DEF BarInv, BarTypeOK, BarMenu, Bar!LinksAreCurrent

LEMMA BarExecute ==
    ASSUME BarInv, NEW action, Bar!Execute(action),
           "counter" \notin overtaken' => "counter" \notin overtaken
    PROVE  BarMain'
<1>1. barState \in BarStates /\ Bar!Idle \in BarStates \cup {Bar!Idle}
  BY DEF BarInv, BarTypeOK
<1>2. CASE action = "refresh"
  <2>1. Bar!Fetch(barState, Bar!Idle)
    BY <1>2 DEF Bar!Execute
  <2>. QED  BY <1>1, <2>1, BarFetch
<1>3. CASE action # "refresh"
  <2>. DEFINE st == [page |-> 1, query |-> InitialQuery, total |-> Null]
  <2>1. st \in BarStates /\ st.total = Null
    BY PagingAssumption DEF BarStates, Bar!ToolbarAssumption
  <2>2. Bar!Fetch(st, Bar!Idle)
    BY <1>3 DEF Bar!Execute
  <2>. HIDE DEF st
  <2>. QED  BY <1>1, <2>1, <2>2, BarFetch
<1>. QED  BY <1>2, <1>3

\* What the user does on the page closes the menu.
LEMMA BarElsewhere ==
    ASSUME BarInv, NEW st \in BarStates, st.total = barState.total,
           NEW before \in BarStates \cup {Bar!Idle},
           Bar!Fetch(st, before), Bar!Elsewhere
    PROVE  BarInv'
<1>1. BarMenu' /\ overtaken' = overtaken
  BY MenuElsewhere DEF Bar!Elsewhere
<1>2. "counter" \notin overtaken' => "counter" \notin overtaken
  BY <1>1
<1>3. BarMain'
  BY <1>2, BarFetch
<1>. QED  BY <1>1, <1>3, BarParts

LEMMA BarFilter ==
    ASSUME BarInv, NEW q \in Queries, Bar!Filter(q)
    PROVE  BarInv'
<1>0. barState \in BarStates /\ Bar!Idle \in BarStates \cup {Bar!Idle}
  BY DEF BarInv, BarTypeOK
<1>. DEFINE u == [barState EXCEPT !.query = q]
            st == [u EXCEPT !.page = 1]
<1>1. u \in BarStates /\ u.total = barState.total
  BY <1>0 DEF BarStates
<1>2. st = [barState EXCEPT !.query = q, !.page = 1]
  OBVIOUS
<1>. HIDE DEF u
<1>3. st \in BarStates /\ st.total = barState.total
  <2>1. u.page \in Nat /\ u.query \in Queries /\ u.total \in Nat \cup {Null} /\ 1 \in Nat
    BY <1>1 DEF BarStates
  <2>2. st = [page |-> 1, query |-> u.query, total |-> u.total]
    BY <1>1 DEF BarStates
  <2>. HIDE DEF st
  <2>. QED  BY <1>1, <2>1, <2>2 DEF BarStates
<1>. HIDE DEF st
<1>4. Bar!Fetch(st, Bar!Idle) /\ Bar!Elsewhere
  BY <1>2, Zenon DEF Bar!Filter
<1>. QED  BY <1>0, <1>3, <1>4, BarElsewhere

LEMMA BarUser ==
    ASSUME BarInv, NEW p \in Placements,
           \/ \E n \in 1 .. MaxShown : Bar!GetPage(p, n)
           \/ \E n \in 0 .. MaxShown \cup {1} : Bar!TypePage(p, n)
           \/ \E q \in Queries : Bar!SetPageSize(p, q)
           \/ \E action \in Bar!Actions : Bar!Press(p, action)
    PROVE  BarInv'
<1>0. MaxShown \in Nat /\ barState \in BarStates /\ Bar!Idle \in BarStates \cup {Bar!Idle}
  BY PagingAssumption DEF BarInv, BarTypeOK, Bar!ToolbarAssumption
<1>2. ASSUME NEW n \in Nat, Bar!Fetch([barState EXCEPT !.page = n], Bar!Idle),
             Bar!Elsewhere
      PROVE  BarInv'
  <2>. DEFINE st == [barState EXCEPT !.page = n]
  <2>1. st \in BarStates /\ st.total = barState.total
    BY <1>0 DEF BarStates
  <2>2. Bar!Fetch(st, Bar!Idle)
    BY <1>2
  <2>. HIDE DEF st
  <2>. QED  BY <1>0, <1>2, <2>1, <2>2, BarElsewhere
<1>3. ASSUME NEW n \in 1 .. MaxShown, Bar!GetPage(p, n) PROVE BarInv'
  BY <1>0, <1>2, <1>3 DEF Bar!GetPage
<1>4. ASSUME NEW n \in 0 .. MaxShown \cup {1}, Bar!TypePage(p, n) PROVE BarInv'
  BY <1>0, <1>2, <1>4 DEF Bar!TypePage
<1>5. ASSUME NEW q \in Queries, Bar!SetPageSize(p, q) PROVE BarInv'
  <2>. DEFINE u == [barState EXCEPT !.query = q]
              st == Bar!Check(u)
  <2>1. u \in BarStates /\ u.total = barState.total
    BY <1>0 DEF BarStates
  <2>. HIDE DEF u
  <2>2. st \in BarStates /\ st.total = barState.total
    BY <2>1, BarCheck
  <2>3. Bar!Fetch(st, barState) /\ Bar!Elsewhere
    BY <1>5 DEF Bar!SetPageSize, u
  <2>. HIDE DEF st
  <2>. QED  BY <1>0, <2>2, <2>3, BarElsewhere
<1>7. ASSUME NEW action \in Bar!Actions, Bar!Press(p, action) PROVE BarInv'
  <2>1. Bar!Execute(action) /\ BarMenu' /\ overtaken' = overtaken
    BY <1>7, MenuElsewhere DEF Bar!Press, Bar!Elsewhere
  <2>2. "counter" \notin overtaken' => "counter" \notin overtaken
    BY <2>1
  <2>3. BarMain'
    BY <2>1, <2>2, BarExecute
  <2>. QED  BY <2>1, <2>3, BarParts
<1>. QED  BY <1>3, <1>4, <1>5, <1>7

LEMMA BarMediated ==
    ASSUME BarInv, NEW action, Bar!Mediated(action)
    PROVE  BarInv'
<1>. DEFINE more == {m \in {"menu"} : barState'.query # barState.query}
<1>1. Bar!Execute(action) /\ overtaken' = overtaken \cup more /\ UNCHANGED <<open, links>>
  BY DEF Bar!Mediated
<1>2. "counter" \notin overtaken' => "counter" \notin overtaken
  BY <1>1
<1>3. BarMain'
  BY <1>1, <1>2, BarExecute
<1>4. "menu" \notin overtaken' => "menu" \notin overtaken /\ barState'.query = barState.query
  BY <1>1
<1>5. BarMenu'
  BY <1>1, <1>4, MenuKept
<1>. QED  BY <1>3, <1>5, BarParts

\* Some other request or ajax action ends or begins: the bars are told with state'.
LEMMA BarTold ==
    ASSUME BarTypeOK, barState' \in BarStates, barRequests' \in [Ids -> BarSlots],
           barRequestsCount' = Cardinality(BarSent'), barAjax' \in Nat,
           bars' \in [Placements -> BarBars], uncovered' \in BOOLEAN,
           \A p \in Placements : AreEnabled(bars'[p], BarOn'),
           ~Bar!Modal' /\ "bars" \notin overtaken' =>
              \A p \in Placements : IsTold(bars'[p], BarOn', barState'),
           "counter" \notin overtaken' /\ barState'.total # Null =>
              \A p \in Placements : bars'[p].counter = barState'.total,
           BarMenu'
    PROVE  BarInv'
<1>1. BarMain'
  BY DEF BarMain
<1>. QED  BY <1>1, BarParts

LEMMA BarConfirm ==
    ASSUME BarInv, NEW s \in Ids, Bar!Confirm(s)
    PROVE  BarInv'
<1>. BarTypeOK
  BY DEF BarInv
<1>. DEFINE r == [barRequests[s] EXCEPT !.phase = "sent"]
<1>1. /\ barRequests[s].phase = "held" /\ barState' = Bar!Check(barState)
      /\ barRequests' = [barRequests EXCEPT ![s] = r]
      /\ barRequestsCount' = barRequestsCount + 1
      /\ Bar!ShowLoading(bars, barState')
      /\ Bar!Elsewhere /\ barAjax' = barAjax
  BY DEF Bar!Confirm, Bar!BeforeRequest
<1>2. r \in BarSlots /\ r.phase = "sent"
  <2>1. barRequests[s] \in [phase : {"held", "sent", "destroy"}, before : BarStates \cup {Bar!Idle}]
    BY <1>1 DEF BarTypeOK, BarSlots, Bar!Idle
  <2>. QED  BY <2>1 DEF BarSlots
<1>3. barState' \in BarStates /\ barState'.total = barState.total
  BY <1>1, BarCheck DEF BarTypeOK
<1>. HIDE DEF r
<1>4. barRequestsCount \in Nat
  BY BarCounts
<1>5. /\ barRequests' \in [Ids -> BarSlots] /\ barRequestsCount' = Cardinality(BarSent')
  <2>1. barRequestsCount' = barRequestsCount
            + (IF r.phase \in {"sent", "destroy"} THEN 1 ELSE 0)
            - (IF barRequests[s].phase \in {"sent", "destroy"} THEN 1 ELSE 0)
    BY <1>1, <1>2, <1>4
  <2>. QED  BY <1>1, <1>2, <2>1, BarSlotBecomes
<1>6. /\ bars' \in [Placements -> BarBars] /\ uncovered' \in BOOLEAN
      /\ \A p \in Placements : AreEnabled(bars'[p], BarOn')
      /\ \A p \in Placements : IsTold(bars'[p], BarOn', barState')
      /\ \A p \in Placements : bars'[p].counter = bars[p].counter
  <2>1. bars \in [Placements -> BarBars]
    BY DEF BarTypeOK
  <2>2. barRequestsCount' # 0
    BY <1>1, <1>4
  <2>. QED  BY <1>1, <1>3, <2>1, <2>2, BarsShown
<1>7. BarMenu' /\ overtaken' = overtaken
  BY <1>1, MenuElsewhere DEF Bar!Elsewhere
<1>. QED  BY <1>1, <1>3, <1>5, <1>6, <1>7, BarTold DEF BarInv, BarTypeOK

LEMMA BarReverts ==
    ASSUME BarTypeOK, NEW s \in Ids, barRequests[s].phase # "idle"
    PROVE  Bar!Reverted(barRequests[s]) \in BarStates
<1>1. barState \in BarStates /\ barRequests[s] \in BarSlots /\ barRequests[s] # Bar!Idle
  BY DEF BarTypeOK, Bar!Idle
<1>2. barRequests[s].before \in BarStates \cup {Bar!Idle}
  BY <1>1 DEF BarSlots
<1>. QED  BY <1>1, <1>2, BarCheck DEF Bar!Reverted

\* A request is done with.
LEMMA BarFinished ==
    ASSUME BarTypeOK, NEW s \in Ids, Bar!Finished(s),
           barRequestsCount' = IF barRequests[s].phase \in {"sent", "destroy"}
                               THEN barRequestsCount - 1 ELSE barRequestsCount
    PROVE  /\ barRequests' \in [Ids -> BarSlots]
           /\ barRequestsCount' = Cardinality(BarSent')
           /\ \A t \in Ids : barRequests'[t].phase = "held" => barRequests[t].phase = "held"
<1>1. Bar!Idle \in BarSlots /\ Bar!Idle.phase = "idle" /\ barRequestsCount \in Nat
  BY BarCounts DEF BarSlots, Bar!Idle
<1>2. /\ barRequests' \in [Ids -> BarSlots] /\ barRequestsCount' = Cardinality(BarSent')
      /\ barRequests'[s] = Bar!Idle
      /\ \A t \in Ids \ {s} : barRequests'[t] = barRequests[t]
  <2>1. barRequests' = [barRequests EXCEPT ![s] = Bar!Idle]
    BY DEF Bar!Finished
  <2>2. barRequestsCount' = barRequestsCount
            + (IF Bar!Idle.phase \in {"sent", "destroy"} THEN 1 ELSE 0)
            - (IF barRequests[s].phase \in {"sent", "destroy"} THEN 1 ELSE 0)
    BY <1>1
  <2>. QED  BY <1>1, <2>1, <2>2, BarSlotBecomes
<1>. QED  BY <1>1, <1>2

LEMMA BarRefuse ==
    ASSUME BarInv, NEW s \in Ids, Bar!Refuse(s)
    PROVE  BarInv'
<1>. BarTypeOK
  BY DEF BarInv
<1>1. /\ barRequests[s].phase = "held" /\ barState' = Bar!Reverted(barRequests[s])
      /\ Bar!Finished(s) /\ overtaken' = overtaken \cup {"bars", "counter"}
      /\ open' = Null /\ UNCHANGED <<bars, barRequestsCount, barAjax, links, uncovered>>
  BY DEF Bar!Refuse
<1>2. barRequestsCount' = IF barRequests[s].phase \in {"sent", "destroy"}
                          THEN barRequestsCount - 1 ELSE barRequestsCount
  BY <1>1
<1>3. barRequests' \in [Ids -> BarSlots] /\ barRequestsCount' = Cardinality(BarSent')
  BY <1>1, <1>2, BarFinished
<1>4. barState' \in BarStates
  BY <1>1, BarReverts
<1>5. \A p \in Placements : AreEnabled(bars'[p], BarOn')
  BY <1>1 DEF BarInv, BarOn, AreEnabled
<1>6. BarMenu'
  BY <1>1, MenuElsewhere
<1>. QED  BY <1>1, <1>3, <1>4, <1>5, <1>6, BarTold DEF BarTypeOK

\* The collection's events, and whether the bars are told of the total.
LEMMA BarsRendered ==
    ASSUME BarInv, NEW st \in BarStates
    PROVE  LET bs == Bar!Rendered(bars, st)
           IN  /\ bs \in [Placements -> BarBars]
               /\ \A p \in Placements : AreEnabled(bs[p], BarOn)
               /\ \A p \in Placements : IsTold(bs[p], BarOn, st)
               /\ \A p \in Placements : st.total # Null => bs[p].counter = st.total
<1>1. bars \in [Placements -> BarBars] /\ \A p \in Placements : AreEnabled(bars[p], BarOn)
  BY DEF BarInv, BarTypeOK
<1>2. BarOn \in BOOLEAN
  BY DEF BarOn, BarInv, BarTypeOK
<1>. QED  BY <1>1, <1>2, ToolbarsRendered

LEMMA BarAnswer ==
    ASSUME BarInv, NEW s \in Ids, NEW n \in Nat, Bar!Answer(s, n)
    PROVE  BarInv'
<1>. BarTypeOK
  BY DEF BarInv
<1>. DEFINE st == [barState EXCEPT !.total = n]
            bs == Bar!Rendered(bars, barState')
<1>1. /\ barRequests[s].phase = "sent" /\ barState' = Bar!Check(st)
      /\ Bar!Finished(s) /\ overtaken' = overtaken \cap {"menu"}
      /\ Bar!AfterRequest(bs, barState')
      /\ UNCHANGED <<open, links, barAjax>>
  BY DEF Bar!Answer
<1>2. st \in BarStates /\ st.total = n /\ st.query = barState.query
  BY DEF BarStates, BarTypeOK
<1>. HIDE DEF st
<1>3. barState' \in BarStates /\ barState'.total = n /\ barState'.query = barState.query
  BY <1>1, <1>2, BarCheck
<1>4. barRequestsCount \in Nat /\ barRequestsCount >= 1
  BY <1>1, BarCounts DEF BarSent
<1>5. barRequests' \in [Ids -> BarSlots] /\ barRequestsCount' = Cardinality(BarSent')
  <2>1. barRequestsCount' = IF barRequests[s].phase \in {"sent", "destroy"}
                            THEN barRequestsCount - 1 ELSE barRequestsCount
    BY <1>1 DEF Bar!AfterRequest
  <2>. QED  BY <1>1, <2>1, BarFinished
<1>6. /\ bs \in [Placements -> BarBars]
      /\ \A p \in Placements : AreEnabled(bs[p], BarOn)
      /\ \A p \in Placements : IsTold(bs[p], BarOn, barState')
      /\ \A p \in Placements : barState'.total # Null => bs[p].counter = barState'.total
  BY <1>3, BarsRendered
<1>. HIDE DEF bs
<1>7. /\ bars' \in [Placements -> BarBars] /\ uncovered' \in BOOLEAN
      /\ \A p \in Placements : AreEnabled(bars'[p], BarOn')
      /\ \A p \in Placements : IsTold(bars'[p], BarOn', barState')
      /\ \A p \in Placements : bars'[p].counter = bs[p].counter
  BY <1>1, <1>3, <1>4, <1>6, BarsAfter
<1>8. "menu" \notin overtaken' => "menu" \notin overtaken /\ barState'.query = barState.query
  BY <1>1, <1>3
<1>9. BarMenu'
  BY <1>1, <1>8, MenuKept
<1>. QED  BY <1>1, <1>3, <1>5, <1>6, <1>7, <1>9, BarTold DEF BarTypeOK

LEMMA BarRowDestroyed ==
    ASSUME BarInv, NEW s \in Ids, NEW held \in BOOLEAN, Bar!RowDestroyed(s, held)
    PROVE  BarInv'
<1>. BarTypeOK
  BY DEF BarInv
<1>. DEFINE st == IF barState.total \in {Null, 0} THEN barState ELSE [barState EXCEPT !.total = @ - 1]
            bs == Bar!Rendered(bars, st)
<1>1. /\ barRequests[s].phase = "destroy" /\ Bar!Called(s, held, st, Bar!Idle)
      /\ IF held THEN Bar!AfterRequest(bs, st)
         ELSE Bar!ShowLoading(bs, barState') /\ UNCHANGED barRequestsCount
      /\ UNCHANGED <<open, links, overtaken, barAjax>>
  BY DEF Bar!RowDestroyed
<1>2. st \in BarStates /\ st.query = barState.query
  BY DEF BarStates, BarTypeOK
<1>. HIDE DEF st
<1>3. barRequestsCount \in Nat /\ barRequestsCount >= 1
  BY <1>1, BarCounts DEF BarSent
<1>4. /\ barRequests' \in [Ids -> BarSlots] /\ barRequestsCount' = Cardinality(BarSent')
      /\ barState' \in BarStates
      /\ barState'.total = st.total /\ barState'.query = st.query
      /\ held => Bar!Modal'
  <2>1. barRequestsCount' = barRequestsCount
              + (IF held THEN 0 ELSE 1)
              - (IF barRequests[s].phase \in {"sent", "destroy"} THEN 1 ELSE 0)
    BY <1>1, <1>3 DEF Bar!AfterRequest
  <2>. QED  BY <1>1, <1>2, <2>1, BarCalled
<1>5. /\ bs \in [Placements -> BarBars]
      /\ \A p \in Placements : AreEnabled(bs[p], BarOn)
      /\ \A p \in Placements : IsTold(bs[p], BarOn, st)
      /\ \A p \in Placements : st.total # Null => bs[p].counter = st.total
  BY <1>2, BarsRendered
<1>. HIDE DEF bs
<1>6. /\ bars' \in [Placements -> BarBars] /\ uncovered' \in BOOLEAN
      /\ \A p \in Placements : AreEnabled(bars'[p], BarOn')
      /\ ~held => \A p \in Placements : IsTold(bars'[p], BarOn', barState')
      /\ \A p \in Placements : bars'[p].counter = bs[p].counter
  <2>1. CASE held
    BY <1>1, <1>2, <1>3, <1>5, <2>1, BarsAfter
  <2>2. CASE ~held
    <3>1. barRequestsCount' # 0 /\ Bar!ShowLoading(bs, barState')
      BY <1>1, <1>3, <2>2
    <3>. QED  BY <1>4, <1>5, <3>1, BarsShown
  <2>. QED  BY <2>1, <2>2
<1>7. "menu" \notin overtaken' => "menu" \notin overtaken /\ barState'.query = barState.query
  BY <1>1, <1>2, <1>4
<1>8. BarMenu'
  BY <1>1, <1>7, MenuKept
<1>. QED  BY <1>1, <1>4, <1>5, <1>6, <1>8, BarTold DEF BarTypeOK

LEMMA BarFail ==
    ASSUME BarInv, NEW s \in Ids, Bar!Fail(s)
    PROVE  BarInv'
<1>. BarTypeOK
  BY DEF BarInv
<1>. DEFINE menu == {m \in {"menu"} : barState'.query # barState.query}
            told == {b \in {"bars", "counter"} : barState' # barState}
            now == {b \in {"bars"} : barRequestsCount = 1}
<1>1. /\ barRequests[s].phase \in {"sent", "destroy"} /\ barState' = Bar!Reverted(barRequests[s])
      /\ Bar!Finished(s) /\ overtaken' = (overtaken \cup menu \cup told) \ now
      /\ Bar!AfterRequest(bars, barState')
      /\ UNCHANGED <<open, links, barAjax>>
  BY DEF Bar!Fail
<1>2. barState' \in BarStates
  BY <1>1, BarReverts
<1>3. barRequestsCount \in Nat /\ barRequestsCount >= 1
  BY <1>1, BarCounts DEF BarSent
<1>4. /\ barRequests' \in [Ids -> BarSlots] /\ barRequestsCount' = Cardinality(BarSent')
  <2>1. barRequestsCount' = IF barRequests[s].phase \in {"sent", "destroy"}
                            THEN barRequestsCount - 1 ELSE barRequestsCount
    BY <1>1 DEF Bar!AfterRequest
  <2>. QED  BY <1>1, <2>1, BarFinished
<1>5. Bar!Modal => Bar!Modal'
  BY <1>1 DEF Bar!Modal, Bar!Finished, BarTypeOK
<1>6. /\ bars' \in [Placements -> BarBars] /\ uncovered' \in BOOLEAN
      /\ \A p \in Placements : AreEnabled(bars'[p], BarOn')
      /\ \A p \in Placements : bars'[p].counter = bars[p].counter
      /\ barRequestsCount = 1 \/ (\A p \in Placements : IsTold(bars[p], BarOn, barState'))
           => \A p \in Placements : IsTold(bars'[p], BarOn', barState')
  <2>1. bars \in [Placements -> BarBars] /\ \A p \in Placements : AreEnabled(bars[p], BarOn)
    BY DEF BarInv, BarTypeOK
  <2>. QED  BY <1>1, <1>2, <1>3, <2>1, BarsAfter
<1>7. ~Bar!Modal' /\ "bars" \notin overtaken' =>
            \A p \in Placements : IsTold(bars'[p], BarOn', barState')
  <2>. SUFFICES ASSUME ~Bar!Modal', "bars" \notin overtaken', barRequestsCount # 1
                PROVE  \A p \in Placements : IsTold(bars[p], BarOn, barState')
    BY <1>6
  <2>1. barState' = barState /\ "bars" \notin overtaken
    BY <1>1
  <2>. QED  BY <1>5, <2>1 DEF BarInv
<1>8. "counter" \notin overtaken' /\ barState'.total # Null =>
         \A p \in Placements : bars'[p].counter = barState'.total
  <2>. SUFFICES ASSUME "counter" \notin overtaken', barState'.total # Null
                PROVE  \A p \in Placements : bars'[p].counter = barState'.total
    OBVIOUS
  <2>1. barState' = barState /\ "counter" \notin overtaken
    BY <1>1
  <2>2. \A p \in Placements : bars[p].counter = barState.total
    BY <2>1 DEF BarInv
  <2>. QED  BY <1>6, <2>1, <2>2
<1>9. "menu" \notin overtaken' => "menu" \notin overtaken /\ barState'.query = barState.query
  BY <1>1
<1>10. BarMenu'
  BY <1>1, <1>9, MenuKept
<1>. QED  BY <1>1, <1>2, <1>4, <1>6, <1>7, <1>8, <1>10, BarTold DEF BarTypeOK

LEMMA BarDestroyRow ==
    ASSUME BarInv, NEW s \in Ids, Bar!DestroyRow(s)
    PROVE  BarInv'
<1>. BarTypeOK
  BY DEF BarInv
<1>. DEFINE r == [phase |-> "destroy", before |-> Bar!Idle]
<1>1. /\ barRequests[s] = Bar!Idle /\ barRequests' = [barRequests EXCEPT ![s] = r]
      /\ barRequestsCount' = barRequestsCount + 1 /\ Bar!ShowLoading(bars, barState)
      /\ Bar!Elsewhere /\ UNCHANGED <<barState, barAjax>>
  BY DEF Bar!DestroyRow, Bar!BeforeRequest
<1>2. r \in BarSlots /\ r.phase = "destroy" /\ barRequests[s].phase = "idle"
  BY <1>1 DEF BarSlots, Bar!Idle
<1>. HIDE DEF r
<1>3. barRequestsCount \in Nat
  BY BarCounts
<1>4. barRequests' \in [Ids -> BarSlots] /\ barRequestsCount' = Cardinality(BarSent')
  <2>1. barRequestsCount' = barRequestsCount
            + (IF r.phase \in {"sent", "destroy"} THEN 1 ELSE 0)
            - (IF barRequests[s].phase \in {"sent", "destroy"} THEN 1 ELSE 0)
    BY <1>1, <1>2, <1>3
  <2>. QED  BY <1>1, <1>2, <2>1, BarSlotBecomes
<1>5. /\ bars' \in [Placements -> BarBars] /\ uncovered' \in BOOLEAN
      /\ \A p \in Placements : AreEnabled(bars'[p], BarOn')
      /\ \A p \in Placements : IsTold(bars'[p], BarOn', barState)
      /\ \A p \in Placements : bars'[p].counter = bars[p].counter
  <2>1. bars \in [Placements -> BarBars] /\ barState \in BarStates /\ barRequestsCount' # 0
    BY <1>1, <1>3 DEF BarTypeOK
  <2>. QED  BY <1>1, <2>1, BarsShown
<1>6. BarMenu' /\ overtaken' = overtaken
  BY <1>1, MenuElsewhere DEF Bar!Elsewhere
<1>. QED  BY <1>1, <1>4, <1>5, <1>6, BarTold DEF BarInv, BarTypeOK

LEMMA BarAjaxAction ==
    ASSUME BarInv, Bar!StartAjaxAction \/ Bar!AjaxActionFails
    PROVE  BarInv'
<1>. BarTypeOK
  BY DEF BarInv
<1>1. UNCHANGED <<barState, barRequests, barRequestsCount>>
  BY DEF Bar!StartAjaxAction, Bar!AjaxActionFails
<1>2. barState \in BarStates /\ bars \in [Placements -> BarBars] /\ barAjax \in Nat
      /\ barRequestsCount \in Nat
  BY BarCounts DEF BarTypeOK
<1>3. /\ bars' \in [Placements -> BarBars] /\ uncovered' \in BOOLEAN /\ barAjax' \in Nat
      /\ \A p \in Placements : AreEnabled(bars'[p], BarOn')
      /\ \A p \in Placements : IsTold(bars'[p], BarOn', barState)
      /\ \A p \in Placements : bars'[p].counter = bars[p].counter
  <2>1. CASE Bar!StartAjaxAction
    <3>1. Bar!ShowLoading(bars, barState) /\ barAjax' = barAjax + 1
      BY <2>1 DEF Bar!StartAjaxAction
    <3>2. barAjax' \in Nat /\ barAjax' # 0
      BY <1>2, <3>1
    <3>. QED  BY <1>2, <3>1, <3>2, BarsShown
  <2>2. CASE Bar!AjaxActionFails
    <3>1. Bar!HideLoading(bars, barState) /\ barAjax > 0 /\ barAjax' = barAjax - 1
      BY <2>2 DEF Bar!AjaxActionFails
    <3>2. barAjax' \in Nat /\ barRequestsCount' \in Nat
      BY <1>1, <1>2, <3>1
    <3>. QED  BY <1>2, <3>1, <3>2, BarsHidden
  <2>. QED  BY <2>1, <2>2
<1>4. BarMenu' /\ ("counter" \notin overtaken' => "counter" \notin overtaken)
  <2>1. CASE Bar!StartAjaxAction
    BY <2>1, MenuElsewhere DEF Bar!StartAjaxAction, Bar!Elsewhere
  <2>2. CASE Bar!AjaxActionFails
    <3>1. UNCHANGED <<open, links>> /\ overtaken' = overtaken \ {"bars"}
      BY <2>2 DEF Bar!AjaxActionFails
    <3>. QED  BY <1>1, <3>1, MenuKept
  <2>. QED  BY <2>1, <2>2
<1>5. BarSent' = BarSent
  BY <1>1 DEF BarSent
<1>6. "counter" \notin overtaken' /\ barState'.total # Null =>
         \A p \in Placements : bars'[p].counter = barState'.total
  BY <1>1, <1>3, <1>4 DEF BarInv
<1>. QED  BY <1>1, <1>3, <1>4, <1>5, <1>6, BarTold DEF BarTypeOK

LEMMA BarAjaxSucceeds ==
    ASSUME BarInv, NEW s \in Ids, NEW held \in BOOLEAN, Bar!AjaxActionSucceeds(s, held)
    PROVE  BarInv'
<1>. BarTypeOK
  BY DEF BarInv
<1>. DEFINE bs == Bar!CallToolbar(bars, TRUE, barState)
<1>1. /\ barAjax > 0 /\ barAjax' = barAjax - 1 /\ barRequests[s] = Bar!Idle
      /\ Bar!Called(s, held, barState, Bar!Idle)
      /\ IF held THEN UNCHANGED barRequestsCount /\ Bar!HideLoading(bars, barState)
         ELSE Bar!BeforeRequest(bs, barState')
      /\ overtaken' = overtaken \ {"bars"} /\ UNCHANGED <<open, links>>
  BY DEF Bar!AjaxActionSucceeds
<1>2. /\ barState \in BarStates /\ bars \in [Placements -> BarBars]
      /\ barAjax' \in Nat /\ barRequestsCount \in Nat /\ barRequests[s].phase = "idle"
  BY <1>1, BarCounts DEF BarTypeOK, Bar!Idle
<1>3. /\ barRequests' \in [Ids -> BarSlots] /\ barRequestsCount' = Cardinality(BarSent')
      /\ barState' \in BarStates
      /\ barState'.total = barState.total /\ barState'.query = barState.query
      /\ held => Bar!Modal'
  <2>1. barRequestsCount' = barRequestsCount
              + (IF held THEN 0 ELSE 1)
              - (IF barRequests[s].phase \in {"sent", "destroy"} THEN 1 ELSE 0)
    <3>1. barRequestsCount' = IF held THEN barRequestsCount ELSE barRequestsCount + 1
      <4>. HIDE DEF bs
      <4>. QED  BY <1>1, Zenon DEF Bar!BeforeRequest
    <3>2. ~(barRequests[s].phase \in {"sent", "destroy"}) /\ barRequestsCount \in Nat
      BY <1>2
    <3>. QED  BY ONLY held \in BOOLEAN, <3>1, <3>2
  <2>2. BarTypeOK /\ Bar!Called(s, held, barState, Bar!Idle)
    BY <1>1
  <2>3. barState \in BarStates /\ Bar!Idle \in BarStates \cup {Bar!Idle}
    BY <1>2
  <2>. HIDE DEF bs
  <2>. QED  BY ONLY s \in Ids, held \in BOOLEAN, <2>1, <2>2, <2>3, BarCalled
<1>4. /\ bs \in [Placements -> BarBars]
      /\ \A p \in Placements : bs[p].counter = bars[p].counter
  BY <1>2, ToolbarsCalled
<1>. HIDE DEF bs
<1>5. /\ bars' \in [Placements -> BarBars] /\ uncovered' \in BOOLEAN
      /\ \A p \in Placements : AreEnabled(bars'[p], BarOn')
      /\ ~held => \A p \in Placements : IsTold(bars'[p], BarOn', barState')
      /\ \A p \in Placements : bars'[p].counter = bars[p].counter
  <2>1. CASE held
    <3>1. Bar!HideLoading(bars, barState) /\ barRequestsCount' \in Nat
      BY <1>1, <1>2, <2>1
    <3>. QED  BY <1>2, <2>1, <3>1, BarsHidden
  <2>2. CASE ~held
    <3>1. Bar!ShowLoading(bs, barState') /\ barRequestsCount' = barRequestsCount + 1
      BY <1>1, <2>2 DEF Bar!BeforeRequest
    <3>2. barRequestsCount' # 0
      BY <1>2, <3>1
    <3>. QED  BY <1>3, <1>4, <3>1, <3>2, BarsShown
  <2>. QED  BY <2>1, <2>2
<1>6. "counter" \notin overtaken' /\ barState'.total # Null =>
         \A p \in Placements : bars'[p].counter = barState'.total
  BY <1>1, <1>3, <1>5 DEF BarInv
<1>7. BarMenu'
  <2>1. "menu" \notin overtaken' => "menu" \notin overtaken /\ barState'.query = barState.query
    BY <1>1, <1>3
  <2>. QED  BY <1>1, <2>1, MenuKept
<1>. QED  BY <1>2, <1>3, <1>5, <1>6, <1>7, BarTold

LEMMA BarExpand ==
    ASSUME BarInv, NEW p \in Placements, Bar!Expand(p)
    PROVE  BarInv'
<1>1. /\ open' = p /\ links' = [links EXCEPT ![p] = Bar!FetchData(barState)]
      /\ overtaken' = overtaken \ {"menu"}
      /\ UNCHANGED <<barState, bars, barRequests, barRequestsCount, barAjax, uncovered>>
  BY DEF Bar!Expand
<1>2. Bar!FetchData(barState) = barState.query /\ barState.query \in Queries
  BY BarCheck DEF Bar!FetchData, BarInv, BarTypeOK, BarStates
<1>3. BarMenu'
  BY <1>1, <1>2 DEF BarMenu, Bar!LinksAreCurrent, BarInv, BarTypeOK
<1>4. BarMain'
  <2>1. /\ "bars" \notin overtaken' <=> "bars" \notin overtaken
        /\ "counter" \notin overtaken' <=> "counter" \notin overtaken
    BY <1>1
  <2>2. Bar!Modal' <=> Bar!Modal
    BY <1>1 DEF Bar!Modal
  <2>. QED  BY <1>1, <2>1, <2>2 DEF BarMain, BarInv, BarTypeOK, BarSent, BarOn
<1>. QED  BY <1>3, <1>4, BarParts

LEMMA BarClose ==
    ASSUME BarInv, Bar!Close
    PROVE  BarInv'
<1>1. /\ open' = Null
      /\ UNCHANGED <<links, overtaken, barState, bars, barRequests, barRequestsCount,
                     barAjax, uncovered>>
  BY DEF Bar!Close, Bar!Elsewhere
<1>2. BarMain'
  BY <1>1 DEF BarMain, BarInv, BarTypeOK, BarSent, BarOn, Bar!Modal
<1>3. BarMenu'
  BY <1>1, MenuElsewhere
<1>. QED  BY <1>2, <1>3, BarParts

LEMMA BarInit == Bar!Init => BarInv
<1>. SUFFICES ASSUME Bar!Init PROVE BarInv
  OBVIOUS
<1>1. PICK q \in Queries, n \in 0 .. MaxShown :
         barState = Bar!Check([page |-> 1, query |-> q, total |-> n])
  BY DEF Bar!Init
<1>2. MaxShown \in Nat /\ Null \notin Nat
  BY PagingAssumption DEF Bar!ToolbarAssumption
<1>. DEFINE st == [page |-> 1, query |-> q, total |-> n]
<1>3. st \in BarStates /\ st.total = n
  BY <1>2 DEF BarStates
<1>. HIDE DEF st
<1>4. barState \in BarStates /\ barState.total \in Nat
  <2>1. barState = Bar!Check(st)
    BY <1>1 DEF st
  <2>. QED  BY <1>2, <1>3, <2>1, BarCheck
<1>5. /\ bars = [p \in Placements |-> Bar!Created(barState)]
      /\ barRequests = [s \in Ids |-> Bar!Idle] /\ barRequestsCount = 0
      /\ open = Null /\ links = [p \in Placements |-> Null] /\ overtaken = {}
      /\ barAjax = 0 /\ uncovered = FALSE
  BY DEF Bar!Init
<1>6. BarSent = {} /\ Cardinality(BarSent) = 0
  BY <1>5, FS_EmptySet DEF BarSent, Bar!Idle
<1>. DEFINE bar == Bar!Created(barState)
<1>7. /\ bar \in BarBars /\ bar.counter = barState.total
      /\ AreEnabled(bar, BarOn) /\ IsTold(bar, BarOn, barState)
  <2>1. /\ bar = [pager     |-> [enabled |-> TRUE, page |-> barState.page, total |-> barState.total,
                                 on |-> barState.total # 0],
                  size      |-> [enabled |-> TRUE, query |-> barState.query, on |-> barState.total # 0],
                  launchers |-> [a \in Bar!Actions |-> [enabled |-> TRUE]],
                  counter   |-> barState.total]
    BY DEF Bar!Created, Bar!Launchers
  <2>2. /\ bar.pager \in BarPagers /\ bar.size \in BarSizes /\ bar.counter = barState.total
        /\ bar.launchers \in [Bar!Actions -> [enabled : BOOLEAN]]
    BY <1>4, <2>1 DEF BarPagers, BarSizes, BarStates
  <2>3. bar \in BarBars
    BY <1>4, <2>1, <2>2 DEF BarBars
  <2>4. AreEnabled(bar, BarOn)
    BY <1>5, <2>1 DEF AreEnabled, BarOn
  <2>5. IsTold(bar, BarOn, barState)
    <3>1. /\ bar.pager.on <=> barState.total # 0
          /\ bar.pager.page = barState.page /\ bar.pager.total = barState.total
          /\ bar.size.on <=> barState.total # 0
          /\ bar.size.query = barState.query
      <4>. HIDE DEF bar
      <4>1. /\ bar.pager.on = (barState.total # 0) /\ bar.size.on = (barState.total # 0)
            /\ bar.pager.page = barState.page /\ bar.pager.total = barState.total
            /\ bar.size.query = barState.query
        BY <2>1
      <4>. QED  BY <4>1, Zenon
    <3>2. barState.total # Null
      BY <1>2, <1>4
    <3>. HIDE DEF bar
    <3>. QED  BY <1>5, <3>1, <3>2 DEF IsTold, PagerShows, SizeShows, BarOn
  <2>. QED  BY <2>2, <2>3, <2>4, <2>5
<1>. HIDE DEF bar
<1>8. bars \in [Placements -> BarBars] /\ \A p \in Placements : bars[p] = bar
  BY <1>5, <1>7 DEF bar
<1>9. BarTypeOK
  BY <1>4, <1>5, <1>6, <1>8 DEF BarTypeOK, BarSlots
<1>10. Bar!LinksAreCurrent
  BY <1>5 DEF Bar!LinksAreCurrent
<1>. QED  BY <1>7, <1>8, <1>9, <1>10 DEF BarInv

LEMMA BarStep == BarInv /\ Bar!Next => BarInv'
<1>. SUFFICES ASSUME BarInv, Bar!Next PROVE BarInv'
  OBVIOUS
<1>1. CASE \E p \in Placements :
              \/ \E n \in 1 .. MaxShown : Bar!GetPage(p, n)
              \/ \E n \in 0 .. MaxShown \cup {1} : Bar!TypePage(p, n)
              \/ \E q \in Queries : Bar!SetPageSize(p, q)
              \/ \E action \in Bar!Actions : Bar!Press(p, action)
  BY <1>1, BarUser
<1>2. CASE \E p \in Placements : Bar!Expand(p)
  BY <1>2, BarExpand
<1>3. CASE \E q \in Queries : Bar!Filter(q)
  BY <1>3, BarFilter
<1>4. CASE \E action \in Bar!Actions : Bar!Mediated(action)
  BY <1>4, BarMediated
<1>5. CASE Bar!StartAjaxAction \/ Bar!AjaxActionFails
  BY <1>5, BarAjaxAction
<1>6. CASE Bar!Close
  BY <1>6, BarClose
<1>7. CASE \E s \in Ids : Bar!Confirm(s)
  BY <1>7, BarConfirm
<1>8. CASE \E s \in Ids : Bar!Refuse(s)
  BY <1>8, BarRefuse
<1>9. CASE \E s \in Ids : Bar!Fail(s)
  BY <1>9, BarFail
<1>10. CASE \E s \in Ids, n \in 0 .. MaxShown : Bar!Answer(s, n)
  <2>1. 0 .. MaxShown \subseteq Nat
    BY PagingAssumption DEF Bar!ToolbarAssumption
  <2>. QED  BY <1>10, <2>1, BarAnswer
<1>11. CASE \E s \in Ids : Bar!DestroyRow(s)
  BY <1>11, BarDestroyRow
<1>12. CASE \E s \in Ids, held \in BOOLEAN : Bar!RowDestroyed(s, held)
  BY <1>12, BarRowDestroyed
<1>13. CASE \E s \in Ids, held \in BOOLEAN : Bar!AjaxActionSucceeds(s, held)
  BY <1>13, BarAjaxSucceeds
<1>. QED
  BY <1>1, <1>2, <1>3, <1>4, <1>5, <1>6, <1>7, <1>8, <1>9, <1>10, <1>11, <1>12, <1>13, Zenon
  DEF Bar!Next, Bar!Pages

LEMMA BarInvariance == MCSpec => []BarInv
<1>1. MCInit => BarInv
  BY BarInit DEF MCInit
<1>2. BarInv /\ [MCNext]_<<part, vars, answer, barVars>> => BarInv'
  <2>. SUFFICES ASSUME BarInv, [MCNext]_<<part, vars, answer, barVars>> PROVE BarInv'
    OBVIOUS
  <2>1. CASE UNCHANGED barVars
    BY <2>1 DEF barVars, BarInv, BarTypeOK, BarSent, BarOn, Bar!Modal, Bar!LinksAreCurrent
  <2>2. CASE Bar!Next
    BY <2>2, BarStep
  <2>. QED  BY <2>1, <2>2 DEF MCNext
<1>. QED  BY <1>1, <1>2, PTL DEF MCSpec

\* Every toolbar can be used exactly when no request and no ajax action is under way,
\* or one of them has hidden the mask of the others; and it shows page, query and
\* total of the collection's state, when nothing is held back or was refused.
THEOREM ToolbarsCorrect == MCSpec => []ToolbarsFollow
<1>1. BarInv => ToolbarsFollow
  <2>. SUFFICES ASSUME BarInv, NEW p \in Placements
                PROVE  LET bar == bars[p]
                           told(part1) == ~Bar!Modal /\ part1 \notin overtaken /\ barState.total # Null
                           enabled == (barRequestsCount = 0 /\ barAjax = 0) \/ uncovered
                       IN  /\ \A a \in Bar!Actions : bar.launchers[a].enabled = enabled
                           /\ ~enabled => ~bar.size.on
                           /\ told("bars") => bar.pager.on = (enabled /\ barState.total # 0)
                           /\ told("bars") /\ enabled =>
                                 /\ bar.size.on = (barState.total # 0)
                                 /\ bar.size.query = barState.query
                                 /\ bar.pager.page = barState.page
                                 /\ bar.pager.total = barState.total
                           /\ told("counter") /\ enabled => bar.counter = barState.total
    BY DEF ToolbarsFollow, Bar!ToolbarsFollow
  <2>. DEFINE bar == bars[p]
  <2>1. bar \in BarBars /\ AreEnabled(bar, BarOn)
    BY DEF BarInv, BarTypeOK
  <2>2. /\ bar.pager.on \in BOOLEAN /\ bar.size.on \in BOOLEAN
        /\ \A a \in Bar!Actions : bar.launchers[a].enabled \in BOOLEAN
    BY <2>1 DEF BarBars, BarPagers, BarSizes
  <2>3. ~Bar!Modal /\ "bars" \notin overtaken => IsTold(bar, BarOn, barState)
    BY DEF BarInv
  <2>4. "counter" \notin overtaken /\ barState.total # Null => bar.counter = barState.total
    BY DEF BarInv
  <2>. HIDE DEF bar
  <2>. QED
    BY <2>1, <2>2, <2>3, <2>4 DEF AreEnabled, IsTold, PagerShows, SizeShows, BarOn, bar
<1>. QED  BY <1>1, BarInvariance, PTL

\* The links of an open menu export what the grid asks for, whatever was filtered,
\* sorted, reset or taken back since the menu was first opened.
THEOREM LinksCorrect == MCSpec => []LinksAreCurrent
<1>1. BarInv => LinksAreCurrent
  BY DEF BarInv, LinksAreCurrent
<1>. QED  BY <1>1, BarInvariance, PTL

=============================================================================

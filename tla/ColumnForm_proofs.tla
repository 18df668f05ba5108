------------------------- MODULE ColumnForm_proofs -------------------------
(***************************************************************************)
(* ColumnForm for any pages and any rows held by the entity, and           *)
(* EditableCells for any pages, columns, values and number of requests:    *)
(* what the form submits is what the rows show.                            *)
(*                                                                         *)
(* For the checkboxes it needs the rows that the fields already name when  *)
(* the form is shown to be on the grid's first page.  The inductive        *)
(* invariant says that the listener's guesses are right: a row it has a    *)
(* value for had that value in the database, and a row that is in a list   *)
(* is one it has a value for.                                              *)
(*                                                                         *)
(* For the cells it says what the last answer or failure can rely on       *)
(* before all requests are done: cells without a change show what was      *)
(* read, unless a request is still to come for which the changes were      *)
(* dropped.                                                                *)
(***************************************************************************)
EXTENDS MCColumnForm, TLAPS

\* What was last sent, and what the fields and parameters hold.
Synchronized ==
    /\ fields = [in |-> included, notIn |-> excluded]
    /\ params = fields
    /\ request.busy => request.in = included /\ request.notIn = excluded /\ ~asking

\* original has values that were true of the database.
GuessesRight ==
    /\ original.yes \subseteq assigned
    /\ original.no \cap assigned = {}
    /\ included \subseteq original.no
    /\ excluded \subseteq original.yes

Clearing == request.busy /\ request.cleared

Cleared == included = {} /\ excluded = {} /\ original = [yes |-> {}, no |-> {}]

Shown == active = page \cap Value(included, excluded)

IInv ==
    /\ TypeOK
    /\ Synchronized
    /\ ~lost => GuessesRight
    /\ Clearing => Cleared
    /\ ~lost /\ ~Clearing => Shown

USE DEF Records

LEMMA InitIInv == Restorable \subseteq FirstPage /\ Init => IInv
<1>. SUFFICES ASSUME Restorable \subseteq FirstPage, Init PROVE IInv
  OBVIOUS
<1>1. page = FirstPage /\ FirstPage \in Pages /\ Restorable \subseteq page
  BY ColumnFormAssumption DEF Init
<1>2. TypeOK
  BY <1>1 DEF Init, TypeOK, Lists, Value
<1>3. Synchronized /\ ~Clearing
  BY DEF Init, Synchronized, NoRequest, Clearing
<1>4. GuessesRight
  BY <1>1 DEF Init, GuessesRight
<1>. QED  BY <1>2, <1>3, <1>4 DEF Init, IInv, Shown

\* With right guesses, the lists a tick leaves name exactly the changes.
LEMMA ToggleLists ==
    ASSUME TypeOK, GuessesRight, Shown, NEW id \in page, NEW isActive \in BOOLEAN,
           isActive <=> id \notin active
    PROVE  /\ Value(Included(id, isActive), Excluded(id, isActive))
                = IF isActive THEN Value(included, excluded) \cup {id}
                              ELSE Value(included, excluded) \ {id}
           /\ Noted(id, isActive).yes \subseteq assigned
           /\ Noted(id, isActive).no \cap assigned = {}
           /\ Included(id, isActive) \subseteq Noted(id, isActive).no
           /\ Excluded(id, isActive) \subseteq Noted(id, isActive).yes
<1>1. isActive <=> id \notin Value(included, excluded)
  BY DEF Shown
<1>2. WasActive(id, isActive) <=> id \in assigned
  BY <1>1 DEF WasActive, GuessesRight, Value
<1>3. /\ Noted(id, isActive).yes = IF id \in assigned THEN original.yes \cup {id} ELSE original.yes
      /\ Noted(id, isActive).no = IF id \in assigned THEN original.no ELSE original.no \cup {id}
  BY <1>2 DEF Noted, TypeOK
<1>4. Included(id, isActive) = IF ~isActive THEN included \ {id}
                               ELSE IF id \in assigned THEN included ELSE included \cup {id}
  BY <1>2 DEF Included
<1>5. Excluded(id, isActive) = IF isActive THEN excluded \ {id}
                               ELSE IF id \notin assigned THEN excluded ELSE excluded \cup {id}
  BY <1>2 DEF Excluded
<1>6. included \cap assigned = {} /\ excluded \subseteq assigned
  BY DEF GuessesRight
<1>. QED  BY <1>1, <1>3, <1>4, <1>5, <1>6 DEF Value, GuessesRight

LEMMA ToggleType ==
    ASSUME TypeOK, NEW id \in page, NEW isActive \in BOOLEAN
    PROVE  /\ Included(id, isActive) \subseteq Records
           /\ Excluded(id, isActive) \subseteq Records
           /\ Noted(id, isActive) \in [yes : SUBSET Records, no : SUBSET Records]
BY DEF TypeOK, Included, Excluded, Noted

LEMMA NextIInv == IInv /\ [Next]_vars => IInv'
<1>. SUFFICES ASSUME IInv, [Next]_vars PROVE IInv'
  OBVIOUS
<1>. TypeOK /\ Synchronized
  BY DEF IInv
<1>1. ASSUME NEW id \in Records, Toggle(id) PROVE IInv'
  <2>. DEFINE isActive == id \notin active
  <2>1. /\ id \in page /\ ~request.busy /\ isActive \in BOOLEAN
        /\ active' = IF isActive THEN active \cup {id} ELSE active \ {id}
        /\ included' = Included(id, isActive) /\ excluded' = Excluded(id, isActive)
        /\ original' = Noted(id, isActive) /\ Synchronize(included', excluded')
        /\ UNCHANGED <<assigned, page, request, asking, lost>>
    BY <1>1 DEF Toggle, Free
  <2>2. TypeOK'
    BY <2>1, ToggleType DEF TypeOK, Synchronize, Lists
  <2>3. Synchronized' /\ ~Clearing'
    BY <2>1 DEF Synchronized, Synchronize, Clearing
  <2>4. ASSUME ~lost PROVE GuessesRight' /\ Shown'
    <3>1. GuessesRight /\ Shown
      BY <2>1, <2>4 DEF IInv, Clearing
    <3>2. GuessesRight'
      BY <2>1, <3>1, ToggleLists DEF GuessesRight
    <3>3. Value(included, excluded)' = IF isActive THEN Value(included, excluded) \cup {id}
                                                   ELSE Value(included, excluded) \ {id}
      BY <2>1, <3>1, ToggleLists DEF Value
    <3>. QED  BY <2>1, <3>1, <3>2, <3>3 DEF Shown
  <2>. QED  BY <2>1, <2>2, <2>3, <2>4 DEF IInv
<1>2. ASSUME NEW p \in Pages, Free, Fetch(p, params.in, params.notIn, FALSE),
             UNCHANGED <<assigned, page, active, included, excluded, original, fields,
                         params, asking, lost>>
      PROVE  IInv'
  <2>1. /\ request' = [busy |-> TRUE, page |-> p, in |-> params.in, notIn |-> params.notIn,
                       cleared |-> FALSE]
        /\ ~request.busy /\ ~asking
    BY <1>2 DEF Fetch, Free
  <2>2. TypeOK'
    BY <1>2, <2>1 DEF TypeOK, Requests, Lists
  <2>3. Synchronized' /\ ~Clearing' /\ ~Clearing
    BY <1>2, <2>1 DEF Synchronized, Clearing
  <2>. QED  BY <1>2, <2>2, <2>3 DEF IInv, GuessesRight, Shown, Value
<1>3. ASSUME NEW p \in Pages, Load(p) PROVE IInv'
  BY <1>2, <1>3 DEF Load
<1>4. ASSUME NEW p \in Pages, Button(p) PROVE IInv'
  <2>1. CASE HasChanges
    <3>1. /\ asking' = TRUE /\ ~request.busy
          /\ UNCHANGED <<assigned, page, active, included, excluded, original, fields,
                         params, request, lost>>
      BY <1>4, <2>1 DEF Button, Free
    <3>. QED
      BY <3>1 DEF IInv, TypeOK, Synchronized, GuessesRight, Clearing, Cleared, Shown, Value
  <2>2. CASE ~HasChanges
    BY <1>2, <1>4, <2>2 DEF Button
  <2>. QED  BY <2>1, <2>2
<1>5. ASSUME NEW p \in Pages, Confirm(p) PROVE IInv'
  <2>1. /\ asking' = FALSE /\ included' = {} /\ excluded' = {}
        /\ original' = [yes |-> {}, no |-> {}]
        /\ fields' = [in |-> {}, notIn |-> {}] /\ params' = fields'
        /\ request' = [busy |-> TRUE, page |-> p, in |-> {}, notIn |-> {}, cleared |-> TRUE]
        /\ UNCHANGED <<assigned, page, active, lost>>
    BY <1>5 DEF Confirm, ClearState, Synchronize, Fetch
  <2>2. TypeOK'
    BY <2>1 DEF TypeOK, Requests, Lists
  <2>3. Synchronized' /\ Clearing' /\ Cleared' /\ GuessesRight'
    BY <2>1 DEF Synchronized, Clearing, Cleared, GuessesRight
  <2>. QED  BY <2>2, <2>3 DEF IInv
<1>6. CASE Decline
  BY <1>6 DEF Decline, IInv, TypeOK, Synchronized, GuessesRight, Clearing, Cleared, Shown, Value
<1>7. CASE Answer
  <2>1. /\ request.busy /\ request' = NoRequest /\ page' = request.page
        /\ active' = request.page \cap Value(request.in, request.notIn)
        /\ lost' = (lost /\ ~request.cleared)
        /\ UNCHANGED <<assigned, included, excluded, original, fields, params, asking>>
    BY <1>7 DEF Answer
  <2>2. request \in Requests
    BY <2>1 DEF TypeOK, NoRequest
  <2>3. TypeOK'
    BY <2>1, <2>2 DEF TypeOK, Requests
  <2>4. Synchronized' /\ ~Clearing'
    BY <2>1 DEF Synchronized, NoRequest, Clearing
  <2>5. Shown'
    BY <2>1 DEF Shown, Synchronized, Value
  <2>6. ASSUME ~lost' PROVE GuessesRight'
    <3>1. ~lost \/ Clearing
      BY <2>1, <2>2, <2>6 DEF Clearing, Requests
    <3>2. GuessesRight
      BY <3>1 DEF IInv, Cleared, GuessesRight
    <3>. QED  BY <2>1, <3>2 DEF GuessesRight
  <2>. QED  BY <2>3, <2>4, <2>5, <2>6 DEF IInv
<1>8. CASE Fail
  <2>1. /\ request.busy /\ request' = NoRequest /\ lost' = (lost \/ request.cleared)
        /\ UNCHANGED <<assigned, page, active, included, excluded, original, fields, params,
                       asking>>
    BY <1>8 DEF Fail
  <2>2. request \in Requests
    BY <2>1 DEF TypeOK, NoRequest
  <2>3. TypeOK'
    BY <2>1, <2>2 DEF TypeOK, Requests
  <2>4. Synchronized' /\ ~Clearing'
    BY <2>1 DEF Synchronized, NoRequest, Clearing
  <2>5. ASSUME ~lost' PROVE GuessesRight' /\ Shown'
    <3>1. ~lost /\ ~Clearing
      BY <2>1, <2>2, <2>5 DEF Clearing, Requests
    <3>2. GuessesRight /\ Shown
      BY <3>1 DEF IInv
    <3>. QED  BY <2>1, <3>2 DEF GuessesRight, Shown, Value
  <2>. QED  BY <2>3, <2>4, <2>5 DEF IInv
<1>9. CASE UNCHANGED vars
  BY <1>9 DEF vars, IInv, TypeOK, Synchronized, GuessesRight, Clearing, Cleared, Shown, Value
<1>. QED  BY <1>1, <1>3, <1>4, <1>5, <1>6, <1>7, <1>8, <1>9 DEF Next

THEOREM Invariance == Restorable \subseteq FirstPage => (Spec => []IInv)
<1>. SUFFICES ASSUME Restorable \subseteq FirstPage PROVE Spec => []IInv
  OBVIOUS
<1>. QED  BY InitIInv, NextIInv, PTL DEF Spec

\* The hidden fields, added to and taken from what the entity holds, give the
\* rows as they are shown, whichever pages the user has been to.
THEOREM FormCorrect == Restorable \subseteq FirstPage => (Spec => []SubmittedIsShown)
<1>. SUFFICES ASSUME Restorable \subseteq FirstPage PROVE Spec => []SubmittedIsShown
  OBVIOUS
<1>1. IInv => SubmittedIsShown
  BY DEF IInv, Synchronized, Shown, Clearing, SubmittedIsShown, Outcome
<1>. QED  BY <1>1, Invariance, PTL

\* Refresh and reset ask for confirmation exactly when changes would be lost.
THEOREM AsksCorrectly == Restorable \subseteq FirstPage => (Spec => []AsksWhenSomethingIsLost)
<1>. SUFFICES ASSUME Restorable \subseteq FirstPage PROVE Spec => []AsksWhenSomethingIsLost
  OBVIOUS
<1>1. ASSUME IInv PROVE AsksWhenSomethingIsLost
  <2>1. SUFFICES ASSUME ~lost PROVE HasChanges <=> Outcome # assigned
    BY DEF AsksWhenSomethingIsLost
  <2>2. included \cap assigned = {} /\ excluded \subseteq assigned
    BY <1>1, <2>1 DEF IInv, GuessesRight
  <2>3. Outcome = (assigned \cup included) \ excluded
    BY <1>1 DEF IInv, Synchronized, Outcome, Value
  <2>. QED  BY <2>2, <2>3 DEF HasChanges
<1>. QED  BY <1>1, Invariance, PTL

-----------------------------------------------------------------------------
(* No step loses a change, wherever the rows of a restored form are. *)

FieldsFollow == fields = [in |-> included, notIn |-> excluded]

\* A tick touches the row's own entries in the two lists.
LEMMA ToggleTouchesOne ==
    ASSUME NEW id, NEW isActive \in BOOLEAN
    PROVE  LET after == (assigned \cup Included(id, isActive)) \ Excluded(id, isActive)
           IN  \/ after = Value(included, excluded) \cup {id}
               \/ after = Value(included, excluded) \ {id}
<1>1. Included(id, isActive) \in {included, included \cup {id}, included \ {id}}
  BY DEF Included
<1>2. Excluded(id, isActive) \in {excluded, excluded \cup {id}, excluded \ {id}}
  BY DEF Excluded
<1>. QED  BY <1>1, <1>2 DEF Value

LEMMA NextFieldsFollow == FieldsFollow /\ [Next]_vars => FieldsFollow'
<1>. USE DEF FieldsFollow
<1>1. ASSUME FieldsFollow, NEW id \in Records, Toggle(id) PROVE FieldsFollow'
  BY <1>1 DEF Toggle, Synchronize
<1>2. ASSUME FieldsFollow, NEW p \in Pages, Load(p) \/ Button(p) \/ Confirm(p)
      PROVE  FieldsFollow'
  BY <1>2 DEF Load, Button, Confirm, ClearState, Synchronize, Fetch
<1>3. FieldsFollow /\ (Decline \/ Answer \/ Fail \/ UNCHANGED vars) => FieldsFollow'
  BY DEF Decline, Answer, Fail, vars
<1>. QED  BY <1>1, <1>2, <1>3 DEF Next

\* Paging, failures and refused confirmations leave what will be submitted; a
\* tick changes its row's share alone; only a confirmation drops the changes.
\* This holds from every state in which the fields follow the lists, the ones
\* after a lost fetch included.
THEOREM ChangesKept == Spec => ChangesSurvive
<1>. DEFINE Kept ==
       \/ Outcome' = Outcome
       \/ \E id \in page : Outcome' \in {Outcome \cup {id}, Outcome \ {id}}
       \/ asking /\ ~asking' /\ Outcome' = assigned
<1>1. Init => FieldsFollow
  BY DEF Init, FieldsFollow
<1>2. FieldsFollow /\ [Next]_vars => [Kept]_vars
  <2>. SUFFICES ASSUME FieldsFollow, Next PROVE Kept
    OBVIOUS
  <2>1. Outcome = Value(included, excluded)
    BY DEF FieldsFollow, Outcome
  <2>2. ASSUME NEW id \in Records, Toggle(id) PROVE Kept
    <3>1. PICK isActive \in BOOLEAN :
             fields' = [in |-> Included(id, isActive), notIn |-> Excluded(id, isActive)]
      BY <2>2 DEF Toggle, Synchronize
    <3>2. Outcome' = (assigned \cup Included(id, isActive)) \ Excluded(id, isActive)
      BY <2>2, <3>1 DEF Toggle, Outcome, Value
    <3>3. Outcome' \in {Outcome \cup {id}, Outcome \ {id}} /\ id \in page
      BY <2>1, <2>2, <3>2, ToggleTouchesOne DEF Toggle
    <3>. QED  BY <3>3
  <2>3. ASSUME NEW p \in Pages, Load(p) \/ Button(p) PROVE Kept
    BY <2>3 DEF Load, Button, Fetch, Outcome, Value
  <2>4. ASSUME NEW p \in Pages, Confirm(p) PROVE Kept
    BY <2>4 DEF Confirm, ClearState, Synchronize, Outcome, Value
  <2>5. Decline \/ Answer \/ Fail => Kept
    BY DEF Decline, Answer, Fail, Outcome, Value
  <2>. QED  BY <2>2, <2>3, <2>4, <2>5 DEF Next
<1>. QED  BY <1>1, <1>2, NextFieldsFollow, PTL DEF Spec, ChangesSurvive

-----------------------------------------------------------------------------
(* Cells edited in place. *)

OnPage == formPage \X Columns

\* What the cells without a change show, while nothing is dropped.
UnchangedAsRead ==
    ~dropped /\ (\A r \in requests : ~r.cleared) =>
        \A cell \in OnPage : field[cell] = Editable!NoChange => shown[cell] = read[cell]

\* What the cells with a change show, once the changes are put back.
ChangedAsEntered ==
    requests = {} =>
        \A cell \in OnPage : field[cell] # Editable!NoChange => shown[cell] = field[cell]

CellTypes ==
    /\ stored \in [Editable!Cells -> Values]
    /\ shown \in [Editable!Cells -> Values]
    /\ formPage \in CellPages
    /\ changeset \in Editable!Changesets
    /\ \A r \in requests : r.page \in CellPages /\ r.cleared \in BOOLEAN
    /\ asked \in BOOLEAN /\ dropped \in BOOLEAN

CellInv ==
    /\ CellTypes
    /\ changeset = field
    /\ asked => requests = {}
    /\ UnchangedAsRead
    /\ ChangedAsEntered

LEMMA CellsOfPage ==
    ASSUME NEW p \in CellPages
    PROVE  \A cell \in p \X Columns : cell \in Editable!Cells /\ cell[1] \in p
BY DEF Editable!Cells, Editable!Records

\* The rows of a page after the changes are put into them.
LEMMA OverlayOnPage ==
    ASSUME NEW p \in CellPages, NEW values, NEW changes, NEW cell \in p \X Columns
    PROVE  Editable!Overlay(values, p, changes)[cell]
             = IF changes[cell] # Editable!NoChange THEN changes[cell] ELSE values[cell]
BY CellsOfPage DEF Editable!Overlay

LEMMA OverlayType ==
    ASSUME NEW p, NEW values \in [Editable!Cells -> Values],
           NEW changes \in Editable!Changesets
    PROVE  Editable!Overlay(values, p, changes) \in [Editable!Cells -> Values]
BY DEF Editable!Overlay, Editable!Changesets

LEMMA FetchTypes ==
    ASSUME CellTypes, NEW p \in CellPages, NEW cleared \in BOOLEAN, Editable!Fetch(p, cleared)
    PROVE  /\ \A r \in requests' : r.page \in CellPages /\ r.cleared \in BOOLEAN
           /\ requests' # {}
           /\ cleared => ~\A r \in requests' : ~r.cleared
           /\ (\A r \in requests' : ~r.cleared) => \A r \in requests : ~r.cleared
<1>1. \E n : requests' = requests \cup {[page |-> p, cleared |-> cleared, n |-> n]}
  BY DEF Editable!Fetch
<1>2. PICK new : new.page = p /\ new.cleared = cleared /\ requests' = requests \cup {new}
  BY <1>1
<1>. QED  BY <1>2 DEF CellTypes

LEMMA InitCellInv == Editable!Init => CellInv
<1>. SUFFICES ASSUME Editable!Init PROVE CellInv
  OBVIOUS
<1>1. /\ stored \in [Editable!Cells -> Values] /\ formPage \in CellPages
      /\ field \in Editable!Changesets /\ changeset = field /\ read = stored
      /\ shown = Editable!Overlay(stored, formPage, field)
      /\ requests = {} /\ asked = FALSE /\ dropped = FALSE
  BY DEF Editable!Init
<1>2. CellTypes
  BY <1>1, OverlayType DEF CellTypes
<1>3. UnchangedAsRead /\ ChangedAsEntered
  BY <1>1, OverlayOnPage DEF UnchangedAsRead, ChangedAsEntered, OnPage
<1>. QED  BY <1>1, <1>2, <1>3 DEF CellInv

\* Putting the changes back, over values of which the unchanged ones are right.
LEMMA RestoreCells ==
    ASSUME CellInv, formPage' \in CellPages,
           NEW values \in [Editable!Cells -> Values],
           Editable!RestoreState(values, formPage'), requests' \subseteq requests,
           ~dropped' /\ (\A r \in requests' : ~r.cleared) =>
              \A cell \in OnPage' : field[cell] = Editable!NoChange => values[cell] = read'[cell],
           UNCHANGED <<stored, asked>>, dropped' \in BOOLEAN
    PROVE  CellInv'
<1>1. /\ changeset' = field /\ field' = field
      /\ shown' = Editable!Overlay(values, formPage', field)
  BY DEF Editable!RestoreState
<1>2. CellTypes'
  BY <1>1, OverlayType DEF CellInv, CellTypes
<1>3. \A cell \in OnPage' :
        shown'[cell] = IF field[cell] # Editable!NoChange THEN field[cell] ELSE values[cell]
  BY <1>1, OverlayOnPage DEF OnPage
<1>4. UnchangedAsRead' /\ ChangedAsEntered'
  BY <1>1, <1>3 DEF UnchangedAsRead, ChangedAsEntered
<1>5. asked' => requests' = {}
  BY DEF CellInv
<1>. QED  BY <1>1, <1>2, <1>4, <1>5 DEF CellInv

LEMMA NextCellInv == CellInv /\ [Editable!Next]_(Editable!vars) => CellInv'
<1>. SUFFICES ASSUME CellInv, [Editable!Next]_(Editable!vars) PROVE CellInv'
  OBVIOUS
<1>. CellTypes
  BY DEF CellInv
<1>1. ASSUME NEW cell \in Editable!Cells, NEW value \in Values, Editable!Edit(cell, value)
      PROVE  CellInv'
  <2>1. /\ requests = {} /\ ~asked
        /\ shown' = [shown EXCEPT ![cell] = value]
        /\ changeset' = [changeset EXCEPT ![cell] = value] /\ field' = changeset'
        /\ UNCHANGED <<stored, formPage, read, requests, asked, dropped>>
    BY <1>1 DEF Editable!Edit, Editable!Free, Editable!ProcessValue
  <2>2. CellTypes'
    BY <2>1 DEF CellTypes, Editable!Changesets
  <2>3. value # Editable!NoChange
    BY EditableAssumption DEF Editable!EditableCellsAssumption
  <2>4. \A i \in OnPage :
          /\ shown'[i] = IF i = cell THEN value ELSE shown[i]
          /\ field'[i] = IF i = cell THEN value ELSE field[i]
    BY <2>1, CellsOfPage DEF CellInv, CellTypes, Editable!Changesets, OnPage
  <2>5. UnchangedAsRead'
    BY <2>1, <2>3, <2>4 DEF CellInv, UnchangedAsRead, OnPage
  <2>6. ChangedAsEntered'
    BY <2>1, <2>3, <2>4 DEF CellInv, ChangedAsEntered, OnPage
  <2>. QED  BY <2>1, <2>2, <2>5, <2>6 DEF CellInv
<1>2. ASSUME NEW cell \in Editable!Cells, NEW value \in Values,
             Editable!OthersStore(cell, value)
      PROVE  CellInv'
  BY <1>2 DEF Editable!OthersStore, CellInv, CellTypes, UnchangedAsRead, ChangedAsEntered, OnPage
<1>3. ASSUME NEW p \in CellPages, Editable!Fetch(p, FALSE), ~asked,
             UNCHANGED <<stored, formPage, shown, read, changeset, field, asked, dropped>>
      PROVE  CellInv'
  <2>1. CellTypes'
    BY <1>3, FetchTypes DEF CellTypes
  <2>2. UnchangedAsRead' /\ ChangedAsEntered'
    BY <1>3, FetchTypes DEF CellInv, UnchangedAsRead, ChangedAsEntered, OnPage
  <2>. QED  BY <1>3, <2>1, <2>2 DEF CellInv
<1>4. ASSUME NEW p \in CellPages, Editable!Load(p) PROVE CellInv'
  BY <1>3, <1>4 DEF Editable!Load
<1>5. ASSUME NEW p \in CellPages, Editable!Button(p) PROVE CellInv'
  <2>1. CASE Editable!HasChanges
    BY <1>5, <2>1 DEF Editable!Button, Editable!Free, CellInv, CellTypes, UnchangedAsRead,
                      ChangedAsEntered, OnPage
  <2>2. CASE ~Editable!HasChanges
    BY <1>3, <1>5, <2>2 DEF Editable!Button, Editable!Free
  <2>. QED  BY <2>1, <2>2
<1>6. ASSUME NEW p \in CellPages, Editable!Confirm(p) PROVE CellInv'
  <2>1. /\ asked' = FALSE /\ changeset' = Editable!Empty /\ field' = Editable!Empty
        /\ Editable!Fetch(p, TRUE)
        /\ UNCHANGED <<stored, formPage, shown, read, dropped>>
    BY <1>6 DEF Editable!Confirm
  <2>2. Editable!Empty \in Editable!Changesets
    BY DEF Editable!Empty, Editable!Changesets
  <2>3. CellTypes'
    BY <2>1, <2>2, FetchTypes DEF CellTypes
  <2>4. UnchangedAsRead' /\ ChangedAsEntered'
    BY <2>1, FetchTypes DEF UnchangedAsRead, ChangedAsEntered
  <2>. QED  BY <2>1, <2>3, <2>4 DEF CellInv
<1>7. CASE Editable!Decline
  BY <1>7 DEF Editable!Decline, CellInv, CellTypes, UnchangedAsRead, ChangedAsEntered, OnPage
<1>8. ASSUME NEW r \in requests, Editable!Answer(r) PROVE CellInv'
  <2>1. /\ requests' = requests \ {r} /\ formPage' = r.page /\ read' = stored
        /\ dropped' = (dropped /\ ~r.cleared) /\ UNCHANGED <<stored, asked>>
        /\ dropped' \in BOOLEAN /\ formPage' \in CellPages
    BY <1>8 DEF Editable!Answer, CellTypes
  <2>2. CASE requests' = {}
    <3>1. Editable!RestoreState(stored, formPage')
      BY <1>8, <2>1, <2>2 DEF Editable!Answer
    <3>. QED  BY <2>1, <2>2, <3>1, RestoreCells DEF CellTypes
  <2>3. CASE requests' # {}
    <3>1. shown' = stored /\ UNCHANGED <<changeset, field>>
      BY <1>8, <2>3 DEF Editable!Answer
    <3>2. CellTypes'
      BY <2>1, <3>1 DEF CellTypes
    <3>. QED  BY <2>1, <2>3, <3>1, <3>2 DEF CellInv, UnchangedAsRead, ChangedAsEntered
  <2>. QED  BY <2>2, <2>3
<1>9. ASSUME NEW r \in requests, Editable!Fail(r) PROVE CellInv'
  <2>1. /\ requests' = requests \ {r} /\ dropped' = (dropped \/ r.cleared)
        /\ UNCHANGED <<stored, formPage, read, asked>>
        /\ dropped' \in BOOLEAN /\ formPage' \in CellPages
    BY <1>9 DEF Editable!Fail, CellTypes
  <2>2. ~dropped' /\ (\A q \in requests' : ~q.cleared) =>
          \A cell \in OnPage' : field[cell] = Editable!NoChange => shown[cell] = read'[cell]
    BY <2>1 DEF CellInv, UnchangedAsRead, OnPage
  <2>3. CASE requests' = {}
    <3>1. Editable!RestoreState(shown, formPage')
      BY <1>9, <2>1, <2>3 DEF Editable!Fail
    <3>. QED  BY <2>1, <2>2, <3>1, RestoreCells DEF CellTypes
  <2>4. CASE requests' # {}
    <3>1. UNCHANGED <<shown, changeset, field>>
      BY <1>9, <2>4 DEF Editable!Fail
    <3>2. CellTypes'
      BY <2>1, <3>1 DEF CellTypes
    <3>. QED  BY <2>1, <2>2, <2>4, <3>1, <3>2 DEF CellInv, UnchangedAsRead, ChangedAsEntered
  <2>. QED  BY <2>3, <2>4
<1>10. CASE Editable!OtherGridLoads
  <2>1. /\ Editable!RestoreState(shown, formPage')
        /\ UNCHANGED <<stored, formPage, read, requests, asked, dropped>>
    BY <1>10 DEF Editable!OtherGridLoads, Editable!RestoreState
  <2>. QED  BY <2>1, RestoreCells DEF CellInv, CellTypes, UnchangedAsRead, OnPage
<1>11. CASE UNCHANGED Editable!vars
  BY <1>11 DEF Editable!vars, CellInv, CellTypes, UnchangedAsRead, ChangedAsEntered, OnPage
<1>. QED  BY <1>1, <1>2, <1>4, <1>5, <1>6, <1>7, <1>8, <1>9, <1>10, <1>11 DEF Editable!Next

\* Once no request is in flight, the cells of the page show what the hidden
\* input will submit for them, and otherwise what the server last sent, for any
\* pages, columns, values and overlapping requests.
THEOREM CellsCorrect == Editable!Spec => []EditsAreSubmitted
<1>1. ASSUME CellInv PROVE EditsAreSubmitted
  BY <1>1, OverlayOnPage DEF CellInv, CellTypes, UnchangedAsRead, ChangedAsEntered, OnPage,
                             EditsAreSubmitted, Editable!EditsAreSubmitted
<1>. QED  BY <1>1, InitCellInv, NextCellInv, PTL DEF Editable!Spec

\* The two parts that MCColumnForm runs side by side are behaviours of their
\* own specifications, so the theorems above speak of what is run.
THEOREM PartsAreComponents == MCSpec => Spec /\ Editable!Spec
<1>1. MCInit => Init /\ Editable!Init
  BY DEF MCInit
<1>2. [MCNext]_<<part, vars, cellVars>> => [Next]_vars /\ [Editable!Next]_(Editable!vars)
  BY DEF MCNext, vars, cellVars, Editable!vars
<1>. QED  BY <1>1, <1>2, PTL DEF MCSpec, Spec, Editable!Spec

=============================================================================

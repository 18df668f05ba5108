------------------------- MODULE MassDelete_proofs -------------------------
(***************************************************************************)
(* Safety of MassDelete for any records, limits and number of requests:    *)
(* types, the search index, the ACL, that a run nobody disturbs             *)
(* deletes what was confirmed, page by page, and, where nobody refreshes   *)
(* the grid during a run, the match of answers and modes.                  *)
(***************************************************************************)
EXTENDS MassDelete, FiniteSetTheorems, TLAPS

Request ==
    [phase : Phases, kind : {"POST", "DELETE"}, sel : SelectionsOver(Records),
     promised : Nat, selected : Nat, count : Nat, restricted : BOOLEAN,
     limited : BOOLEAN, pages : Nat, rows : SUBSET Records,
     pending : SUBSET Records, deleted : SUBSET Records, grown : BOOLEAN]

ServerStepOf(s) ==
    \/ CountSelected(s) \/ CountDeletable(s) \/ CountPages(s)
    \/ LoadPage(s) \/ Remove(s) \/ Flush(s) \/ Announce(s) \/ Respond(s) \/ Die(s)

(***************************************************************************)
(* Types.                                                                  *)
(***************************************************************************)
LEMMA FreeType == Free \in Request
BY DEF Free, Request, Phases, Reset, SelectionsOver

LEMMA MatchingFinite ==
    ASSUME existing \subseteq Records, NEW r
    PROVE  /\ Matching(r) \subseteq Records
           /\ IsFiniteSet(Matching(r))
           /\ Cardinality(Matching(r)) \in Nat
           /\ IsFiniteSet(Matching(r) \cap Deletable)
           /\ Cardinality(Matching(r) \cap Deletable) \in Nat
<1>1. Matching(r) \subseteq Records /\ Matching(r) \cap Deletable \subseteq Records
  BY DEF Matching
<1>2. IsFiniteSet(Records)
  BY MassDeleteAssumption
<1>. QED  BY <1>1, <1>2, FS_Subset, FS_CardinalityType

LEMMA PagesType == \A n \in Nat : (n + BatchSize - 1) \div BatchSize \in Nat
<1>. SUFFICES ASSUME NEW n \in Nat, NEW b \in Nat \ {0} PROVE (n + b - 1) \div b \in Nat
  BY MassDeleteAssumption
<1>1. n + b - 1 \in Nat
  OBVIOUS
<1>. QED  BY <1>1, Z3

LEMMA SetType ==
    ASSUME requests \in [Slots -> Request], NEW s \in Slots, NEW r \in Request, Set(s, r)
    PROVE  requests' \in [Slots -> Request]
BY DEF Set

LEMMA SendType ==
    ASSUME requests \in [Slots -> Request], masked \in BOOLEAN,
           sel \in SelectionsOver(Records),
           NEW kind \in {"POST", "DELETE"}, NEW promised \in Nat, Send(kind, promised)
    PROVE  requests' \in [Slots -> Request] /\ masked' \in BOOLEAN
<1>1. PICK s \in Slots :
        Set(s, [Free EXCEPT !.phase = "sent", !.kind = kind, !.sel = sel,
                            !.promised = promised])
  BY DEF Send, Busy
<1>2. [Free EXCEPT !.phase = "sent", !.kind = kind, !.sel = sel, !.promised = promised]
        \in Request
  BY DEF Free, Request, Phases, Reset, SelectionsOver
<1>. QED  BY <1>1, <1>2, SetType DEF Send

LEMMA ClientStepType == TypeOK /\ ClientStep => TypeOK'
<1>. SUFFICES ASSUME TypeOK, ClientStep PROVE TypeOK'
  OBVIOUS
<1>1. requests \in [Slots -> Request]
  BY DEF TypeOK, Request
<1>2. ASSUME existing' \subseteq Records, index' \subseteq Records,
             sel' \in SelectionsOver(Records), requestType' \in {"POST", "DELETE"},
             dialog' \in Dialog, masked' \in BOOLEAN, fetching' \in Nat,
             requests' \in [Slots -> Request], quiet' \in BOOLEAN, orphans' \subseteq Records
      PROVE  TypeOK'
  BY <1>2 DEF TypeOK, Request
<1>3. Closed \in Dialog /\ Reset(TRUE) \in SelectionsOver(Records)
  BY DEF Closed, Dialog, Reset, SelectionsOver
<1>4. CASE Select
  BY <1>1, <1>2, <1>4 DEF Select, TypeOK, SelectionsOver
<1>5. CASE Execute
  <2>1. requests' \in [Slots -> Request] /\ masked' \in BOOLEAN
    BY <1>1, <1>5, SendType DEF Execute, TypeOK
  <2>. QED  BY <1>2, <1>3, <1>5, <2>1 DEF Execute, TypeOK
<1>6. CASE Confirm
  <2>1. requests' \in [Slots -> Request] /\ masked' \in BOOLEAN
    BY <1>1, <1>6, SendType DEF Confirm, TypeOK, Dialog
  <2>. QED  BY <1>2, <1>3, <1>6, <2>1 DEF Confirm, TypeOK
<1>7. CASE Dismiss
  BY <1>1, <1>2, <1>3, <1>7 DEF Dismiss, TypeOK
<1>8. CASE Refresh
  BY <1>1, <1>2, <1>8 DEF Refresh, TypeOK
<1>9. CASE Refreshed
  BY <1>1, <1>2, <1>9 DEF Refreshed, TypeOK
<1>10. ASSUME NEW s \in Slots, Answer(s) PROVE TypeOK'
  <2>1. requests' \in [Slots -> Request]
    BY <1>1, <1>10, FreeType, SetType DEF Answer
  <2>2. CASE requestType = "POST" /\ AskForConfirmation(requests[s])
    <3>1. requests[s] \in Request
      BY <1>1
    <3>2. Least(requests[s].count, MaxLimit) \in Nat
      BY <3>1, MassDeleteAssumption DEF Least, Request
    <3>3. (requests[s].kind = "POST" => requests[s].count # 0) \in BOOLEAN
      OBVIOUS
    <3>4. dialog' \in Dialog
      BY <2>2, <3>2, <3>3 DEF AskForConfirmation, Dialog
    <3>. QED  BY <1>2, <1>10, <2>1, <2>2, <3>4 DEF Answer, AskForConfirmation, TypeOK
  <2>3. CASE ReportSuccess
    <3>0. fetching \in Nat /\ fetching' = fetching + 1 /\ sel' = Reset(TRUE) /\ masked' = TRUE
      BY <2>3 DEF ReportSuccess, TypeOK
    <3>1. fetching' \in Nat
      BY <3>0
    <3>3. sel' \in SelectionsOver(Records) /\ masked' \in BOOLEAN
      BY <1>3, <3>0, Zenon
    <3>2. UNCHANGED <<existing, index, requestType, dialog, quiet, orphans>>
      BY <1>10, <2>3 DEF Answer, ReportSuccess
    <3>. QED  BY <1>2, <2>1, <3>1, <3>2, <3>3 DEF TypeOK
  <2>. QED  BY <1>10, <2>2, <2>3 DEF Answer
<1>11. ASSUME NEW s \in Slots, Error(s) PROVE TypeOK'
  <2>1. requests' \in [Slots -> Request]
    BY <1>1, <1>11, FreeType, SetType DEF Error
  <2>. QED  BY <1>2, <1>11, <2>1 DEF Error, TypeOK
<1>. QED  BY <1>4, <1>5, <1>6, <1>7, <1>8, <1>9, <1>10, <1>11 DEF ClientStep

\* Every step of the server replaces one request by one of the same kind,
\* unless it failed, and leaves the client alone.
LEMMA ServerStepShape ==
    ASSUME TypeOK, NEW s \in Slots, ServerStepOf(s)
    PROVE  /\ requests[s].phase # "free"
           /\ \E r \in Request : /\ Set(s, r)
                                 /\ r.phase # "free"
                                 /\ r.grown => requests[s].grown
                                 /\ r.phase # "failed" => /\ r.kind = requests[s].kind
                                                          /\ requests[s].phase # "failed"
           /\ UNCHANGED <<sel, requestType, dialog, masked, fetching, quiet>>
           /\ existing' \subseteq existing
           /\ existing' \subseteq Records /\ index' \subseteq Records /\ orphans' \subseteq Records
<1>. DEFINE q == requests[s]
<1>1. q \in Request
  BY DEF TypeOK, Request
<1>2. existing \subseteq Records /\ index \subseteq Records /\ orphans \subseteq Records
  BY DEF TypeOK
<1>3. /\ Matching(q) \subseteq Records
      /\ Cardinality(Matching(q)) \in Nat
      /\ Cardinality(Matching(q) \cap Deletable) \in Nat
  BY <1>2, MatchingFinite
<1>. DEFINE Step(r) == r \in Request /\ Set(s, r) /\ r.phase # "free"
                       /\ (r.grown => q.grown)
                       /\ (r.phase # "failed" => r.kind = q.kind /\ q.phase # "failed")
<1>4. [Free EXCEPT !.phase = "failed"] \in Request
      /\ [Free EXCEPT !.phase = "failed"].phase = "failed"
      /\ ~[Free EXCEPT !.phase = "failed"].grown
  BY DEF Free, Request, Phases, Reset, SelectionsOver
<1>5. CASE CountSelected(s)
  <2>1. [q EXCEPT !.phase = "counted", !.selected = Cardinality(Matching(q))] \in Request
    BY <1>1, <1>3 DEF Request, Phases
  <2>2. \E r : Step(r)
    <3>1. CASE NothingSelected(q.sel)
      BY <1>4, <1>5, <3>1 DEF CountSelected
    <3>2. CASE ~NothingSelected(q.sel)
      <4>. DEFINE r == [q EXCEPT !.phase = "counted", !.selected = Cardinality(Matching(q))]
      <4>1. r.phase = "counted" /\ r.kind = q.kind /\ r.grown = q.grown
        BY <1>1 DEF Request
      <4>2. Set(s, r) /\ q.phase = "sent"
        BY <1>5, <3>2 DEF CountSelected
      <4>. QED  BY <2>1, <4>1, <4>2
    <3>. QED  BY <3>1, <3>2
  <2>. QED  BY <1>2, <1>5, <2>2 DEF CountSelected
<1>6. CASE CountDeletable(s)
  <2>. DEFINE n == Cardinality(Matching(q) \cap Deletable)
              post == [q EXCEPT !.phase = "answered", !.selected = 0, !.count = n]
              del  == [q EXCEPT !.phase = "limited", !.selected = 0,
                                !.restricted = AclApplied /\ q.selected # n,
                                !.limited = n > MaxLimit]
  <2>1. post \in Request /\ post.phase = "answered" /\ post.kind = q.kind /\ post.grown = q.grown
    BY <1>1, <1>3 DEF Request, Phases
  <2>2. del \in Request /\ del.phase = "limited" /\ del.kind = q.kind /\ del.grown = q.grown
    <3>1. (AclApplied /\ q.selected # n) \in BOOLEAN /\ (n > MaxLimit) \in BOOLEAN
      OBVIOUS
    <3>. QED  BY <1>1, <3>1 DEF Request, Phases
  <2>3. q.phase = "counted" /\ (Set(s, post) \/ Set(s, del))
    BY <1>6 DEF CountDeletable
  <2>4. \E r : Step(r)
    BY <2>1, <2>2, <2>3
  <2>. QED  BY <1>2, <1>6, <2>4 DEF CountDeletable
<1>7. CASE CountPages(s)
  <2>. DEFINE found == Cardinality(Matching(q))
              results == IF q.limited THEN Least(found, MaxLimit) ELSE found
              r == [q EXCEPT !.phase = "deleting",
                             !.pages = (results + BatchSize - 1) \div BatchSize]
  <2>1. results \in Nat
    BY <1>3, MassDeleteAssumption DEF Least
  <2>2. (results + BatchSize - 1) \div BatchSize \in Nat
    BY <2>1, PagesType
  <2>3. r \in Request /\ r.phase = "deleting" /\ r.kind = q.kind /\ r.grown = q.grown
    BY <1>1, <2>2 DEF Request, Phases
  <2>4. q.phase = "limited" /\ Set(s, r)
    BY <1>7 DEF CountPages
  <2>5. \E x : Step(x)
    BY <2>3, <2>4
  <2>. QED  BY <1>2, <1>7, <2>5 DEF CountPages
<1>8. CASE LoadPage(s)
  <2>1. PICK rows \in SUBSET Matching(q) :
          Set(s, [q EXCEPT !.rows = rows, !.pages = IF rows = {} THEN 0 ELSE @ - 1])
    BY <1>8 DEF LoadPage
  <2>. DEFINE r == [q EXCEPT !.rows = rows, !.pages = IF rows = {} THEN 0 ELSE @ - 1]
  <2>2. q.phase = "deleting" /\ q.pages > 0
    BY <1>8 DEF LoadPage
  <2>3. r \in Request /\ r.phase = "deleting" /\ r.kind = q.kind /\ r.grown = q.grown
    <3>1. (IF rows = {} THEN 0 ELSE q.pages - 1) \in Nat
      BY <1>1, <2>2 DEF Request
    <3>2. rows \in SUBSET Records
      BY <1>3
    <3>. QED  BY <1>1, <2>2, <3>1, <3>2 DEF Request, Phases
  <2>4. \E x : Step(x)
    BY <2>1, <2>2, <2>3
  <2>. QED  BY <1>2, <1>8, <2>2, <2>4 DEF LoadPage
<1>9. CASE Remove(s)
  <2>1. PICK x \in q.rows :
          Set(s, [q EXCEPT !.rows = @ \ {x}, !.pending = @ \cup {x}, !.count = @ + 1])
    BY <1>9 DEF Remove
  <2>. DEFINE r == [q EXCEPT !.rows = @ \ {x}, !.pending = @ \cup {x}, !.count = @ + 1]
  <2>2. q.phase = "deleting"
    BY <1>9 DEF Remove
  <2>3. r \in Request /\ r.phase = "deleting" /\ r.kind = q.kind /\ r.grown = q.grown
    <3>1. /\ q.rows \ {x} \in SUBSET Records
          /\ q.pending \cup {x} \in SUBSET Records
          /\ q.count + 1 \in Nat
      BY <1>1 DEF Request
    <3>. QED  BY <1>1, <2>2, <3>1 DEF Request, Phases
  <2>4. \E y : Step(y)
    BY <2>1, <2>2, <2>3
  <2>. QED  BY <1>2, <1>9, <2>2, <2>4 DEF Remove
<1>10. CASE Flush(s)
  <2>. DEFINE r == [q EXCEPT !.phase = "flushed", !.deleted = @ \cup (q.pending \cap existing)]
  <2>1. q.phase = "deleting" /\ Set(s, r) /\ existing' = existing \ q.pending
        /\ UNCHANGED <<index, sel, requestType, dialog, masked, fetching, quiet, orphans>>
    BY <1>10 DEF Flush
  <2>2. r \in Request /\ r.phase = "flushed" /\ r.kind = q.kind /\ r.grown = q.grown
    BY <1>1 DEF Request, Phases
  <2>3. \E y : Step(y)
    BY <2>1, <2>2
  <2>. QED  BY <1>2, <2>1, <2>3
<1>11. CASE Announce(s)
  <2>. DEFINE r == [q EXCEPT !.phase = "deleting", !.pending = {}]
  <2>1. /\ q.phase = "flushed" /\ Set(s, r)
        /\ index' = (index \ q.pending) \cup (q.pending \cap existing)
        /\ UNCHANGED <<existing, sel, requestType, dialog, masked, fetching, quiet, orphans>>
    BY <1>11 DEF Announce
  <2>2. r \in Request /\ r.phase = "deleting" /\ r.kind = q.kind /\ r.grown = q.grown
    BY <1>1 DEF Request, Phases
  <2>3. \E y : Step(y)
    BY <2>1, <2>2
  <2>. QED  BY <1>2, <2>1, <2>3
<1>12. CASE Respond(s)
  <2>. DEFINE r == [q EXCEPT !.phase = "answered"]
  <2>1. /\ q.phase = "deleting" /\ Set(s, r)
        /\ UNCHANGED <<existing, index, sel, requestType, dialog, masked, fetching,
                       quiet, orphans>>
    BY <1>12 DEF Respond
  <2>2. r \in Request /\ r.phase = "answered" /\ r.kind = q.kind /\ r.grown = q.grown
    BY <1>1 DEF Request, Phases
  <2>3. \E y : Step(y)
    BY <2>1, <2>2
  <2>. QED  BY <1>2, <2>1, <2>3
<1>13. CASE Die(s)
  <2>1. q.phase # "free" /\ orphans' \subseteq Records
    BY <1>1, <1>2, <1>13 DEF Die, Request
  <2>. QED  BY <1>2, <1>4, <1>13, <2>1 DEF Die
<1>. QED  BY <1>5, <1>6, <1>7, <1>8, <1>9, <1>10, <1>11, <1>12, <1>13 DEF ServerStepOf

\* Other users change nothing of a request but the ghost.
LEMMA OthersShape ==
    ASSUME TypeOK, Others
    PROVE  /\ requests' \in [Slots -> Request]
           /\ \A s \in Slots :
                 \/ requests'[s] = requests[s] /\ existing' \subseteq existing
                 \/ requests'[s] = [requests[s] EXCEPT !.grown = @ \/ Counted(requests[s])]
           /\ UNCHANGED <<sel, requestType, dialog, masked, fetching>>
<1>1. requests \in [Slots -> Request]
  BY DEF TypeOK, Request
<1>2. UNCHANGED <<sel, requestType, dialog, masked, fetching>>
  BY DEF Others
<1>3. CASE \E x \in existing : Vanish(x)
  BY <1>1, <1>2, <1>3 DEF Vanish
<1>4. CASE \E x \in Records \ existing : Arrive(x)
  <2>1. requests' = [s \in Slots |-> [requests[s] EXCEPT !.grown = @ \/ Counted(requests[s])]]
    BY <1>4 DEF Arrive
  <2>2. ASSUME NEW s \in Slots
        PROVE  [requests[s] EXCEPT !.grown = @ \/ Counted(requests[s])] \in Request
    <3>1. requests[s] \in Request /\ (requests[s].grown \/ Counted(requests[s])) \in BOOLEAN
      BY <1>1 DEF Request
    <3>. QED  BY <3>1 DEF Request
  <2>. QED  BY <1>2, <2>1, <2>2
<1>. QED  BY <1>3, <1>4 DEF Others

LEMMA TypeKept == TypeOK /\ [Next]_vars => TypeOK'
<1>. SUFFICES ASSUME TypeOK, [Next]_vars PROVE TypeOK'
  OBVIOUS
<1>1. ASSUME NEW s \in Slots, ServerStepOf(s) PROVE TypeOK'
  <2>1. requests' \in [Slots -> Request]
    <3>1. requests \in [Slots -> Request]
      BY DEF TypeOK, Request
    <3>. QED  BY <1>1, <3>1, ServerStepShape, SetType
  <2>2. UNCHANGED <<sel, requestType, dialog, masked, fetching, quiet>>
        /\ existing' \subseteq Records /\ index' \subseteq Records /\ orphans' \subseteq Records
    BY <1>1, ServerStepShape
  <2>. QED  BY <2>1, <2>2 DEF TypeOK, Request
<1>2. CASE Others
  BY <1>2, OthersShape DEF Others, Vanish, Arrive, TypeOK, Request
<1>3. CASE UNCHANGED vars
  BY <1>3 DEF vars, TypeOK
<1>. QED  BY <1>1, <1>2, <1>3, ClientStepType DEF Next, ServerStep, ServerStepOf

LEMMA InitType == Init => TypeOK
<1>. SUFFICES ASSUME Init PROVE TypeOK
  OBVIOUS
<1>1. requests \in [Slots -> Request]
  BY FreeType DEF Init
<1>2. sel \in SelectionsOver(Records) /\ dialog \in Dialog
  BY DEF Init, SelectionsOver, Closed, Dialog
<1>. QED  BY <1>1, <1>2 DEF Init, TypeOK, Request

(***************************************************************************)
(* The search index.  The invariant is inductive: a flush takes its records *)
(* out of the database and into a request that is "flushed", and leaving    *)
(* that phase takes them out of the index or makes them orphans.            *)
(***************************************************************************)
LEMMA IndexKeptByServer ==
    ASSUME TypeOK, IndexFollowsDatabase, NEW s \in Slots, ServerStepOf(s)
    PROVE  IndexFollowsDatabase'
<1>. DEFINE q == requests[s]
<1>1. /\ \A x : x \in index /\ x \notin existing =>
             x \in orphans \/ \E t \in Slots : requests[t].phase = "flushed" /\ x \in requests[t].pending
  BY DEF IndexFollowsDatabase
<1>2. SUFFICES ASSUME NEW x, x \in index', x \notin existing'
               PROVE  \/ x \in orphans'
                      \/ \E t \in Slots : requests'[t].phase = "flushed" /\ x \in requests'[t].pending
  BY DEF IndexFollowsDatabase
<1>3. PICK r \in Request : Set(s, r)
  BY ServerStepShape
<1>4. requests \in [Slots -> Request] /\ q \in Request
  BY DEF TypeOK, Request
<1>5. requests'[s] = r /\ \A t \in Slots : t # s => requests'[t] = requests[t]
  BY <1>3, <1>4 DEF Set
<1>6. \A e : Set(s, e) => e = r
  BY <1>3, <1>4 DEF Set
<1>7. CASE q.phase # "flushed" /\ UNCHANGED <<existing, index, orphans>>
  BY <1>1, <1>2, <1>5, <1>7
<1>8. CASE Flush(s)
  <2>1. /\ index' = index /\ orphans' = orphans /\ existing' = existing \ q.pending
        /\ q.phase = "deleting"
        /\ Set(s, [q EXCEPT !.phase = "flushed", !.deleted = @ \cup (q.pending \cap existing)])
    BY <1>8 DEF Flush
  <2>2. r.phase = "flushed" /\ r.pending = q.pending
    BY <1>4, <1>6, <2>1 DEF Request
  <2>. QED  BY <1>1, <1>2, <1>5, <2>1, <2>2
<1>9. CASE Announce(s)
  <2>1. /\ index' = (index \ q.pending) \cup (q.pending \cap existing)
        /\ orphans' = orphans /\ existing' = existing
    BY <1>9 DEF Announce
  <2>2. x \in index /\ x \notin q.pending
    BY <1>2, <2>1
  <2>. QED  BY <1>1, <1>2, <1>5, <2>1, <2>2
<1>10. CASE Die(s)
  <2>1. /\ index' = index /\ existing' = existing
        /\ orphans' = IF q.phase = "flushed" THEN orphans \cup (q.pending \ existing) ELSE orphans
    BY <1>10 DEF Die
  <2>. QED  BY <1>1, <1>2, <1>5, <2>1
<1>. QED
  BY <1>7, <1>8, <1>9, <1>10
  DEF ServerStepOf, CountSelected, CountDeletable, CountPages, LoadPage, Remove, Respond

LEMMA IndexKept == TypeOK /\ IndexFollowsDatabase /\ [Next]_vars => IndexFollowsDatabase'
<1>. SUFFICES ASSUME TypeOK, IndexFollowsDatabase, [Next]_vars PROVE IndexFollowsDatabase'
  OBVIOUS
<1>1. CASE ClientStep
  <2>1. UNCHANGED <<existing, index, orphans>>
    BY <1>1 DEF ClientStep, Select, Execute, Confirm, Dismiss, Refresh, Refreshed, Answer, Error
  <2>2. ASSUME NEW s \in Slots, requests[s].phase = "flushed" PROVE requests'[s] = requests[s]
    <3>1. \A t, r : Set(t, r) /\ t # s => requests'[s] = requests[s]
      BY DEF Set, TypeOK
    <3>. QED
      BY <1>1, <2>2, <3>1
      DEF ClientStep, Select, Execute, Confirm, Send, Busy, Dismiss, Refresh, Refreshed, Answer, Error
  <2>. QED  BY <2>1, <2>2 DEF IndexFollowsDatabase
<1>2. ASSUME NEW s \in Slots, ServerStepOf(s) PROVE IndexFollowsDatabase'
  BY <1>2, IndexKeptByServer
<1>3. CASE Others
  <2>1. /\ orphans' = orphans \ existing'
        /\ index' \ existing' \subseteq index \ existing
    BY <1>3 DEF Others, Vanish, Arrive
  <2>2. ASSUME NEW s \in Slots
        PROVE  requests'[s].phase = requests[s].phase /\ requests'[s].pending = requests[s].pending
    <3>1. requests[s] \in Request
      BY DEF TypeOK, Request
    <3>. QED  BY <1>3, <3>1, OthersShape DEF Request
  <2>. QED  BY <2>1, <2>2 DEF IndexFollowsDatabase
<1>4. CASE UNCHANGED vars
  BY <1>4 DEF vars, IndexFollowsDatabase
<1>. QED  BY <1>1, <1>2, <1>3, <1>4 DEF Next, ServerStep, ServerStepOf

(***************************************************************************)
(* The ACL.  A request that no record has joined since its first count      *)
(* matches fewer and fewer, whoever deletes them.  So equal counts, however *)
(* far apart, mean that every record left is deletable; else the query is   *)
(* restricted.                                                             *)
(***************************************************************************)
Untouched(r) == r.rows = {} /\ r.pending = {} /\ r.deleted = {} /\ ~r.restricted

Permitted(r) ==
    /\ r.phase \in {"free", "sent", "counted", "failed"} => Untouched(r)
    /\ ~r.grown =>
          /\ r.phase = "counted" => r.selected >= Cardinality(Matching(r))
          /\ r.phase \in {"limited", "deleting", "flushed"} => Matching(r) \subseteq Deletable
          /\ r.rows \subseteq Deletable
          /\ r.pending \subseteq Deletable
          /\ r.deleted \subseteq Deletable

FreeSlots == \A s \in Slots : requests[s].phase = "free" => requests[s] = Free

\* While quiet holds at most one request is in flight, and none while the dialog
\* is open; and no record has joined any.
Alone ==
    quiet => /\ \A s, t \in Busy : s = t
             /\ dialog.open => Busy = {}
             /\ \A s \in Slots : ~requests[s].grown

AclOK == \A s \in Slots : Permitted(requests[s])

AclInv == TypeOK /\ Alone /\ FreeSlots /\ AclOK

LEMMA FreePermitted == Permitted(Free)
BY DEF Permitted, Untouched, Free

LEMMA SentPermitted ==
    ASSUME NEW kind, NEW promised
    PROVE  Permitted([Free EXCEPT !.phase = "sent", !.kind = kind, !.sel = sel,
                                  !.promised = promised])
BY DEF Permitted, Untouched, Free

\* Of a finite set, as many as there are means all of them.
LEMMA EqualCounts ==
    ASSUME existing \subseteq Records, NEW r,
           Cardinality(Matching(r) \cap Deletable) >= Cardinality(Matching(r))
    PROVE  Matching(r) \subseteq Deletable
<1>1. IsFiniteSet(Matching(r)) /\ Matching(r) \cap Deletable \subseteq Matching(r)
  BY MatchingFinite
<1>2. Cardinality(Matching(r) \cap Deletable) <= Cardinality(Matching(r))
  BY <1>1, FS_Subset
<1>3. Cardinality(Matching(r) \cap Deletable) = Cardinality(Matching(r))
  <2>1. Cardinality(Matching(r) \cap Deletable) \in Nat /\ Cardinality(Matching(r)) \in Nat
    BY MatchingFinite
  <2>. QED  BY <1>2, <2>1
<1>4. Matching(r) \cap Deletable = Matching(r)
  BY <1>1, <1>3, FS_Subset
<1>. QED  BY <1>4

\* The records a request matches depend on its selection and restriction.
LEMMA MatchingSame ==
    ASSUME NEW q, NEW r, r.sel = q.sel, r.restricted = q.restricted
    PROVE  /\ Matching(r) = Matching(q)
           /\ existing' \subseteq existing => Matching(r)' \subseteq Matching(q)
BY DEF Matching

\* Deletions, whoever's, take from what a request matches.
LEMMA PermittedAsRecordsGo ==
    ASSUME existing \subseteq Records, existing' \subseteq existing, NEW r \in Request, Permitted(r)
    PROVE  Permitted(r)'
<1>1. Matching(r)' \subseteq Matching(r)
  BY MatchingSame
<1>2. /\ IsFiniteSet(Matching(r)) /\ Cardinality(Matching(r)) \in Nat
  BY MatchingFinite
<1>3. Cardinality(Matching(r)') <= Cardinality(Matching(r)) /\ Cardinality(Matching(r)') \in Nat
  BY <1>1, <1>2, FS_Subset, FS_CardinalityType
<1>4. r.selected >= Cardinality(Matching(r)) => r.selected >= Cardinality(Matching(r)')
  BY <1>2, <1>3 DEF Request
<1>. QED  BY <1>1, <1>4 DEF Permitted, Untouched

\* What a step of the server makes of its own request.
LEMMA ServerPermitted ==
    ASSUME AclApplied, TypeOK, NEW s \in Slots, ServerStepOf(s), Permitted(requests[s])
    PROVE  Permitted(requests[s])'
<1>. DEFINE q == requests[s]
<1>1. PICK r \in Request : Set(s, r)
  BY ServerStepShape
<1>2. requests \in [Slots -> Request] /\ q \in Request /\ existing \subseteq Records
  BY DEF TypeOK, Request
<1>3. requests'[s] = r /\ \A e : Set(s, e) => e = r
  BY <1>1, <1>2 DEF Set
<1>4. SUFFICES Permitted(r)'
  BY <1>3
<1>5. existing' \subseteq existing
  BY DEF ServerStepOf, CountSelected, CountDeletable, CountPages, LoadPage, Remove, Flush,
         Announce, Respond, Die
<1>6. Permitted([Free EXCEPT !.phase = "failed"])'
  BY DEF Permitted, Untouched, Free
<1>7. CASE CountSelected(s)
  <2>1. q.phase = "sent" /\ existing' = existing
    BY <1>7 DEF CountSelected
  <2>2. CASE NothingSelected(q.sel)
    BY <1>3, <1>6, <1>7, <2>1, <2>2 DEF CountSelected
  <2>3. CASE ~NothingSelected(q.sel)
    <3>1. r = [q EXCEPT !.phase = "counted", !.selected = Cardinality(Matching(q))]
      BY <1>3, <1>7, <2>3 DEF CountSelected
    <3>2. /\ r.phase = "counted" /\ r.selected = Cardinality(Matching(q))
          /\ r.sel = q.sel /\ r.restricted = q.restricted /\ r.rows = q.rows
          /\ r.pending = q.pending /\ r.deleted = q.deleted
      BY <1>2, <3>1 DEF Request
    <3>3. Matching(r)' = Matching(q)
      BY <2>1, <3>2 DEF Matching
    <3>4. r.selected >= Cardinality(Matching(r)')
      <4>1. Cardinality(Matching(q)) \in Nat
        BY <1>2, MatchingFinite
      <4>. QED  BY <3>2, <3>3, <4>1
    <3>. QED  BY <2>1, <3>2, <3>4 DEF Permitted, Untouched
  <2>. QED  BY <2>2, <2>3
<1>8. CASE CountDeletable(s)
  <2>. DEFINE n == Cardinality(Matching(q) \cap Deletable)
  <2>1. q.phase = "counted" /\ existing' = existing
    BY <1>8 DEF CountDeletable
  <2>2. CASE q.kind = "POST"
    <3>1. r = [q EXCEPT !.phase = "answered", !.selected = 0, !.count = n]
      BY <1>3, <1>8, <2>2 DEF CountDeletable
    <3>2. r.phase = "answered" /\ r.rows = {} /\ r.pending = {} /\ r.deleted = {}
      BY <1>2, <2>1, <3>1 DEF Request, Permitted, Untouched
    <3>. QED  BY <3>2 DEF Permitted
  <2>3. CASE q.kind # "POST"
    <3>1. r = [q EXCEPT !.phase = "limited", !.selected = 0,
                        !.restricted = AclApplied /\ q.selected # n,
                        !.limited = n > MaxLimit]
      BY <1>3, <1>8, <2>3 DEF CountDeletable
    <3>2. /\ r.phase = "limited" /\ r.rows = {} /\ r.pending = {} /\ r.deleted = {}
          /\ r.sel = q.sel /\ r.grown = q.grown
      BY <1>2, <2>1, <3>1 DEF Request, Permitted, Untouched
    <3>3. r.restricted = (AclApplied /\ q.selected # n)
      BY <1>2, <3>1, Zenon DEF Request
    <3>4. ~q.grown => Matching(r)' \subseteq Deletable
      <4>1. CASE q.selected # n
        BY <3>3, <4>1 DEF Matching
      <4>2. CASE q.selected = n
        <5>1. SUFFICES ASSUME ~q.grown PROVE Matching(r)' \subseteq Deletable
          OBVIOUS
        <5>2. Matching(q) \subseteq Deletable
          BY <1>2, <2>1, <4>2, <5>1, EqualCounts DEF Permitted
        <5>3. ~q.restricted /\ ~r.restricted
          BY <2>1, <3>3, <4>2 DEF Permitted, Untouched
        <5>. QED  BY <2>1, <3>2, <5>2, <5>3 DEF Matching
      <4>. QED  BY <4>1, <4>2
    <3>. QED  BY <3>2, <3>4 DEF Permitted
  <2>. QED  BY <2>2, <2>3
<1>9. ASSUME q.phase \in {"limited", "deleting", "flushed"},
             r.phase \in {"deleting", "flushed", "answered"},
             r.sel = q.sel, r.restricted = q.restricted, r.grown = q.grown,
             ~q.grown => /\ r.rows \subseteq Deletable /\ r.pending \subseteq Deletable
                         /\ r.deleted \subseteq Deletable
      PROVE  Permitted(r)'
  <2>1. ~q.grown => Matching(r)' \subseteq Deletable
    BY <1>5, <1>9, MatchingSame DEF Permitted
  <2>. QED  BY <1>9, <2>1 DEF Permitted
<1>10. CASE CountPages(s)
  <2>1. q.phase = "limited" /\ \E n : r = [q EXCEPT !.phase = "deleting", !.pages = n]
    BY <1>3, <1>10 DEF CountPages
  <2>2. /\ r.phase = "deleting" /\ r.sel = q.sel /\ r.restricted = q.restricted /\ r.grown = q.grown
        /\ r.rows = q.rows /\ r.pending = q.pending /\ r.deleted = q.deleted
    BY <1>2, <2>1 DEF Request
  <2>. QED  BY <1>9, <2>1, <2>2 DEF Permitted
<1>11. CASE LoadPage(s)
  <2>1. /\ q.phase = "deleting"
        /\ \E rows \in SUBSET Matching(q) : \E n : r = [q EXCEPT !.rows = rows, !.pages = n]
    BY <1>3, <1>11 DEF LoadPage
  <2>2. /\ r.phase = "deleting" /\ r.sel = q.sel /\ r.restricted = q.restricted /\ r.grown = q.grown
        /\ r.rows \subseteq Matching(q) /\ r.pending = q.pending /\ r.deleted = q.deleted
    BY <1>2, <2>1 DEF Request
  <2>. QED  BY <1>9, <2>1, <2>2 DEF Permitted
<1>12. CASE Remove(s)
  <2>1. /\ q.phase = "deleting"
        /\ \E x \in q.rows :
              r = [q EXCEPT !.rows = @ \ {x}, !.pending = @ \cup {x}, !.count = @ + 1]
    BY <1>3, <1>12 DEF Remove
  <2>2. /\ r.phase = "deleting" /\ r.sel = q.sel /\ r.restricted = q.restricted /\ r.grown = q.grown
        /\ r.rows \subseteq q.rows /\ r.pending \subseteq q.pending \cup q.rows
        /\ r.deleted = q.deleted
    BY <1>2, <2>1 DEF Request
  <2>. QED  BY <1>9, <2>1, <2>2 DEF Permitted
<1>13. CASE Flush(s)
  <2>1. /\ q.phase = "deleting"
        /\ r = [q EXCEPT !.phase = "flushed", !.deleted = @ \cup (q.pending \cap existing)]
    BY <1>3, <1>13 DEF Flush
  <2>2. /\ r.phase = "flushed" /\ r.sel = q.sel /\ r.restricted = q.restricted /\ r.grown = q.grown
        /\ r.rows = q.rows /\ r.pending = q.pending
        /\ r.deleted \subseteq q.deleted \cup q.pending
    BY <1>2, <2>1 DEF Request
  <2>. QED  BY <1>9, <2>1, <2>2 DEF Permitted
<1>14. CASE Announce(s)
  <2>1. q.phase = "flushed" /\ r = [q EXCEPT !.phase = "deleting", !.pending = {}]
    BY <1>3, <1>14 DEF Announce
  <2>2. /\ r.phase = "deleting" /\ r.sel = q.sel /\ r.restricted = q.restricted /\ r.grown = q.grown
        /\ r.rows = q.rows /\ r.pending = {} /\ r.deleted = q.deleted
    BY <1>2, <2>1 DEF Request
  <2>. QED  BY <1>9, <2>1, <2>2 DEF Permitted
<1>15. CASE Respond(s)
  <2>1. q.phase = "deleting" /\ r = [q EXCEPT !.phase = "answered"]
    BY <1>3, <1>15 DEF Respond
  <2>2. /\ r.phase = "answered" /\ r.sel = q.sel /\ r.restricted = q.restricted /\ r.grown = q.grown
        /\ r.rows = q.rows /\ r.pending = q.pending /\ r.deleted = q.deleted
    BY <1>2, <2>1 DEF Request
  <2>. QED  BY <1>9, <2>1, <2>2 DEF Permitted
<1>16. CASE Die(s)
  BY <1>3, <1>6, <1>16 DEF Die
<1>. QED
  BY <1>7, <1>8, <1>10, <1>11, <1>12, <1>13, <1>14, <1>15, <1>16 DEF ServerStepOf

\* Replacing one request by another that is in flight, or by none.
LEMMA BusyAfterSet ==
    ASSUME TypeOK, NEW s \in Slots, NEW r, Set(s, r)
    PROVE  /\ r.phase # "free" => Busy' = Busy \cup {s}
           /\ r.phase = "free" => Busy' = Busy \ {s}
           /\ requests'[s] = r
           /\ \A t \in Slots : t # s => requests'[t] = requests[t]
<1>1. requests'[s] = r /\ \A t \in Slots : t # s => requests'[t] = requests[t]
  BY DEF Set, TypeOK
<1>. QED  BY <1>1 DEF Busy

LEMMA AclInvKept == AclApplied /\ AclInv /\ [Next]_vars => AclInv'
<1>. SUFFICES ASSUME AclApplied, AclInv, [Next]_vars PROVE AclInv'
  OBVIOUS
<1>1. /\ TypeOK /\ TypeOK' /\ Alone /\ FreeSlots /\ AclOK
      /\ requests \in [Slots -> Request] /\ existing \subseteq Records
  BY TypeKept DEF AclInv, TypeOK, Request
<1>2. SUFFICES Alone' /\ FreeSlots' /\ AclOK'
  BY <1>1 DEF AclInv
<1>3. Free.phase = "free" /\ ~Free.grown /\ Permitted(Free)'
  BY DEF Free, Permitted, Untouched
\* The requests that are as they were.
<1>p. ASSUME existing' \subseteq existing, NEW t \in Slots, requests'[t] = requests[t]
      PROVE  Permitted(requests[t])'
  <2>1. Permitted(requests[t]) /\ requests[t] \in Request
    BY <1>1 DEF AclOK
  <2>. DEFINE r == requests[t]
  <2>2. \A q \in Request : Permitted(q) => Permitted(q)'
    BY <1>1, <1>p, PermittedAsRecordsGo
  <2>. QED  BY <1>p, <2>1, <2>2
<1>4. ASSUME NEW kind, NEW promised, Send(kind, promised),
             UNCHANGED <<existing, sel>>, dialog' = Closed, quiet' => Busy = {}
      PROVE  Alone' /\ FreeSlots' /\ AclOK'
  <2>. DEFINE r == [Free EXCEPT !.phase = "sent", !.kind = kind, !.sel = sel,
                                !.promised = promised]
  <2>1. PICK s \in Slots \ Busy : Set(s, r)
    BY <1>4 DEF Send
  <2>2. r.phase = "sent" /\ ~r.grown /\ Permitted(r)'
    BY <1>4, SentPermitted DEF Free, Permitted, Untouched
  <2>3. /\ Busy' = Busy \cup {s} /\ requests'[s] = r
        /\ \A t \in Slots : t # s => requests'[t] = requests[t]
    <3>. HIDE DEF r
    <3>. QED  BY <1>1, <2>1, <2>2, BusyAfterSet
  <2>4. Alone'
    <3>1. SUFFICES ASSUME quiet' PROVE \A t \in Slots : ~requests'[t].grown
      BY <1>4, <2>3 DEF Alone, Closed
    <3>2. \A t \in Slots : t # s => requests'[t] = Free
      BY <1>1, <1>4, <2>3, <3>1 DEF FreeSlots, Busy
    <3>. QED  BY <1>3, <2>2, <2>3, <3>2
  <2>5. FreeSlots'
    BY <1>1, <2>2, <2>3 DEF FreeSlots
  <2>6. AclOK'
    BY <1>4, <1>p, <2>2, <2>3 DEF AclOK
  <2>. QED  BY <2>4, <2>5, <2>6
<1>5. ASSUME NEW s \in Slots, Set(s, Free), UNCHANGED quiet, existing' = existing,
             requests[s].phase # "free"
      PROVE  Alone' /\ FreeSlots' /\ AclOK'
  <2>1. /\ Busy' = Busy \ {s} /\ requests'[s] = Free
        /\ \A t \in Slots : t # s => requests'[t] = requests[t]
    BY <1>1, <1>3, <1>5, BusyAfterSet
  <2>2. quiet => Busy' = {} /\ \A t \in Slots : ~requests'[t].grown
    BY <1>1, <1>3, <1>5, <2>1 DEF Alone, Busy
  <2>3. Alone'
    BY <1>5, <2>2 DEF Alone
  <2>4. FreeSlots'
    BY <1>1, <2>1 DEF FreeSlots
  <2>5. AclOK'
    BY <1>3, <1>5, <1>p, <2>1 DEF AclOK
  <2>. QED  BY <2>3, <2>4, <2>5
<1>6. ASSUME requests' = requests, existing' = existing, quiet' => quiet \/ Busy = {},
             dialog'.open => dialog.open
      PROVE  Alone' /\ FreeSlots' /\ AclOK'
  <2>1. Busy' = Busy
    BY <1>6 DEF Busy
  <2>2. Busy = {} => \A t \in Slots : ~requests[t].grown
    BY <1>1, <1>3 DEF FreeSlots, Busy
  <2>3. Alone'
    BY <1>1, <1>6, <2>1, <2>2 DEF Alone
  <2>4. FreeSlots'
    BY <1>1, <1>6 DEF FreeSlots
  <2>5. AclOK'
    BY <1>6, <1>p DEF AclOK
  <2>. QED  BY <2>3, <2>4, <2>5
<1>7. CASE Select
  BY <1>6, <1>7 DEF Select
<1>8. CASE Execute
  <2>1. existing' = existing /\ dialog' = Closed /\ (quiet' => Busy = {})
    BY <1>8 DEF Execute
  <2>2. ~dialog'.open
    BY <2>1 DEF Closed
  <2>3. requests' = requests \/ Send("POST", 0)
    BY <1>8 DEF Execute
  <2>4. sel' = sel
    BY <1>8 DEF Execute
  <2>. QED  BY <1>4, <1>6, <2>1, <2>2, <2>3, <2>4
<1>9. CASE Confirm
  BY <1>1, <1>4, <1>9 DEF Confirm, Alone
<1>10. CASE Dismiss
  BY <1>6, <1>10 DEF Dismiss, Closed
<1>11. CASE Refresh \/ Refreshed
  BY <1>6, <1>11 DEF Refresh, Refreshed
<1>12. ASSUME NEW s \in Slots, Answer(s) \/ Error(s) PROVE Alone' /\ FreeSlots' /\ AclOK'
  BY <1>5, <1>12 DEF Answer, Error
<1>13. ASSUME NEW s \in Slots, ServerStepOf(s) PROVE Alone' /\ FreeSlots' /\ AclOK'
  <2>1. PICK r \in Request : /\ Set(s, r) /\ r.phase # "free"
                             /\ r.grown => requests[s].grown
    BY <1>1, <1>13, ServerStepShape
  <2>2. /\ requests[s].phase # "free" /\ UNCHANGED <<dialog, quiet>>
        /\ existing' \subseteq existing
    BY <1>1, <1>13, ServerStepShape
  <2>3. /\ Busy' = Busy \cup {s} /\ requests'[s] = r
        /\ \A t \in Slots : t # s => requests'[t] = requests[t]
    BY <1>1, <2>1, BusyAfterSet
  <2>4. Alone'
    <3>1. Busy' = Busy
      BY <2>2, <2>3 DEF Busy
    <3>. QED  BY <1>1, <2>1, <2>2, <2>3, <3>1 DEF Alone
  <2>5. FreeSlots'
    BY <1>1, <2>1, <2>3 DEF FreeSlots
  <2>6. AclOK'
    <3>1. SUFFICES ASSUME NEW t \in Slots PROVE Permitted(requests[t])'
      BY DEF AclOK
    <3>2. CASE t = s
      BY <1>1, <1>13, <3>2, ServerPermitted DEF AclOK
    <3>3. CASE t # s
      BY <1>p, <2>2, <2>3, <3>3
    <3>. QED  BY <3>2, <3>3
  <2>. QED  BY <2>4, <2>5, <2>6
<1>14. CASE Others
  <2>1. ~quiet' /\ requests' \in [Slots -> Request]
    BY <1>1, <1>14, OthersShape DEF Others
  <2>2. ASSUME NEW t \in Slots
        PROVE  Permitted(requests[t])' /\ (requests'[t].phase = "free" => requests'[t] = Free)
    <3>1. CASE requests'[t] = requests[t] /\ existing' \subseteq existing
      BY <1>1, <1>p, <3>1 DEF FreeSlots
    <3>2. CASE requests'[t] = [requests[t] EXCEPT !.grown = @ \/ Counted(requests[t])]
      <4>. DEFINE q == requests[t]
      <4>1. q \in Request /\ Permitted(q)
        BY <1>1 DEF AclOK
      <4>2. PICK r : r = requests'[t]
        OBVIOUS
      <4>3. /\ r.phase = q.phase /\ r.rows = q.rows /\ r.pending = q.pending
            /\ r.deleted = q.deleted /\ r.restricted = q.restricted
            /\ r.grown = (q.grown \/ Counted(q))
        BY <3>2, <4>1, <4>2 DEF Request
      <4>4. Permitted(r)'
        BY <4>1, <4>3 DEF Permitted, Untouched, Counted
      <4>5. r.phase = "free" => r = Free
        <5>1. SUFFICES ASSUME r.phase = "free" PROVE r = Free
          OBVIOUS
        <5>2. q = Free /\ ~Counted(Free) /\ Free \in Request
          BY <1>1, <4>3, <5>1, FreeType DEF FreeSlots, Counted, Free
        <5>3. (Free.grown \/ Counted(Free)) = Free.grown
          BY DEF Free, Counted
        <5>4. [Free EXCEPT !.grown = Free.grown] = Free
          BY <5>2 DEF Request
        <5>. QED  BY <3>2, <4>2, <5>2, <5>3, <5>4
      <4>. QED  BY <4>2, <4>4, <4>5
    <3>. QED  BY <1>1, <1>14, <3>1, <3>2, OthersShape
  <2>. QED  BY <2>1, <2>2 DEF Alone, FreeSlots, AclOK
<1>15. CASE UNCHANGED vars
  BY <1>6, <1>15 DEF vars
<1>. QED
  BY <1>7, <1>8, <1>9, <1>10, <1>11, <1>12, <1>13, <1>14, <1>15
  DEF Next, ClientStep, ServerStep, ServerStepOf

LEMMA InitAclInv == Init => AclInv
<1>. SUFFICES ASSUME Init PROVE AclInv
  OBVIOUS
<1>1. TypeOK
  BY InitType
<1>2. \A s \in Slots : requests[s] = Free
  BY DEF Init
<1>3. Busy = {} /\ ~Free.grown
  BY <1>2 DEF Busy, Free
<1>. QED  BY <1>1, <1>2, <1>3, FreePermitted DEF AclInv, Alone, FreeSlots, AclOK

(***************************************************************************)
(* Answers.  Without refreshes the mask is up, and the dialog and the grid  *)
(* at rest, for as long as a request is in flight.                          *)
(***************************************************************************)
Guarded ==
    /\ \A s, t \in Busy : s = t
    /\ Busy # {} => masked /\ ~dialog.open /\ fetching = 0
    /\ fetching > 0 => masked /\ ~dialog.open
    /\ \A s \in Busy : requests[s].phase # "failed" => requests[s].kind = requestType

LEMMA GuardedKept ==
    ASSUME MaxFetches = 0, TypeOK, Guarded, [Next]_vars
    PROVE  Guarded'
<1>1. fetching \in Nat /\ requests \in [Slots -> Request]
  BY DEF TypeOK, Request
<1>2. CASE Select
  BY <1>2 DEF Select, Guarded, Busy
<1>3. ASSUME NEW kind, NEW promised, Send(kind, promised), requestType' = kind,
             dialog' = Closed, fetching' = fetching, Busy = {}, fetching = 0
      PROVE  Guarded'
  <2>. DEFINE r == [Free EXCEPT !.phase = "sent", !.kind = kind, !.sel = sel,
                                !.promised = promised]
  <2>1. PICK s \in Slots : Set(s, r) /\ masked' = TRUE
    BY <1>3 DEF Send
  <2>2. r.phase = "sent" /\ r.kind = kind
    BY DEF Free
  <2>3. Busy' = {s} /\ requests'[s] = r
    <3>. HIDE DEF r
    <3>. QED  BY <1>3, <2>1, <2>2, BusyAfterSet
  <2>4. ~dialog'.open
    BY <1>3 DEF Closed
  <2>. QED  BY <1>3, <2>1, <2>2, <2>3, <2>4 DEF Guarded
<1>4. CASE Execute
  <2>1. /\ ~masked /\ ~dialog.open /\ requestType' = "POST" /\ dialog' = Closed
        /\ fetching' = fetching
    BY <1>4 DEF Execute
  <2>2. Busy = {} /\ fetching = 0
    BY <1>1, <2>1 DEF Guarded
  <2>3. CASE requests' = requests /\ masked' = masked
    <3>1. Busy' = {}
      BY <2>2, <2>3 DEF Busy
    <3>. QED  BY <1>1, <2>1, <2>2, <3>1 DEF Guarded
  <2>4. CASE Send("POST", 0)
    BY <1>3, <2>1, <2>2, <2>4
  <2>. QED  BY <1>4, <2>3, <2>4 DEF Execute
<1>5. CASE Confirm
  <2>1. Busy = {} /\ fetching = 0
    BY <1>1, <1>5 DEF Guarded, Confirm
  <2>. QED  BY <1>3, <1>5, <2>1 DEF Confirm
<1>6. CASE Dismiss
  BY <1>6 DEF Dismiss, Guarded, Busy, Closed
<1>7. CASE Refresh
  BY <1>1, <1>7 DEF Refresh
<1>8. CASE Refreshed
  <2>1. fetching > 0 /\ fetching' = fetching - 1 /\ masked' = (fetching # 1)
        /\ UNCHANGED <<requestType, dialog, requests>>
    BY <1>8 DEF Refreshed
  <2>2. Busy = {} /\ ~dialog.open
    BY <1>1, <2>1 DEF Guarded
  <2>3. Busy' = {} /\ ~dialog'.open
    BY <2>1, <2>2 DEF Busy
  <2>4. fetching' > 0 => masked'
    <3>1. fetching' > 0 => fetching # 1
      BY <1>1, <2>1
    <3>. QED  BY <2>1, <3>1, Zenon
  <2>. QED  BY <2>3, <2>4 DEF Guarded
<1>9. ASSUME NEW s \in Slots, Answer(s) \/ Error(s) PROVE Guarded'
  <2>1. Set(s, Free) /\ s \in Busy
    BY <1>9 DEF Answer, Error, Busy
  <2>2. Busy' = Busy \ {s}
    BY <2>1, BusyAfterSet DEF Free
  <2>3. Busy' = {} /\ fetching = 0 /\ ~dialog.open
    BY <2>1, <2>2 DEF Guarded
  <2>4. CASE fetching' = fetching
    BY <2>3, <2>4 DEF Guarded
  <2>5. CASE ReportSuccess
    BY <2>3, <2>5 DEF Guarded, ReportSuccess
  <2>. QED  BY <1>9, <2>4, <2>5 DEF Answer, Error, AskForConfirmation
<1>10. ASSUME NEW s \in Slots, ServerStepOf(s) PROVE Guarded'
  <2>1. PICK r \in Request :
          /\ Set(s, r) /\ r.phase # "free"
          /\ r.phase # "failed" => /\ r.kind = requests[s].kind
                                   /\ requests[s].phase # "failed"
    BY <1>10, ServerStepShape
  <2>2. requests[s].phase # "free"
        /\ UNCHANGED <<requestType, dialog, masked, fetching>>
    BY <1>10, ServerStepShape
  <2>3. Busy' = Busy /\ s \in Busy /\ requests'[s] = r
        /\ \A t \in Slots : t # s => requests'[t] = requests[t]
    BY <2>1, <2>2, BusyAfterSet DEF Busy
  <2>. QED  BY <2>1, <2>2, <2>3 DEF Guarded
<1>11. CASE Others \/ UNCHANGED vars
  <2>1. UNCHANGED <<requestType, dialog, masked, fetching>>
    BY <1>11, OthersShape DEF vars
  <2>2. ASSUME NEW s \in Slots
        PROVE  requests'[s].phase = requests[s].phase /\ requests'[s].kind = requests[s].kind
    <3>1. requests[s] \in Request
      BY <1>1
    <3>. QED  BY <1>11, <3>1, OthersShape DEF vars, Request
  <2>3. Busy' = Busy
    BY <2>2 DEF Busy
  <2>. QED  BY <2>1, <2>2, <2>3 DEF Guarded, Busy
<1>. QED
  BY <1>2, <1>4, <1>5, <1>6, <1>7, <1>8, <1>9, <1>10, <1>11
  DEF Next, ClientStep, ServerStep, ServerStepOf

LEMMA InitGuarded == Init => Guarded
<1>. SUFFICES ASSUME Init PROVE Guarded
  OBVIOUS
<1>1. Busy = {}
  BY DEF Init, Busy, Free
<1>. QED  BY <1>1 DEF Init, Guarded, Closed

(***************************************************************************)
(* What was confirmed.  In an undisturbed run the selection stays what the  *)
(* records were counted for, as long as a request is in flight or the       *)
(* dialog is open; the DELETE then keeps count of what it has loaded, what  *)
(* waits for the flush and what is deleted, and its pages are those that    *)
(* the rest of what was promised takes.                                    *)
(***************************************************************************)
PagesOf(n) == (n + BatchSize - 1) \div BatchSize

\* What a POST counts of the selection, and what a DELETE may delete.
Wanted == {x \in existing : IsSelected(sel, x)} \cap Deletable

Promised == Least(Cardinality(Wanted), MaxLimit)

\* The records left to delete, once the pending ones are.
Left(r) == Matching(r) \ r.pending

Loaded(r) == r.count + Cardinality(r.rows)

\* A DELETE between its first page and its last.
Paged(r) ==
    /\ r.rows \subseteq Left(r)
    /\ r.phase = "deleting" => r.pending \subseteq Matching(r)
    /\ r.phase = "flushed" => r.pending \cap existing = {}
    /\ r.deleted \cap existing = {}
    /\ r.count = Cardinality(r.deleted)
                 + IF r.phase = "deleting" THEN Cardinality(r.pending) ELSE 0
    /\ r.promised = Least(r.count + Cardinality(Left(r)), MaxLimit)
    /\ Loaded(r) <= r.promised
    /\ r.pages = PagesOf(r.promised - Loaded(r))
    /\ r.pages > 0 => Loaded(r) % BatchSize = 0

AsPromised(r) ==
    /\ r.phase \in {"sent", "counted"} =>
          r.count = 0 /\ r.promised = Least(Cardinality(Matching(r) \cap Deletable), MaxLimit)
    /\ r.phase = "limited" =>
          /\ r.count = 0 /\ r.rows = {} /\ r.pending = {} /\ r.deleted = {}
          /\ r.promised = Least(Cardinality(Matching(r)), MaxLimit)
          /\ r.limited <=> Cardinality(Matching(r)) > MaxLimit
    /\ r.phase \in {"deleting", "flushed"} => Paged(r)
    /\ r.phase = "answered" =>
          /\ r.count = r.promised /\ Cardinality(r.deleted) = r.count
          /\ Matching(r) \cap Deletable = {} \/ r.count = MaxLimit

AsAsked(r) ==
    /\ r.phase \in {"sent", "counted", "answered"}
    /\ r.sel = sel /\ ~r.restricted
    /\ r.phase = "answered" => r.count = Cardinality(Matching(r) \cap Deletable)

Sincere(r) ==
    r.phase \notin {"free", "failed"} =>
        /\ r.kind = requestType
        /\ r.kind = "POST" => AsAsked(r)
        /\ r.kind = "DELETE" => AsPromised(r)

Kept ==
    quiet => /\ \A s \in Slots : Sincere(requests[s])
             /\ dialog.open => requestType = "DELETE" /\ dialog.promised = Promised

LEMMA PagesMath ==
    /\ PagesOf(0) = 0
    /\ \A n \in Nat \ {0} :
          /\ PagesOf(n) \in Nat \ {0}
          /\ n <= BatchSize => PagesOf(n) = 1
          /\ n >= BatchSize => PagesOf(n - BatchSize) = PagesOf(n) - 1
<1>. SUFFICES ASSUME NEW b \in Nat \ {0}
              PROVE  /\ (0 + b - 1) \div b = 0
                     /\ \A n \in Nat \ {0} :
                           /\ (n + b - 1) \div b \in Nat \ {0}
                           /\ n <= b => (n + b - 1) \div b = 1
                           /\ n >= b => (n - b + b - 1) \div b = (n + b - 1) \div b - 1
  BY MassDeleteAssumption DEF PagesOf
<1>1. ASSUME NEW i \in Int, NEW q \in Int, b * q <= i, i < b * (q + 1)
      PROVE  i \div b = q
  <2>. DEFINE p == i \div b
              r == i % b
  <2>1. p \in Int /\ r \in 0 .. (b - 1) /\ i = b * p + r
    OBVIOUS
  <2>. HIDE DEF p, r
  <2>2. ~(p < q)
    <3>1. SUFFICES ASSUME p + 1 <= q PROVE FALSE
      BY <2>1
    <3>2. b * (p + 1) <= b * q
      BY <2>1, <3>1
    <3>3. b * (p + 1) = b * p + b
      BY <2>1
    <3>. QED  BY <1>1, <2>1, <3>2, <3>3
  <2>3. ~(p > q)
    <3>1. SUFFICES ASSUME q + 1 <= p PROVE FALSE
      BY <2>1
    <3>2. b * (q + 1) <= b * p
      BY <2>1, <3>1
    <3>. QED  BY <1>1, <2>1, <3>2
  <2>. QED  BY <2>1, <2>2, <2>3 DEF p
<1>2. (0 + b - 1) \div b = 0
  BY <1>1
<1>3. ASSUME NEW n \in Nat \ {0}
      PROVE  /\ (n + b - 1) \div b \in Nat \ {0}
             /\ n <= b => (n + b - 1) \div b = 1
             /\ n >= b => (n - b + b - 1) \div b = (n + b - 1) \div b - 1
  <2>. DEFINE p == (n + b - 1) \div b
              r == (n + b - 1) % b
  <2>1. p \in Int /\ r \in 0 .. (b - 1) /\ n + b - 1 = b * p + r
    OBVIOUS
  <2>. HIDE DEF p, r
  <2>2. p >= 1
    <3>1. SUFFICES ASSUME p <= 0 PROVE FALSE
      BY <2>1
    <3>2. b * p <= 0
      BY <2>1, <3>1
    <3>. QED  BY <2>1, <3>2
  <2>3. n <= b => p = 1
    <3>1. SUFFICES ASSUME n <= b, p >= 2 PROVE FALSE
      BY <2>1, <2>2
    <3>2. b * p >= b * 2
      BY <2>1, <3>1
    <3>. QED  BY <2>1, <3>1, <3>2
  <2>4. n >= b => (n - b + b - 1) \div b = p - 1
    <3>1. b * (p - 1) = b * p - b
      BY <2>1
    <3>2. b * (p - 1) <= n - b + b - 1 /\ n - b + b - 1 < b * (p - 1 + 1)
      BY <2>1, <3>1
    <3>. QED  BY <1>1, <2>1, <3>2
  <2>. QED  BY <2>1, <2>2, <2>3, <2>4 DEF p
<1>. QED  BY <1>2, <1>3

\* Whole batches: the limit is one more batch away, or none.
LEMMA BatchMath ==
    ASSUME NEW c \in Nat, c % BatchSize = 0
    PROVE  /\ (c + BatchSize) % BatchSize = 0
           /\ c < MaxLimit => c + BatchSize <= MaxLimit
<1>. SUFFICES ASSUME NEW b \in Nat \ {0}, NEW m \in Nat, c % b = 0, m % b = 0
              PROVE  /\ (c + b) % b = 0
                     /\ c < m => c + b <= m
  BY MassDeleteAssumption
<1>. DEFINE q == c \div b
            p == m \div b
            s == (c + b) \div b
            r == (c + b) % b
<1>1. q \in Int /\ c = b * q /\ p \in Int /\ m = b * p
  OBVIOUS
<1>2. s \in Int /\ r \in 0 .. (b - 1) /\ c + b = b * s + r
  OBVIOUS
<1>. HIDE DEF q, p, s, r
<1>3. c < m => c + b <= m
  <2>1. SUFFICES ASSUME c < m PROVE c + b <= m
    OBVIOUS
  <2>2. q < p
    <3>1. SUFFICES ASSUME p <= q PROVE FALSE
      BY <1>1
    <3>2. b * p <= b * q
      BY <1>1, <3>1
    <3>. QED  BY <1>1, <2>1, <3>2
  <2>3. b * (q + 1) <= b * p /\ b * (q + 1) = b * q + b
    BY <1>1, <2>2
  <2>. QED  BY <1>1, <2>3
<1>4. r = 0
  <2>1. b * (q + 1) = b * q + b
    BY <1>1
  <2>2. r = b * (q + 1) - b * s
    BY <1>1, <1>2, <2>1
  <2>3. r = b * (q + 1 - s)
    BY <1>1, <1>2, <2>2
  <2>4. ~(q + 1 - s >= 1)
    <3>1. SUFFICES ASSUME q + 1 - s >= 1 PROVE FALSE
      OBVIOUS
    <3>2. b * (q + 1 - s) >= b * 1
      BY <1>1, <1>2, <3>1
    <3>. QED  BY <1>2, <2>3, <3>2
  <2>5. ~(q + 1 - s <= -1)
    <3>1. SUFFICES ASSUME q + 1 - s <= -1 PROVE FALSE
      OBVIOUS
    <3>2. b * (q + 1 - s) <= b * (-1)
      BY <1>1, <1>2, <3>1
    <3>. QED  BY <1>2, <2>3, <3>2
  <2>. QED  BY <1>1, <1>2, <2>3, <2>4, <2>5
<1>. QED  BY <1>3, <1>4 DEF r

\* One page more, of those that are left.
LEMMA PageMath ==
    ASSUME NEW c \in Nat, NEW left \in Nat, NEW l \in Nat, c % BatchSize = 0,
           l = Least(c + left, MaxLimit), c < l
    PROVE  LET n == Least(BatchSize, left)
           IN  /\ n > 0 /\ c + n <= l
               /\ PagesOf(l - (c + n)) = PagesOf(l - c) - 1
               /\ PagesOf(l - c) - 1 > 0 => (c + n) % BatchSize = 0
<1>0. BatchSize \in Nat \ {0} /\ MaxLimit \in Nat \ {0}
  BY MassDeleteAssumption
<1>1. (c + BatchSize) % BatchSize = 0 /\ (c < MaxLimit => c + BatchSize <= MaxLimit)
  BY BatchMath
<1>2. l - c \in Nat \ {0}
  OBVIOUS
<1>3. CASE BatchSize <= left
  <2>1. Least(BatchSize, left) = BatchSize
    BY <1>3 DEF Least
  <2>2. c + BatchSize <= l
    BY <1>0, <1>1, <1>3 DEF Least
  <2>3. l - (c + BatchSize) = (l - c) - BatchSize /\ l - c >= BatchSize
    BY <1>0, <2>2
  <2>4. PagesOf((l - c) - BatchSize) = PagesOf(l - c) - 1
    BY <1>2, <2>3, PagesMath
  <2>. QED  BY <1>0, <1>1, <2>1, <2>2, <2>3, <2>4
<1>4. CASE ~(BatchSize <= left)
  <2>1. Least(BatchSize, left) = left
    BY <1>4 DEF Least
  <2>2. l = c + left /\ l - c <= BatchSize
    BY <1>0, <1>1, <1>4 DEF Least
  <2>3. PagesOf(l - c) = 1 /\ l - (c + left) = 0 /\ PagesOf(0) = 0
    BY <1>2, <2>2, PagesMath
  <2>. QED  BY <1>0, <2>1, <2>2, <2>3
<1>. QED  BY <1>0, <1>3, <1>4

\* Records leave the ones that are left for the pending ones, and those the database.
LEMMA PagedRecords ==
    ASSUME existing \subseteq Records, NEW r \in Request, Paged(r)
    PROVE  /\ IsFiniteSet(Left(r)) /\ Cardinality(Left(r)) \in Nat
           /\ IsFiniteSet(r.rows) /\ Cardinality(r.rows) \in Nat
           /\ IsFiniteSet(r.pending) /\ Cardinality(r.pending) \in Nat
           /\ IsFiniteSet(r.deleted) /\ Cardinality(r.deleted) \in Nat
           /\ Cardinality(r.rows) <= Cardinality(Left(r))
<1>1. /\ IsFiniteSet(Records) /\ Left(r) \subseteq Records /\ r.rows \subseteq Records
      /\ r.pending \subseteq Records /\ r.deleted \subseteq Records
  BY MassDeleteAssumption DEF Left, Matching, Request
<1>2. /\ IsFiniteSet(Left(r)) /\ IsFiniteSet(r.rows) /\ IsFiniteSet(r.pending)
      /\ IsFiniteSet(r.deleted)
  BY <1>1, FS_Subset
<1>3. Cardinality(r.rows) <= Cardinality(Left(r))
  BY <1>2, FS_Subset DEF Paged
<1>. QED  BY <1>2, <1>3, FS_CardinalityType

LEMMA PagedLoad ==
    ASSUME TypeOK, NEW s \in Slots, Paged(requests[s]), LoadPage(s)
    PROVE  \E r \in Request : Set(s, r) /\ r.phase = "deleting" /\ r.kind = requests[s].kind
                              /\ Paged(r)'
<1>. DEFINE q == requests[s]
<1>1. /\ q \in Request /\ existing \subseteq Records /\ existing' = existing
      /\ q.phase = "deleting" /\ q.rows = {} /\ q.pages > 0 /\ ~Full(q)
  BY DEF TypeOK, Request, LoadPage
<1>2. PICK rows \in SUBSET Matching(q) :
        /\ Cardinality(rows) = Least(BatchSize, Cardinality(Matching(q)))
        /\ Set(s, [q EXCEPT !.rows = rows, !.pages = IF rows = {} THEN 0 ELSE @ - 1])
  BY DEF LoadPage
<1>. DEFINE n == Cardinality(Matching(q))
            m == Least(BatchSize, n)
            c == q.count
<1>3. Cardinality(q.rows) = 0 /\ c \in Nat /\ q.promised \in Nat /\ n \in Nat
  BY <1>1, FS_EmptySet, MatchingFinite DEF Request
<1>4. c <= q.promised /\ q.pages = PagesOf(q.promised - c) /\ c % BatchSize = 0
  BY <1>1, <1>3 DEF Paged, Loaded
<1>5. q.pending = {}
  BY <1>1, <1>4 DEF Full
<1>6. Left(q) = Matching(q) /\ q.promised = Least(c + n, MaxLimit)
  BY <1>5 DEF Left, Paged
<1>7. c < q.promised
  <2>1. PagesOf(0) = 0
    BY PagesMath
  <2>2. c # q.promised
    <3>1. SUFFICES ASSUME c = q.promised PROVE FALSE
      OBVIOUS
    <3>2. q.promised - c = 0
      BY <1>3, <3>1
    <3>. QED  BY <1>1, <1>4, <2>1, <3>2
  <2>. QED  BY <1>3, <1>4, <2>2
<1>. HIDE DEF n
<1>8. /\ m > 0 /\ c + m <= q.promised
      /\ PagesOf(q.promised - (c + m)) = PagesOf(q.promised - c) - 1
      /\ PagesOf(q.promised - c) - 1 > 0 => (c + m) % BatchSize = 0
  BY <1>3, <1>4, <1>6, <1>7, PageMath
<1>9. rows # {} /\ rows \subseteq Records
  <2>1. Cardinality(rows) # 0
    BY <1>2, <1>3, <1>8 DEF n
  <2>2. rows # {}
    BY <2>1, FS_EmptySet
  <2>3. rows \subseteq existing
    BY DEF Matching
  <2>. QED  BY <1>1, <2>2, <2>3
<1>10. PICK r : r = [q EXCEPT !.rows = rows, !.pages = q.pages - 1] /\ Set(s, r)
  BY <1>2, <1>9
<1>11. r \in Request /\ r.rows = rows /\ r.pages = q.pages - 1 /\ r.phase = "deleting"
       /\ r.kind = q.kind /\ r.count = c /\ r.promised = q.promised /\ r.pending = q.pending
       /\ r.deleted = q.deleted /\ r.sel = q.sel /\ r.restricted = q.restricted
  <2>1. q.pages - 1 \in Nat /\ rows \in SUBSET Records
    BY <1>1, <1>9 DEF Request
  <2>. HIDE DEF q
  <2>. QED  BY <1>1, <1>10, <2>1 DEF Request
<1>12. /\ Matching(r)' = Matching(q) /\ Left(r)' = Left(q)
  BY <1>1, <1>11 DEF Matching, Left
<1>13. Cardinality(rows) = m /\ Loaded(r) = c + m
  BY <1>2, <1>11 DEF n, Loaded
<1>14. Paged(r)'
  <2>1. rows \subseteq Left(q)
    BY <1>6
  <2>2. /\ q.pending \subseteq Matching(q) /\ q.deleted \cap existing = {}
        /\ q.count = Cardinality(q.deleted) + Cardinality(q.pending)
        /\ q.promised = Least(q.count + Cardinality(Left(q)), MaxLimit)
    BY <1>1 DEF Paged
  <2>. HIDE DEF m, c
  <2>3. /\ r.pages = PagesOf(r.promised - Loaded(r)) /\ Loaded(r) <= r.promised
        /\ r.pages > 0 => Loaded(r) % BatchSize = 0
    BY <1>4, <1>8, <1>11, <1>13
  <2>. QED  BY <1>1, <1>11, <1>12, <2>1, <2>2, <2>3 DEF Paged, Loaded, c
<1>. QED  BY <1>10, <1>11, <1>14

LEMMA PagedRemove ==
    ASSUME TypeOK, NEW s \in Slots, Paged(requests[s]), Remove(s)
    PROVE  \E r \in Request : Set(s, r) /\ r.phase = "deleting" /\ r.kind = requests[s].kind
                              /\ Paged(r)'
<1>. DEFINE q == requests[s]
<1>1. /\ q \in Request /\ existing \subseteq Records /\ existing' = existing
      /\ q.phase = "deleting"
  BY DEF TypeOK, Request, Remove
<1>2. PICK x \in q.rows :
        Set(s, [q EXCEPT !.rows = @ \ {x}, !.pending = @ \cup {x}, !.count = @ + 1])
  BY DEF Remove
<1>r. PICK r : /\ r = [q EXCEPT !.rows = @ \ {x}, !.pending = @ \cup {x}, !.count = @ + 1]
               /\ Set(s, r)
  BY <1>2
<1>3. /\ q.rows \ {x} \in SUBSET Records /\ q.pending \cup {x} \in SUBSET Records
      /\ q.count + 1 \in Nat
  BY <1>1, <1>2 DEF Request
<1>4. r \in Request /\ r.rows = q.rows \ {x} /\ r.pending = q.pending \cup {x}
      /\ r.count = q.count + 1 /\ r.phase = "deleting" /\ r.kind = q.kind
      /\ r.pages = q.pages /\ r.promised = q.promised /\ r.deleted = q.deleted
      /\ r.sel = q.sel /\ r.restricted = q.restricted
  BY <1>1, <1>3, <1>r DEF Request, Phases
<1>5. Matching(r)' = Matching(q) /\ Left(r)' = Left(q) \ {x}
  BY <1>1, <1>4 DEF Matching, Left
<1>6. x \in Left(q) /\ x \notin q.pending /\ q.rows \subseteq Left(q)
  BY <1>2 DEF Paged, Left
<1>7. /\ IsFiniteSet(Left(q)) /\ Cardinality(Left(q)) \in Nat
      /\ IsFiniteSet(q.rows) /\ Cardinality(q.rows) \in Nat
      /\ IsFiniteSet(q.pending) /\ Cardinality(q.pending) \in Nat
      /\ Cardinality(q.deleted) \in Nat
  BY <1>1, PagedRecords
<1>8. /\ Cardinality(Left(q) \ {x}) = Cardinality(Left(q)) - 1
      /\ Cardinality(q.rows \ {x}) = Cardinality(q.rows) - 1
      /\ Cardinality(q.pending \cup {x}) = Cardinality(q.pending) + 1
  BY <1>2, <1>6, <1>7, FS_RemoveElement, FS_AddElement
<1>9. q.count \in Nat
  BY <1>1 DEF Request
<1>10. Loaded(r) = Loaded(q)
  BY <1>4, <1>7, <1>8, <1>9 DEF Loaded
<1>11. /\ q.pending \subseteq Matching(q) /\ q.deleted \cap existing = {}
       /\ q.count = Cardinality(q.deleted) + Cardinality(q.pending)
       /\ q.promised = Least(q.count + Cardinality(Left(q)), MaxLimit)
       /\ Loaded(q) <= q.promised /\ q.pages = PagesOf(q.promised - Loaded(q))
       /\ q.pages > 0 => Loaded(q) % BatchSize = 0
  BY <1>1 DEF Paged
<1>12. /\ r.count = Cardinality(r.deleted) + Cardinality(r.pending)
       /\ r.count + Cardinality(Left(q) \ {x}) = q.count + Cardinality(Left(q))
  BY <1>4, <1>7, <1>8, <1>9, <1>11
<1>13. Paged(r)'
  <2>1. r.rows \subseteq Left(q) \ {x} /\ r.pending \subseteq Matching(q)
    BY <1>4, <1>6, <1>11 DEF Left
  <2>2. Loaded(r)' = Loaded(q)
    BY <1>10 DEF Loaded
  <2>. QED  BY <1>1, <1>4, <1>5, <1>11, <1>12, <2>1, <2>2 DEF Paged
<1>. QED  BY <1>r, <1>4, <1>13

LEMMA PagedFlush ==
    ASSUME TypeOK, NEW s \in Slots, Paged(requests[s]), Flush(s)
    PROVE  \E r \in Request : Set(s, r) /\ r.phase = "flushed" /\ r.kind = requests[s].kind
                              /\ Paged(r)'
<1>. DEFINE q == requests[s]
<1>1. /\ q \in Request /\ existing \subseteq Records /\ existing' = existing \ q.pending
      /\ q.phase = "deleting"
  BY DEF TypeOK, Request, Flush
<1>r. PICK r : /\ r = [q EXCEPT !.phase = "flushed", !.deleted = @ \cup (q.pending \cap existing)]
               /\ Set(s, r)
  BY DEF Flush
<1>2. r \in Request /\ r.rows = q.rows /\ r.pending = q.pending
      /\ r.count = q.count /\ r.phase = "flushed" /\ r.kind = q.kind
      /\ r.pages = q.pages /\ r.promised = q.promised
      /\ r.deleted = q.deleted \cup (q.pending \cap existing)
      /\ r.sel = q.sel /\ r.restricted = q.restricted
  BY <1>1, <1>r DEF Request, Phases
<1>3. /\ q.rows \subseteq Left(q)
      /\ q.pending \subseteq Matching(q) /\ q.deleted \cap existing = {}
      /\ q.count = Cardinality(q.deleted) + Cardinality(q.pending)
      /\ q.promised = Least(q.count + Cardinality(Left(q)), MaxLimit)
      /\ Loaded(q) <= q.promised /\ q.pages = PagesOf(q.promised - Loaded(q))
      /\ q.pages > 0 => Loaded(q) % BatchSize = 0
  BY <1>1 DEF Paged
<1>4. q.pending \subseteq existing
  BY <1>3 DEF Matching
<1>5. Left(r)' = Left(q) /\ r.deleted = q.deleted \cup q.pending /\ q.deleted \cap q.pending = {}
  BY <1>1, <1>2, <1>3, <1>4 DEF Left, Matching
<1>6. Cardinality(q.deleted \cup q.pending) = Cardinality(q.deleted) + Cardinality(q.pending)
  <2>1. /\ IsFiniteSet(q.deleted) /\ IsFiniteSet(q.pending)
        /\ Cardinality(q.deleted) \in Nat /\ Cardinality(q.pending) \in Nat
    BY <1>1, PagedRecords
  <2>2. Cardinality(q.deleted \cup q.pending)
          = Cardinality(q.deleted) + Cardinality(q.pending) - Cardinality(q.deleted \cap q.pending)
    BY <2>1, FS_Union
  <2>. QED  BY <1>5, <2>1, <2>2, FS_EmptySet
<1>7. q.count \in Nat /\ Loaded(r)' = Loaded(q)
  BY <1>1, <1>2 DEF Request, Loaded
<1>8. Paged(r)'
  <2>1. r.count = Cardinality(r.deleted) + 0
    <3>1. Cardinality(r.deleted) = Cardinality(q.deleted \cup q.pending)
      BY <1>5
    <3>. QED  BY <1>2, <1>3, <1>6, <1>7, <3>1
  <2>2. r.pending \cap existing' = {} /\ r.deleted \cap existing' = {}
    BY <1>1, <1>2, <1>3, <1>5
  <2>. QED  BY <1>1, <1>2, <1>3, <1>5, <1>7, <2>1, <2>2 DEF Paged
<1>. QED  BY <1>r, <1>2, <1>8

LEMMA PagedAnnounce ==
    ASSUME TypeOK, NEW s \in Slots, Paged(requests[s]), Announce(s)
    PROVE  \E r \in Request : Set(s, r) /\ r.phase = "deleting" /\ r.kind = requests[s].kind
                              /\ Paged(r)'
<1>. DEFINE q == requests[s]
<1>1. /\ q \in Request /\ existing' = existing /\ q.phase = "flushed"
  BY DEF TypeOK, Request, Announce
<1>r. PICK r : r = [q EXCEPT !.phase = "deleting", !.pending = {}] /\ Set(s, r)
  BY DEF Announce
<1>2. r \in Request /\ r.rows = q.rows /\ r.pending = {}
      /\ r.count = q.count /\ r.phase = "deleting" /\ r.kind = q.kind
      /\ r.pages = q.pages /\ r.promised = q.promised /\ r.deleted = q.deleted
      /\ r.sel = q.sel /\ r.restricted = q.restricted
  BY <1>1, <1>r DEF Request, Phases
<1>3. /\ q.rows \subseteq Left(q)
      /\ q.pending \cap existing = {} /\ q.deleted \cap existing = {}
      /\ q.count = Cardinality(q.deleted) + 0
      /\ q.promised = Least(q.count + Cardinality(Left(q)), MaxLimit)
      /\ Loaded(q) <= q.promised /\ q.pages = PagesOf(q.promised - Loaded(q))
      /\ q.pages > 0 => Loaded(q) % BatchSize = 0
  BY <1>1 DEF Paged
<1>4. Left(r)' = Left(q)
  BY <1>1, <1>2, <1>3 DEF Left, Matching
<1>5. Cardinality(r.pending) = 0 /\ Loaded(r)' = Loaded(q)
  BY <1>2, FS_EmptySet DEF Loaded
<1>6. r.count = Cardinality(r.deleted) + Cardinality(r.pending)
  BY <1>2, <1>3, <1>5
<1>7. r.pending \subseteq Matching(r)' /\ r.deleted \cap existing' = {}
  BY <1>1, <1>2, <1>3
<1>8. Paged(r)'
  BY <1>2, <1>3, <1>4, <1>5, <1>6, <1>7 DEF Paged
<1>. QED  BY <1>2, <1>8, <1>r

\* What a step of the server makes of the only request.
LEMMA ServerSincere ==
    ASSUME AclApplied, TypeOK, NEW s \in Slots, ServerStepOf(s),
           Permitted(requests[s]), ~requests[s].grown, Sincere(requests[s])
    PROVE  Sincere(requests[s])'
<1>. DEFINE q == requests[s]
<1>1. /\ requests \in [Slots -> Request] /\ q \in Request /\ existing \subseteq Records
      /\ Matching(q) \subseteq Records
  BY MatchingFinite DEF TypeOK, Request
<1>2. /\ q.phase # "free" /\ UNCHANGED <<sel, requestType>>
  BY ServerStepShape
<1>3. ASSUME NEW r, Set(s, r), Sincere(r)' PROVE Sincere(requests[s])'
  <2>1. requests'[s] = r
    BY <1>1, <1>3 DEF Set
  <2>. QED  BY <1>3, <2>1
<1>4. ASSUME Set(s, [Free EXCEPT !.phase = "failed"]) PROVE Sincere(requests[s])'
  <2>1. Sincere([Free EXCEPT !.phase = "failed"])'
    BY DEF Sincere, Free
  <2>. QED  BY <1>3, <1>4, <2>1
<1>5. CASE CountSelected(s)
  <2>1. q.phase = "sent" /\ existing' = existing
    BY <1>5 DEF CountSelected
  <2>2. CASE NothingSelected(q.sel)
    BY <1>4, <1>5, <2>2 DEF CountSelected
  <2>3. CASE ~NothingSelected(q.sel)
    <3>1. PICK r : /\ r = [q EXCEPT !.phase = "counted", !.selected = Cardinality(Matching(q))]
                   /\ Set(s, r)
      BY <1>5, <2>3 DEF CountSelected
    <3>2. /\ r.phase = "counted" /\ r.sel = q.sel /\ r.restricted = q.restricted
          /\ r.kind = q.kind /\ r.count = q.count /\ r.promised = q.promised
      BY <1>1, <3>1 DEF Request
    <3>3. Matching(r)' = Matching(q)
      BY <2>1, <3>2 DEF Matching
    <3>4. Sincere(r)'
      BY <1>2, <2>1, <3>2, <3>3 DEF Sincere, AsAsked, AsPromised
    <3>. QED  BY <1>3, <3>1, <3>4
  <2>. QED  BY <2>2, <2>3
<1>6. CASE CountDeletable(s)
  <2>. DEFINE n == Cardinality(Matching(q) \cap Deletable)
  <2>1. q.phase = "counted" /\ existing' = existing /\ Untouched(q)
    BY <1>6 DEF CountDeletable, Permitted
  <2>2. CASE q.kind = "POST"
    <3>1. PICK r : r = [q EXCEPT !.phase = "answered", !.selected = 0, !.count = n] /\ Set(s, r)
      BY <1>6, <2>2 DEF CountDeletable
    <3>2. /\ r.phase = "answered" /\ r.sel = q.sel /\ r.restricted = q.restricted
          /\ r.kind = q.kind /\ r.count = n
      BY <1>1, <3>1 DEF Request
    <3>3. Matching(r)' = Matching(q)
      BY <2>1, <3>2 DEF Matching
    <3>4. Sincere(r)'
      BY <1>2, <2>1, <2>2, <3>2, <3>3 DEF Sincere, AsAsked
    <3>. QED  BY <1>3, <3>1, <3>4
  <2>3. CASE q.kind # "POST"
    <3>1. PICK r : /\ r = [q EXCEPT !.phase = "limited", !.selected = 0,
                                    !.restricted = AclApplied /\ q.selected # n,
                                    !.limited = n > MaxLimit]
                   /\ Set(s, r)
      BY <1>6, <2>3 DEF CountDeletable
    <3>2. /\ r.phase = "limited" /\ r.sel = q.sel /\ r.rows = q.rows /\ r.pending = q.pending
          /\ r.deleted = q.deleted
          /\ r.kind = q.kind /\ r.count = q.count /\ r.promised = q.promised
      BY <1>1, <3>1 DEF Request
    <3>3. r.restricted = (AclApplied /\ q.selected # n) /\ r.limited = (n > MaxLimit)
      BY <1>1, <3>1, Zenon DEF Request
    <3>4. Matching(r)' = Matching(q) \cap Deletable
      <4>0. ~q.restricted
        BY <2>1 DEF Untouched
      <4>1. CASE q.selected # n
        BY <2>1, <3>2, <3>3, <4>0, <4>1 DEF Matching
      <4>2. CASE q.selected = n
        <5>1. Matching(q) \subseteq Deletable
          BY <1>1, <2>1, <4>2, EqualCounts DEF Permitted
        <5>. QED  BY <2>1, <3>2, <3>3, <4>0, <4>2, <5>1 DEF Matching
      <4>. QED  BY <4>1, <4>2
    <3>5. q.kind = requestType /\ q.kind = "DELETE" /\ q.count = 0 /\ q.promised = Least(n, MaxLimit)
      BY <1>1, <2>1, <2>3 DEF Sincere, AsPromised, Request
    <3>6. r.limited <=> Cardinality(Matching(r)') > MaxLimit
      BY <3>3, <3>4, Zenon
    <3>7. AsPromised(r)'
      BY <2>1, <3>2, <3>4, <3>5, <3>6 DEF AsPromised, Untouched
    <3>8. Sincere(r)'
      BY <1>2, <3>2, <3>5, <3>7 DEF Sincere
    <3>. QED  BY <1>3, <3>1, <3>8
  <2>. QED  BY <2>2, <2>3
\* From here on the request is a DELETE.
<1>7. q.phase \in {"limited", "deleting", "flushed"} =>
         q.kind = requestType /\ q.kind = "DELETE" /\ AsPromised(q)
  BY <1>1 DEF Sincere, AsAsked, Request
<1>8. ASSUME q.phase \in {"limited", "deleting", "flushed"},
             NEW r, Set(s, r), r.kind = q.kind, r.phase \in {"deleting", "flushed"}, Paged(r)'
      PROVE  Sincere(requests[s])'
  <2>1. Sincere(r)'
    BY <1>2, <1>7, <1>8 DEF Sincere, AsPromised
  <2>. QED  BY <1>3, <1>8, <2>1
<1>9. CASE CountPages(s)
  <2>. DEFINE found == Cardinality(Matching(q))
              results == IF q.limited THEN Least(found, MaxLimit) ELSE found
  <2>1. /\ q.phase = "limited" /\ existing' = existing
        /\ q.count = 0 /\ q.rows = {} /\ q.pending = {} /\ q.deleted = {}
        /\ q.promised = Least(found, MaxLimit)
        /\ q.limited <=> found > MaxLimit
    BY <1>7, <1>9 DEF CountPages, AsPromised
  <2>2. PICK r : r = [q EXCEPT !.phase = "deleting", !.pages = PagesOf(results)] /\ Set(s, r)
    BY <1>9 DEF CountPages, PagesOf
  <2>3. found \in Nat /\ MaxLimit \in Nat
    BY <1>1, MatchingFinite, MassDeleteAssumption
  <2>4. results = q.promised /\ q.promised \in Nat
    BY <2>1, <2>3 DEF Least
  <2>. HIDE DEF results
  <2>5. /\ r.phase = "deleting" /\ r.kind = q.kind /\ r.sel = q.sel /\ r.restricted = q.restricted
        /\ r.count = 0 /\ r.rows = {} /\ r.pending = {} /\ r.deleted = {}
        /\ r.promised = q.promised /\ r.pages = PagesOf(q.promised)
    BY <1>1, <2>1, <2>2, <2>4 DEF Request
  <2>6. Matching(r)' = Matching(q) /\ Left(r)' = Matching(q)
    BY <2>1, <2>5 DEF Matching, Left
  <2>7. Cardinality({}) = 0
    BY FS_EmptySet
  <2>8. Loaded(r) = 0 /\ 0 % BatchSize = 0
    BY <2>5, <2>7, MassDeleteAssumption DEF Loaded
  <2>9. /\ q.promised - 0 = q.promised /\ 0 + found = found
        /\ r.count = Cardinality(r.deleted) + Cardinality(r.pending)
    BY <2>3, <2>4, <2>5, <2>7
  <2>10. Paged(r)'
    <3>1. r.promised = Least(r.count + found, MaxLimit)
      BY <2>1, <2>5, <2>9
    <3>2. Loaded(r)' = 0 /\ r.pages = PagesOf(r.promised - 0) /\ 0 <= r.promised
      BY <2>4, <2>5, <2>8, <2>9 DEF Loaded
    <3>. QED  BY <2>5, <2>6, <2>8, <2>9, <3>1, <3>2 DEF Paged
  <2>. QED  BY <1>8, <2>1, <2>2, <2>5, <2>10
<1>10. CASE LoadPage(s)
  <2>1. q.phase = "deleting" /\ Paged(q)
    BY <1>7, <1>10 DEF LoadPage, AsPromised
  <2>. QED  BY <1>8, <1>10, <2>1, PagedLoad
<1>11. CASE Remove(s)
  <2>1. q.phase = "deleting" /\ Paged(q)
    BY <1>7, <1>11 DEF Remove, AsPromised
  <2>. QED  BY <1>8, <1>11, <2>1, PagedRemove
<1>12. CASE Flush(s)
  <2>1. q.phase = "deleting" /\ Paged(q)
    BY <1>7, <1>12 DEF Flush, AsPromised
  <2>. QED  BY <1>8, <1>12, <2>1, PagedFlush
<1>13. CASE Announce(s)
  <2>1. q.phase = "flushed" /\ Paged(q)
    BY <1>7, <1>13 DEF Announce, AsPromised
  <2>. QED  BY <1>8, <1>13, <2>1, PagedAnnounce
<1>14. CASE Respond(s)
  <2>1. /\ q.phase = "deleting" /\ existing' = existing
        /\ q.rows = {} /\ q.pages = 0 /\ q.pending = {} /\ Paged(q)
    BY <1>7, <1>14 DEF Respond, AsPromised, Done
  <2>2. PICK r : r = [q EXCEPT !.phase = "answered"] /\ Set(s, r)
    BY <1>14 DEF Respond
  <2>3. /\ r.phase = "answered" /\ r.kind = q.kind /\ r.sel = q.sel /\ r.restricted = q.restricted
        /\ r.count = q.count /\ r.promised = q.promised /\ r.deleted = q.deleted
    BY <1>1, <2>2 DEF Request
  <2>4. /\ q.count \in Nat /\ q.promised \in Nat /\ MaxLimit \in Nat
        /\ Cardinality(Left(q)) \in Nat /\ Cardinality(q.deleted) \in Nat
        /\ IsFiniteSet(Left(q))
    BY <1>1, <2>1, PagedRecords, MassDeleteAssumption DEF Request
  <2>5. Cardinality({}) = 0
    BY FS_EmptySet
  <2>6. /\ q.count = Cardinality(q.deleted) /\ Loaded(q) = q.count
        /\ q.promised = Least(q.count + Cardinality(Left(q)), MaxLimit)
        /\ q.count <= q.promised /\ PagesOf(q.promised - q.count) = 0
    BY <2>1, <2>4, <2>5 DEF Paged, Loaded
  <2>7. q.count = q.promised
    <3>1. SUFFICES ASSUME q.count # q.promised PROVE FALSE
      OBVIOUS
    <3>2. q.promised - q.count \in Nat \ {0}
      BY <2>4, <2>6, <3>1
    <3>3. PagesOf(q.promised - q.count) \in Nat \ {0}
      BY <3>2, PagesMath
    <3>. QED  BY <2>6, <3>3
  <2>8. Cardinality(Left(q)) = 0 \/ q.count = MaxLimit
    BY <2>4, <2>6, <2>7 DEF Least
  <2>9. Left(q) = {} \/ q.count = MaxLimit
    BY <2>4, <2>8, FS_EmptySet
  <2>10. Matching(r)' = Left(q)
    BY <2>1, <2>3 DEF Matching, Left
  <2>11. Sincere(r)'
    BY <1>2, <1>7, <2>1, <2>3, <2>6, <2>7, <2>9, <2>10 DEF Sincere, AsPromised
  <2>. QED  BY <1>3, <2>2, <2>11
<1>15. CASE Die(s)
  BY <1>4, <1>15 DEF Die
<1>. QED
  BY <1>5, <1>6, <1>9, <1>10, <1>11, <1>12, <1>13, <1>14, <1>15 DEF ServerStepOf

LEMMA KeptKept == AclApplied /\ AclInv /\ Kept /\ [Next]_vars => Kept'
<1>. SUFFICES ASSUME AclApplied, AclInv, Kept, [Next]_vars PROVE Kept'
  OBVIOUS
<1>1. TypeOK /\ Alone /\ FreeSlots /\ AclOK
  BY DEF AclInv
<1>2. Sincere(Free)' /\ Sincere(Free)
  BY DEF Sincere, Free
\* A request is sent when there is none, for the selection as it is.
<1>3. ASSUME NEW kind \in {"POST", "DELETE"}, NEW promised, Send(kind, promised),
             quiet' => Busy = {}, UNCHANGED <<existing, sel>>, requestType' = kind,
             dialog' = Closed, quiet' /\ kind = "DELETE" => promised = Promised
      PROVE  Kept'
  <2>0. PICK s \in Slots \ Busy :
          Set(s, [Free EXCEPT !.phase = "sent", !.kind = kind, !.sel = sel,
                              !.promised = promised])
    BY <1>3 DEF Send
  <2>1. PICK r :
          /\ r = [Free EXCEPT !.phase = "sent", !.kind = kind, !.sel = sel,
                              !.promised = promised]
          /\ Set(s, r)
    BY <2>0
  <2>2. /\ r.phase = "sent" /\ r.kind = kind /\ r.sel = sel /\ ~r.restricted /\ r.count = 0
        /\ r.promised = promised
    BY <2>1 DEF Free
  <2>3. requests'[s] = r /\ \A t \in Slots : t # s => requests'[t] = requests[t]
    BY <1>1, <2>1, BusyAfterSet
  <2>4. SUFFICES ASSUME quiet' PROVE \A t \in Slots : Sincere(requests[t])'
    BY <1>3 DEF Kept, Closed
  <2>5. Sincere(r)'
    <3>1. Matching(r)' \cap Deletable = Wanted
      BY <1>3, <2>2 DEF Matching, Wanted
    <3>2. AsAsked(r)'
      BY <1>3, <2>2 DEF AsAsked
    <3>3. kind = "DELETE" => AsPromised(r)'
      BY <1>3, <2>2, <2>4, <3>1 DEF AsPromised, Promised
    <3>. QED  BY <1>3, <2>2, <3>2, <3>3 DEF Sincere
  <2>6. ASSUME NEW t \in Slots, t # s PROVE Sincere(requests[t])'
    <3>1. requests'[t] = Free
      BY <1>1, <1>3, <2>3, <2>4, <2>6 DEF FreeSlots, Busy
    <3>. QED  BY <1>2, <3>1
  <2>. QED  BY <2>3, <2>5, <2>6
\* Every request is as it was, and the selection too if that matters.
<1>4. ASSUME requests' = requests, existing' = existing, quiet' => quiet /\ sel' = sel,
             requestType' = requestType, dialog'.open => dialog' = dialog
      PROVE  Kept'
  <2>1. SUFFICES ASSUME quiet' PROVE Kept'
    BY DEF Kept
  <2>2. sel' = sel /\ quiet
    BY <1>4, <2>1
  <2>3. ASSUME NEW t \in Slots PROVE Sincere(requests[t])'
    <3>1. Sincere(requests[t])
      BY <2>2 DEF Kept
    <3>. QED
      BY <1>4, <2>2, <3>1 DEF Sincere, AsAsked, AsPromised, Paged, Left, Matching, Loaded
  <2>4. dialog'.open => requestType' = "DELETE" /\ dialog'.promised = Promised'
    BY <1>4, <2>2 DEF Kept, Promised, Wanted
  <2>. QED  BY <2>3, <2>4 DEF Kept
\* Nothing is in flight, or will be.
<1>5. ASSUME quiet' => \A t \in Slots : requests'[t] = Free, ~dialog'.open
      PROVE  Kept'
  BY <1>2, <1>5 DEF Kept
<1>6. Busy = {} => \A t \in Slots : requests[t] = Free
  BY <1>1 DEF Busy, FreeSlots
<1>7. CASE Select
  <2>1. ~dialog'.open /\ requests' = requests /\ (quiet' => Busy = {})
    BY <1>7 DEF Select
  <2>. QED  BY <1>5, <1>6, <2>1
<1>8. CASE Execute
  <2>1. /\ existing' = existing /\ sel' = sel /\ dialog' = Closed /\ (quiet' => Busy = {})
        /\ requestType' = "POST" /\ ~dialog'.open
    BY <1>8 DEF Execute, Closed
  <2>2. CASE requests' = requests
    BY <1>5, <1>6, <2>1, <2>2
  <2>3. CASE Send("POST", 0)
    BY <1>3, <2>1, <2>3
  <2>. QED  BY <1>8, <2>2, <2>3 DEF Execute
<1>9. CASE Confirm
  <2>1. /\ dialog.open /\ dialog' = Closed /\ Send(requestType, dialog.promised)
        /\ UNCHANGED <<existing, sel, requestType, quiet>>
    BY <1>9 DEF Confirm
  <2>2. quiet => Busy = {} /\ requestType = "DELETE" /\ dialog.promised = Promised
    BY <1>1, <2>1 DEF Alone, Kept
  <2>3. requestType \in {"POST", "DELETE"}
    BY <1>1 DEF TypeOK
  <2>. QED  BY <1>3, <2>1, <2>2, <2>3
<1>10. CASE Dismiss
  <2>1. ~dialog'.open
    BY <1>10 DEF Dismiss, Closed
  <2>. QED  BY <1>4, <1>10, <2>1 DEF Dismiss
<1>11. CASE Refresh \/ Refreshed
  BY <1>4, <1>11 DEF Refresh, Refreshed
\* The only request is answered, or fails.
<1>12. ASSUME NEW s \in Slots, Set(s, Free), requests[s].phase # "free", UNCHANGED quiet
       PROVE  quiet => \A t \in Slots : requests'[t] = Free
  <2>1. requests'[s] = Free /\ \A t \in Slots : t # s => requests'[t] = requests[t]
    BY <1>1, <1>12, BusyAfterSet
  <2>2. quiet => \A t \in Slots : t # s => requests[t] = Free
    BY <1>1, <1>12 DEF Alone, Busy, FreeSlots
  <2>. QED  BY <2>1, <2>2
<1>13. ASSUME NEW s \in Slots, Error(s) PROVE Kept'
  <2>1. Set(s, Free) /\ requests[s].phase # "free" /\ UNCHANGED <<quiet, dialog>>
    BY <1>13 DEF Error
  <2>2. quiet => ~dialog.open
    BY <1>1, <2>1 DEF Alone, Busy
  <2>3. quiet' => (\A t \in Slots : requests'[t] = Free) /\ ~dialog'.open
    BY <1>12, <2>1, <2>2
  <2>. QED  BY <1>2, <2>3 DEF Kept
<1>14. ASSUME NEW s \in Slots, Answer(s) PROVE Kept'
  <2>. DEFINE q == requests[s]
  <2>1. /\ Set(s, Free) /\ q.phase = "answered" /\ UNCHANGED <<quiet, existing>>
    BY <1>14 DEF Answer
  <2>2. SUFFICES ASSUME quiet PROVE Kept'
    BY <2>1 DEF Kept
  <2>3. \A t \in Slots : requests'[t] = Free
    BY <1>12, <2>1, <2>2
  <2>4. ~dialog.open
    BY <1>1, <2>1, <2>2 DEF Alone, Busy
  <2>5. CASE requestType = "POST"
    <3>1. requestType' = "DELETE" /\ dialog'.promised = Least(q.count, MaxLimit) /\ sel' = sel
      BY <1>14, <2>5 DEF Answer, AskForConfirmation
    <3>2. q.sel = sel /\ ~q.restricted /\ q.count = Cardinality(Matching(q) \cap Deletable)
      BY <2>1, <2>2, <2>5 DEF Kept, Sincere, AsAsked
    <3>3. Matching(q) \cap Deletable = Wanted
      BY <3>2 DEF Matching, Wanted
    <3>4. dialog'.promised = Promised'
      BY <2>1, <3>1, <3>2, <3>3 DEF Promised, Wanted
    <3>. QED  BY <1>2, <2>3, <3>1, <3>4 DEF Kept
  <2>6. CASE requestType # "POST"
    <3>1. ~dialog'.open
      BY <1>14, <2>4, <2>6 DEF Answer, ReportSuccess
    <3>. QED  BY <1>5, <2>3, <3>1
  <2>. QED  BY <2>5, <2>6
<1>15. ASSUME NEW s \in Slots, ServerStepOf(s) PROVE Kept'
  <2>1. PICK r \in Request : Set(s, r)
    BY <1>1, <1>15, ServerStepShape
  <2>2. requests[s].phase # "free" /\ UNCHANGED <<dialog, quiet>>
    BY <1>1, <1>15, ServerStepShape
  <2>3. SUFFICES ASSUME quiet PROVE Kept'
    BY <2>2 DEF Kept
  <2>4. Sincere(requests[s])'
    BY <1>1, <1>15, <2>3, ServerSincere DEF Alone, AclOK, Kept
  <2>5. ASSUME NEW t \in Slots, t # s PROVE Sincere(requests[t])'
    <3>1. requests[t] = Free
      BY <1>1, <2>2, <2>3, <2>5 DEF Alone, Busy, FreeSlots
    <3>2. requests'[t] = Free
      BY <1>1, <2>1, <2>5, <3>1, BusyAfterSet
    <3>. QED  BY <1>2, <3>2
  <2>6. ~dialog'.open
    BY <1>1, <2>2, <2>3 DEF Alone, Busy
  <2>. QED  BY <2>4, <2>5, <2>6 DEF Kept
<1>16. CASE Others
  BY <1>16 DEF Others, Kept
<1>17. CASE UNCHANGED vars
  BY <1>4, <1>17 DEF vars
<1>. QED
  BY <1>7, <1>8, <1>9, <1>10, <1>11, <1>13, <1>14, <1>15, <1>16, <1>17
  DEF Next, ClientStep, ServerStep, ServerStepOf

LEMMA InitKept == Init => Kept
<1>. SUFFICES ASSUME Init PROVE Kept
  OBVIOUS
<1>1. \A t \in Slots : requests[t] = Free
  BY DEF Init
<1>2. Sincere(Free) /\ ~dialog.open
  BY DEF Init, Sincere, Free, Closed
<1>. QED  BY <1>1, <1>2 DEF Kept

(***************************************************************************)
(* The theorems.                                                           *)
(***************************************************************************)
\* The variables keep their types: counts stay natural numbers and the
\* records of every request are records of the grid (doDelete, iterators).
THEOREM TypeCorrect == Spec => []TypeOK
<1>. QED  BY InitType, TypeKept, PTL DEF Spec

\* finishBatch flushes before it sends its message: only a process that died
\* between the two leaves a deleted record in the search index, however many
\* deletions overlap.
THEOREM IndexCorrect == Spec => []IndexFollowsDatabase
<1>1. Init => IndexFollowsDatabase
  BY DEF Init, IndexFollowsDatabase
<1>. QED  BY <1>1, InitType, TypeKept, IndexKept, PTL DEF Spec

\* MassDeleteLimiter may leave the ACL out of the query when its two counts agree,
\* though they are made one after the other: where the dispatcher has applied the
\* grid's own ACL, a request that no record joined deletes nothing the user may not
\* delete, whatever overlapping runs and other users delete meanwhile.
THEOREM AclCorrect == AclApplied => (Spec => []DeletesOnlyDeletable)
<1>. SUFFICES ASSUME AclApplied PROVE Spec => []DeletesOnlyDeletable
  OBVIOUS
<1>1. AclInv => DeletesOnlyDeletable
  BY DEF AclInv, AclOK, Permitted, DeletesOnlyDeletable
<1>2. AclInv /\ [Next]_vars => AclInv'
  BY AclInvKept
<1>. QED  BY <1>1, <1>2, InitAclInv, PTL DEF Spec

\* A DELETE that reports success has deleted as many records as the dialog announced,
\* says so, and left none behind unless it reached the limit (delete-mass-action.js,
\* getLimitResult, doDelete), however many fetches of the grid hide the mask meanwhile
\* and wherever the dispatcher has applied the grid's own ACL.
THEOREM ConfirmedCorrect == AclApplied => (Spec => []DeletesWhatWasConfirmed)
<1>. SUFFICES ASSUME AclApplied PROVE Spec => []DeletesWhatWasConfirmed
  OBVIOUS
<1>1. AclInv /\ Kept => DeletesWhatWasConfirmed
  BY DEF Kept, Sincere, AsPromised, DeletesWhatWasConfirmed
<1>2. AclInv /\ [Next]_vars => AclInv'
  BY AclInvKept
<1>3. AclInv /\ Kept /\ [Next]_vars => Kept'
  BY KeptKept
<1>. QED  BY <1>1, <1>2, <1>3, InitAclInv, InitKept, PTL DEF Spec

\* delete-mass-action.js may tell its answers apart by requestType as long as
\* nothing else refreshes the grid, which would take the mask away.
THEOREM AnswersCorrect == MaxFetches = 0 => (Spec => []AnswersMatchRequestType)
<1>. SUFFICES ASSUME MaxFetches = 0 PROVE Spec => []AnswersMatchRequestType
  OBVIOUS
<1>1. TypeOK /\ Guarded /\ [Next]_vars => Guarded'
  BY GuardedKept
<1>2. Guarded => AnswersMatchRequestType
  BY DEF Guarded, AnswersMatchRequestType, Busy
<1>. QED  BY <1>1, <1>2, InitType, TypeKept, InitGuarded, PTL DEF Spec

=============================================================================

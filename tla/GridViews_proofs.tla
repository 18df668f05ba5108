-------------------------- MODULE GridViews_proofs ---------------------------
(***************************************************************************)
(* A default view is lost only with its view and never left pointing at    *)
(* one that is gone, for any number of views and of overlapping requests;  *)
(* and the page shows the stored default as long as they do not overlap.   *)
(*                                                                         *)
(* The row that a request adds names the view of the request, which must   *)
(* still be there when it is flushed, or the one just created; deleting a  *)
(* view takes its rows along.  Deletion is then the only step that leaves  *)
(* fewer rows, and the view it takes is one that a row refers to.  The     *)
(* rest is types: what has been checked has a name, and renaming and       *)
(* deletion are not about the system view.                                 *)
(***************************************************************************)
EXTENDS GridViews, TLAPS

StoredNames == Names \cup ForeignNames

\* What a request is about, as far as it has come.
WellFormed(r) ==
    /\ r.kind \in {"update", "delete"} => r.view \in Ids
    /\ r.kind = "create" /\ r.phase = "done" => r.view \in Ids
    /\ r.kind \in {"create", "update"} /\ r.phase # "done" => r.name \in StoredNames
    /\ r.kind = "use" /\ r.phase = "checked" => r.name \in AllNames

IInv ==
    /\ TypeOK
    /\ RowsReferToViews
    /\ \A s \in Slots : requests[s] \in Requests => WellFormed(requests[s])

\* Unused slots and failed requests are not requests any more.
LEMMA NotRequests == Free \notin Requests /\ Failed \notin Requests
BY DEF Free, Failed, Requests

\* A slot that holds a request in some phase of the server holds a request.
LEMMA HoldsRequest ==
    ASSUME TypeOK, NEW s \in Slots,
           requests[s].phase \notin {"free", "failed"}
    PROVE  requests[s] \in Requests
BY DEF TypeOK, Free, Failed

LEMMA InitInv == Init => IInv
<1>. SUFFICES ASSUME Init PROVE IInv
  OBVIOUS
<1>. Saved \subseteq Ids /\ All \notin Ids
  BY DEF Saved, Ids, All
<1>1. \A v \in Saved \cup {All} : NameOf(v) \in AllNames
  BY DEF Init, Saved, NameOf, AllNames
<1>2. rows \subseteq Rows
  BY <1>1 DEF Init, Rows
<1>3. RowsReferToViews
  BY DEF Init, RowsReferToViews
<1>4. Defaults \subseteq Saved \cup {All}
  BY <1>3 DEF RowsReferToViews, Defaults
<1>5. nextId \in Nat
  BY GridViewsAssumption DEF Init, Ids
<1>6. TypeOK
  BY <1>2, <1>4, <1>5, GridViewsAssumption DEF Init, TypeOK, Marked
<1>7. \A s \in Slots : requests[s] \notin Requests
  BY NotRequests DEF Init
<1>. QED
  BY <1>3, <1>6, <1>7 DEF IInv

\* A request that is new, or has come further, leaves the rest as it was.
LEMMA Moved ==
    ASSUME IInv, NEW s \in Slots, NEW r, Set(s, r),
           \/ r \in {Free, Failed}
           \/ r \in Requests /\ WellFormed(r)
    PROVE  /\ requests' \in [Slots -> Requests \cup {Free, Failed}]
           /\ \A t \in Slots : requests'[t] \in Requests => WellFormed(requests'[t])
<1>1. requests \in [Slots -> Requests \cup {Free, Failed}]
  BY DEF IInv, TypeOK
<1>2. requests' = [requests EXCEPT ![s] = r]
  BY DEF Set
<1>3. requests'[s] = r /\ \A t \in Slots : t # s => requests'[t] = requests[t]
  BY <1>1, <1>2
<1>4. requests' \in [Slots -> Requests \cup {Free, Failed}]
  BY <1>1, <1>2
<1>5. \A t \in Slots : requests'[t] \in Requests => WellFormed(requests'[t])
  <2>. TAKE t \in Slots
  <2>1. CASE t = s
    BY <2>1, <1>3, NotRequests
  <2>2. CASE t # s
    BY <2>2, <1>3 DEF IInv
  <2>. QED
    BY <2>1, <2>2
<1>. QED
  BY <1>4, <1>5

\* The rows stay typed when one is added for a name and a view.
LEMMA RowsTyped ==
    ASSUME rows \subseteq Rows, NEW r, NEW v \in Ids \cup {All},
           r.box /\ ~r.already => r.name \in AllNames,
           SetDefaultGridView(r, v)
    PROVE  /\ rows' \subseteq Rows
           /\ \A x \in rows' : x \in rows \/ (x.view = v /\ r.box /\ ~r.already)
           /\ rows # {} => rows' # {}
<1>1. CASE ~r.box \/ r.already
  BY <1>1 DEF SetDefaultGridView
<1>2. CASE ~(~r.box \/ r.already)
  <2>1. rows' = (rows \ r.found) \cup {[alias |-> r.name, view |-> v]}
    BY <1>2 DEF SetDefaultGridView
  <2>2. [alias |-> r.name, view |-> v] \in Rows
    BY <1>2 DEF Rows
  <2>. QED
    BY <1>2, <2>1, <2>2
<1>. QED
  BY <1>1, <1>2

-----------------------------------------------------------------------------
(***************************************************************************)
(* The page.                                                               *)
(***************************************************************************)
LEMMA SendsInv == IInv /\ ClientSends => IInv'
<1>. SUFFICES ASSUME IInv, ClientSends PROVE IInv'
  OBVIOUS
<1>1. UNCHANGED <<nextId, views, rows, chosen, models, flags, current>>
  BY DEF ClientSends
<1>2. /\ current \in Ids \cup {All} /\ FirstOf(flags) \subseteq Ids \cup {All}
      /\ views \in [Ids -> StoredNames \cup {None}] /\ orderly \in BOOLEAN
  BY DEF IInv, TypeOK, FirstOf, StoredNames
<1>3. ASSUME NEW kind \in {"use", "create", "update", "delete"}, NEW renames \in BOOLEAN,
             NEW v \in Ids \cup {All}, NEW name \in AllNames \cup {None}, NEW box \in BOOLEAN,
             kind \in {"update", "delete"} => v \in Ids,
             kind \in {"create", "update"} => name \in StoredNames,
             Send(kind, renames, v, name, box)
      PROVE  IInv'
  <2>1. PICK s \in Idle :
          /\ OrderlyIf(Idle = Slots /\ (renames => (box <=> v \in flags)))
          /\ Set(s, [phase |-> "sent", kind |-> kind, renames |-> renames, view |-> v,
                     name |-> name, box |-> box,
                     old |-> IF kind = "use" THEN FirstOf(flags) ELSE {},
                     already |-> FALSE, found |-> {}])
    BY <1>3 DEF Send
  <2>. DEFINE r == [phase |-> "sent", kind |-> kind, renames |-> renames, view |-> v,
                    name |-> name, box |-> box,
                    old |-> IF kind = "use" THEN FirstOf(flags) ELSE {},
                    already |-> FALSE, found |-> {}]
  <2>2. r \in Requests
    BY <1>2 DEF Requests
  <2>3. WellFormed(r)
    BY <1>3 DEF WellFormed
  <2>4. s \in Slots /\ Set(s, r)
    BY <2>1 DEF Idle
  <2>. HIDE DEF r
  <2>5. /\ requests' \in [Slots -> Requests \cup {Free, Failed}]
        /\ \A t \in Slots : requests'[t] \in Requests => WellFormed(requests'[t])
    BY <2>2, <2>3, <2>4, Moved
  <2>6. orderly' \in BOOLEAN
    BY <2>1, <1>2 DEF OrderlyIf
  <2>. QED
    BY <1>1, <2>5, <2>6 DEF IInv, TypeOK, RowsReferToViews, Saved
<1>4. CASE UseAsDefault
  <2>1. NameOf(current) \in AllNames \cup {None}
    BY <1>2 DEF NameOf, AllNames, StoredNames
  <2>2. Send("use", FALSE, current, NameOf(current), TRUE)
    BY <1>4 DEF UseAsDefault
  <2>. QED
    BY <1>2, <1>3, <2>1, <2>2
<1>5. CASE Save
  <2>1. current \in Ids /\ views[current] \in StoredNames
    BY <1>2, <1>5 DEF Save, Saved, Own
  <2>2. views[current] \in AllNames
    BY <2>1 DEF AllNames, StoredNames
  <2>3. Send("update", FALSE, current, views[current], current \in flags)
    BY <1>5 DEF Save
  <2>4. (current \in flags) \in BOOLEAN
    OBVIOUS
  <2>. QED
    BY <1>3, <2>1, <2>2, <2>3, <2>4
<1>6. CASE Delete
  BY <1>3, <1>6 DEF Delete, Own
<1>7. ASSUME NEW name \in Names, NEW box \in BOOLEAN, SaveAs(name, box) \/ Rename(name, box)
      PROVE  IInv'
  <2>1. name \in StoredNames /\ name \in AllNames
    BY DEF StoredNames, AllNames
  <2>2. CASE SaveAs(name, box)
    BY <1>3, <2>1, <2>2 DEF SaveAs
  <2>3. CASE Rename(name, box)
    BY <1>3, <2>1, <2>3 DEF Rename, Own
  <2>. QED
    BY <1>7, <2>2, <2>3
<1>. QED
  BY <1>4, <1>5, <1>6, <1>7 DEF ClientSends

LEMMA AnswerInv == ASSUME IInv, NEW s \in Slots, Answer(s) PROVE IInv'
<1>. DEFINE r == requests[s]
<1>1. /\ r.phase = "done" /\ Set(s, Free)
      /\ UNCHANGED <<nextId, views, rows, chosen, orderly>>
      /\ \/ r.kind = "use" /\ Used(r)
         \/ r.kind = "create" /\ Created(r)
         \/ r.kind = "update" /\ Updated(r)
         \/ r.kind = "delete" /\ Deleted(r)
  BY DEF Answer
<1>2. r \in Requests /\ WellFormed(r)
  BY <1>1, HoldsRequest DEF IInv
<1>3. r.view \in Ids \cup {All} /\ (r.kind = "create" => r.view \in Ids)
  BY <1>1, <1>2 DEF Requests, WellFormed
<1>4. /\ requests' \in [Slots -> Requests \cup {Free, Failed}]
      /\ \A t \in Slots : requests'[t] \in Requests => WellFormed(requests'[t])
  BY <1>1, Moved
<1>. HIDE DEF r
<1>5. models \subseteq Ids /\ flags \subseteq Ids \cup {All} /\ current \in models \cup {All}
  BY DEF IInv, TypeOK
<1>6. models' \subseteq Ids /\ flags' \subseteq Ids \cup {All} /\ current' \in models' \cup {All}
  <2>1. CASE r.kind = "use" /\ Used(r)
    BY <2>1, <1>3, <1>5 DEF Used
  <2>2. CASE r.kind = "create" /\ Created(r)
    BY <2>2, <1>3, <1>5 DEF Created, FirstOf
  <2>3. CASE r.kind = "update" /\ Updated(r)
    BY <2>3, <1>3, <1>5 DEF Updated, FirstOf
  <2>4. CASE r.kind = "delete" /\ Deleted(r)
    BY <2>4, <1>3, <1>5 DEF Deleted
  <2>. QED
    BY <1>1, <2>1, <2>2, <2>3, <2>4
<1>. QED
  BY <1>1, <1>4, <1>6 DEF IInv, TypeOK, RowsReferToViews, Saved

LEMMA FailInv == ASSUME IInv, NEW s \in Slots, Fail(s) PROVE IInv'
<1>1. Set(s, Free) /\ UNCHANGED <<nextId, views, rows, chosen, models, flags, current>>
  BY DEF Fail
<1>2. orderly' \in BOOLEAN
  BY DEF Fail, Disorderly, IInv, TypeOK
<1>3. /\ requests' \in [Slots -> Requests \cup {Free, Failed}]
      /\ \A t \in Slots : requests'[t] \in Requests => WellFormed(requests'[t])
  BY <1>1, Moved
<1>. QED
  BY <1>1, <1>2, <1>3 DEF IInv, TypeOK, RowsReferToViews, Saved

LEMMA LoadInv == IInv /\ Load => IInv'
<1>. SUFFICES ASSUME IInv, Load PROVE IInv'
  OBVIOUS
<1>1. Defaults \subseteq Saved \cup {All} /\ Saved \subseteq Ids /\ Marked \subseteq Ids \cup {All}
  BY DEF IInv, RowsReferToViews, Defaults, Saved, Marked
<1>2. models' \subseteq Ids /\ flags' \subseteq Ids \cup {All} /\ current' \in models' \cup {All}
  BY <1>1 DEF Load
<1>3. orderly' \in BOOLEAN
  BY DEF Load, OrderlyIf, IInv, TypeOK
<1>. QED
  BY <1>2, <1>3 DEF Load, IInv, TypeOK, RowsReferToViews, Saved

-----------------------------------------------------------------------------
(***************************************************************************)
(* The server.                                                             *)
(***************************************************************************)
\* A default is lost in this step with its view only.
WithItsView == rows # {} /\ rows' = {} => \E v \in Saved : views'[v] = None

LEMMA CheckInv == ASSUME IInv, NEW s \in Slots, Check(s) PROVE IInv'
<1>. DEFINE r == requests[s]
            accepted == \/ r.kind \in {"use", "delete"} /\ r.view \in Saved \cup {All}
                        \/ r.kind = "create" /\ NameFree(r.name, All)
                        \/ r.kind = "update" /\ r.view \in Saved /\ NameFree(r.name, r.view)
            name == IF r.kind = "use" THEN NameOf(r.view) ELSE r.name
            already == \E x \in rows : x.alias = name
            checked == [r EXCEPT !.phase = "checked", !.name = name,
                                 !.already = already, !.found = rows]
<1>1. /\ r.phase = "sent"
      /\ Set(s, IF ~accepted THEN Failed ELSE checked)
      /\ UNCHANGED <<nextId, views, rows, chosen, orderly, models, flags, current>>
  BY DEF Check
<1>2. r \in Requests /\ WellFormed(r)
  BY <1>1, HoldsRequest DEF IInv
<1>3. views \in [Ids -> StoredNames \cup {None}] /\ rows \subseteq Rows
  BY DEF IInv, TypeOK, StoredNames
<1>4. accepted => checked \in Requests /\ WellFormed(checked)
  <2>. SUFFICES ASSUME accepted PROVE checked \in Requests /\ WellFormed(checked)
    OBVIOUS
  <2>1. r.kind = "use" => name \in AllNames
    BY <1>2, <1>3 DEF NameOf, Saved, AllNames, StoredNames
  <2>2. name \in AllNames \cup {None}
    BY <1>2, <2>1 DEF Requests
  <2>3. already \in BOOLEAN
    OBVIOUS
  <2>. HIDE DEF already, accepted
  <2>4. checked \in Requests
    BY <1>2, <1>3, <2>2, <2>3 DEF Requests
  <2>5. checked.kind = r.kind /\ checked.view = r.view /\ checked.name = name
        /\ checked.phase = "checked"
    BY <1>2 DEF Requests
  <2>6. WellFormed(checked)
    BY <1>1, <1>2, <2>1, <2>5 DEF WellFormed
  <2>. QED
    BY <2>4, <2>6
<1>. HIDE DEF accepted, checked
<1>5. /\ requests' \in [Slots -> Requests \cup {Free, Failed}]
      /\ \A t \in Slots : requests'[t] \in Requests => WellFormed(requests'[t])
  <2>1. CASE accepted
    BY <2>1, <1>1, <1>4, Moved
  <2>2. CASE ~accepted
    BY <2>2, <1>1, Moved
  <2>. QED
    BY <2>1, <2>2
<1>. QED
  BY <1>1, <1>5 DEF IInv, TypeOK, RowsReferToViews, Saved

\* The answer to a request that was flushed is about a view.
LEMMA DoneOK ==
    ASSUME NEW r \in Requests, NEW v \in Ids \cup {All},
           r.kind \in {"create", "update", "delete"} => v \in Ids
    PROVE  Done(r, v) \in Requests /\ WellFormed(Done(r, v))
<1>1. Done(r, v) \in Requests
  BY DEF Done, Requests
<1>2. Done(r, v).kind = r.kind /\ Done(r, v).view = v /\ Done(r, v).phase = "done"
  BY DEF Done, Requests
<1>. QED
  BY <1>1, <1>2 DEF WellFormed, Requests

\* What the steps that flush have in common.
LEMMA FlushInv ==
    ASSUME IInv, NEW s \in Slots, Commit(s),
           nextId' \in Nat, views' \in [Ids -> StoredNames \cup {None}],
           rows' \subseteq Rows, chosen' \in Ids \cup {All}, RowsReferToViews',
           requests' \in [Slots -> Requests \cup {Free, Failed}],
           \A t \in Slots : requests'[t] \in Requests => WellFormed(requests'[t])
    PROVE  IInv'
<1>1. UNCHANGED <<models, flags, current>>
  BY DEF Commit
<1>2. orderly' \in BOOLEAN
  BY DEF Commit, OrderlyIf, IInv, TypeOK
<1>. QED
  BY <1>1, <1>2 DEF IInv, TypeOK, StoredNames

LEMMA CreateInv ==
    ASSUME IInv, NEW s \in Slots, requests[s].phase = "checked", Commit(s), CommitCreate(s)
    PROVE  IInv' /\ WithItsView
<1>. DEFINE r == requests[s]
<1>1. r \in Requests /\ WellFormed(r)
  BY HoldsRequest DEF IInv
<1>2. /\ r.kind = "create" /\ nextId \in Ids /\ nextId' = nextId + 1
      /\ views' = [views EXCEPT ![nextId] = r.name]
      /\ SetDefaultGridView(r, nextId)
      /\ chosen' = IF r.box THEN nextId ELSE chosen
      /\ Set(s, Done(r, nextId))
  BY DEF CommitCreate
<1>3. r.name \in StoredNames /\ r.name \in AllNames /\ r.name # None
  BY <1>1, <1>2, GridViewsAssumption DEF WellFormed, AllNames, StoredNames
<1>4. Done(r, nextId) \in Requests /\ WellFormed(Done(r, nextId))
  BY <1>1, <1>2, DoneOK
<1>. HIDE DEF r
<1>5. /\ requests' \in [Slots -> Requests \cup {Free, Failed}]
      /\ \A t \in Slots : requests'[t] \in Requests => WellFormed(requests'[t])
  BY <1>2, <1>4, Moved
<1>6. views \in [Ids -> StoredNames \cup {None}] /\ chosen \in Ids \cup {All} /\ rows \subseteq Rows
  BY DEF IInv, TypeOK, StoredNames
<1>7. /\ rows' \subseteq Rows
      /\ \A x \in rows' : x \in rows \/ x.view = nextId
      /\ rows # {} => rows' # {}
  BY <1>2, <1>3, <1>6, RowsTyped
<1>8. views' \in [Ids -> StoredNames \cup {None}]
  BY <1>2, <1>3, <1>6
<1>9. Saved \cup {nextId} \subseteq Saved'
  BY <1>2, <1>3, <1>6 DEF Saved
<1>10. RowsReferToViews'
  BY <1>7, <1>9 DEF IInv, RowsReferToViews
<1>11. nextId' \in Nat /\ chosen' \in Ids \cup {All}
  BY <1>2, <1>6 DEF Ids
<1>. QED
  BY <1>5, <1>7, <1>8, <1>10, <1>11, FlushInv DEF WithItsView

LEMMA ChangeInv ==
    ASSUME IInv, NEW s \in Slots, requests[s].phase = "checked", Commit(s), CommitChange(s)
    PROVE  IInv' /\ WithItsView
<1>. DEFINE r == requests[s]
            gone == r.view \notin Saved \cup {All}
<1>1. r \in Requests /\ WellFormed(r)
  BY HoldsRequest DEF IInv
<1>2. /\ r.kind \in {"use", "update"}
      /\ IF gone /\ r.box /\ ~r.already
         THEN /\ Set(s, Failed)
              /\ UNCHANGED <<views, rows, chosen>>
         ELSE /\ Set(s, Done(r, r.view))
              /\ views' = IF r.kind = "use" \/ gone THEN views
                          ELSE [views EXCEPT ![r.view] = r.name]
              /\ SetDefaultGridView(r, r.view)
              /\ chosen' = IF r.box THEN r.view ELSE chosen
      /\ UNCHANGED nextId
  BY DEF CommitChange
<1>3. r.view \in Ids \cup {All} /\ (r.kind = "update" => r.view \in Ids)
  BY <1>1 DEF Requests, WellFormed
<1>4. /\ r.kind = "update" => r.name \in StoredNames /\ r.name # None
      /\ r.name \in AllNames
  BY <1>1, <1>2, GridViewsAssumption DEF WellFormed, AllNames, StoredNames
<1>5. Done(r, r.view) \in Requests /\ WellFormed(Done(r, r.view))
  BY <1>1, <1>2, <1>3, DoneOK
<1>. HIDE DEF r
<1>6. /\ requests' \in [Slots -> Requests \cup {Free, Failed}]
      /\ \A t \in Slots : requests'[t] \in Requests => WellFormed(requests'[t])
  BY <1>2, <1>5, Moved
<1>7. /\ views \in [Ids -> StoredNames \cup {None}] /\ chosen \in Ids \cup {All}
      /\ rows \subseteq Rows /\ nextId \in Nat /\ RowsReferToViews
  BY DEF IInv, TypeOK, StoredNames
<1>8. CASE gone /\ r.box /\ ~r.already
  <2>1. UNCHANGED <<views, rows, chosen, nextId>>
    BY <1>2, <1>8
  <2>2. RowsReferToViews' /\ WithItsView
    BY <2>1, <1>7 DEF RowsReferToViews, WithItsView, Saved
  <2>. QED
    BY <2>1, <2>2, <1>6, <1>7, FlushInv
<1>9. CASE ~(gone /\ r.box /\ ~r.already)
  <2>1. /\ rows' \subseteq Rows
        /\ \A x \in rows' : x \in rows \/ (x.view = r.view /\ r.box /\ ~r.already)
        /\ rows # {} => rows' # {}
    BY <1>2, <1>3, <1>4, <1>7, <1>9, RowsTyped
  <2>2. views' \in [Ids -> StoredNames \cup {None}] /\ Saved \subseteq Saved'
    <3>1. CASE r.kind = "use" \/ gone
      BY <3>1, <1>2, <1>7, <1>9 DEF Saved
    <3>2. CASE ~(r.kind = "use" \/ gone)
      <4>1. views' = [views EXCEPT ![r.view] = r.name] /\ r.kind = "update"
        BY <3>2, <1>2, <1>9
      <4>. QED
        BY <4>1, <1>4, <1>7 DEF Saved
    <3>. QED
      BY <3>1, <3>2
  <2>3. RowsReferToViews'
    BY <2>1, <2>2, <1>7, <1>9 DEF RowsReferToViews
  <2>4. chosen' \in Ids \cup {All} /\ nextId' \in Nat
    BY <1>2, <1>3, <1>7, <1>9
  <2>. QED
    BY <2>1, <2>2, <2>3, <2>4, <1>6, FlushInv DEF WithItsView
<1>. QED
  BY <1>8, <1>9

\* A view goes with the rows that refer to it.
LEMMA Removal ==
    ASSUME IInv, NEW v \in Ids, RemoveView(v)
    PROVE  /\ views' \in [Ids -> StoredNames \cup {None}]
           /\ rows' \subseteq Rows /\ chosen' \in Ids \cup {All}
           /\ RowsReferToViews' /\ WithItsView
<1>1. /\ views \in [Ids -> StoredNames \cup {None}] /\ chosen \in Ids \cup {All}
      /\ rows \subseteq Rows /\ RowsReferToViews
  BY DEF IInv, TypeOK, StoredNames
<1>2. /\ views' = [views EXCEPT ![v] = None]
      /\ rows' = {x \in rows : x.view # v}
      /\ chosen' = IF chosen = v THEN All ELSE chosen
  BY DEF RemoveView
<1>3. views'[v] = None /\ Saved' = Saved \ {v} /\ v # All
  BY <1>1, <1>2 DEF Saved, Ids, All
<1>4. RowsReferToViews'
  BY <1>1, <1>2, <1>3 DEF RowsReferToViews
<1>5. WithItsView
  BY <1>1, <1>2, <1>3 DEF WithItsView, RowsReferToViews
<1>. QED
  BY <1>1, <1>2, <1>4, <1>5

LEMMA DeleteInv ==
    ASSUME IInv, NEW s \in Slots, requests[s].phase = "checked", Commit(s), CommitDelete(s)
    PROVE  IInv' /\ WithItsView
<1>. DEFINE r == requests[s]
<1>1. r \in Requests /\ WellFormed(r)
  BY HoldsRequest DEF IInv
<1>2. /\ r.kind = "delete" /\ RemoveView(r.view)
      /\ Set(s, Done(r, r.view)) /\ UNCHANGED nextId
  BY DEF CommitDelete
<1>3. r.view \in Ids
  BY <1>1, <1>2 DEF WellFormed
<1>4. Done(r, r.view) \in Requests /\ WellFormed(Done(r, r.view))
  BY <1>1, <1>3, DoneOK
<1>. HIDE DEF r
<1>5. /\ requests' \in [Slots -> Requests \cup {Free, Failed}]
      /\ \A t \in Slots : requests'[t] \in Requests => WellFormed(requests'[t])
  BY <1>2, <1>4, Moved
<1>6. nextId' \in Nat
  BY <1>2 DEF IInv, TypeOK
<1>. QED
  BY <1>2, <1>3, <1>5, <1>6, Removal, FlushInv

LEMMA OtherOwnerInv ==
    ASSUME IInv, NEW v \in Foreign, OtherOwner(v)
    PROVE  IInv' /\ WithItsView
<1>1. v \in Saved /\ v \in Ids /\ Disorderly
      /\ UNCHANGED <<nextId, models, flags, current, requests>>
  BY DEF OtherOwner, Saved
<1>2. /\ views \in [Ids -> StoredNames \cup {None}] /\ rows \subseteq Rows
      /\ chosen \in Ids \cup {All} /\ RowsReferToViews
  BY DEF IInv, TypeOK, StoredNames
<1>3. /\ views' \in [Ids -> StoredNames \cup {None}] /\ rows' \subseteq Rows
      /\ chosen' \in Ids \cup {All} /\ RowsReferToViews' /\ WithItsView
  <2>1. ASSUME NEW name \in ForeignNames, views' = [views EXCEPT ![v] = name],
               UNCHANGED <<rows, chosen>>
        PROVE  /\ views' \in [Ids -> StoredNames \cup {None}] /\ rows' \subseteq Rows
               /\ chosen' \in Ids \cup {All} /\ RowsReferToViews' /\ WithItsView
    <3>1. name # None /\ name \in StoredNames
      BY GridViewsAssumption DEF StoredNames
    <3>2. Saved' = Saved
      BY <1>1, <1>2, <2>1, <3>1 DEF Saved
    <3>. QED
      BY <1>1, <1>2, <2>1, <3>1, <3>2 DEF RowsReferToViews, WithItsView
  <2>2. CASE RemoveView(v)
    BY <2>2, <1>1, Removal
  <2>. QED
    BY <2>1, <2>2 DEF OtherOwner
<1>. QED
  BY <1>1, <1>3 DEF IInv, TypeOK, Disorderly, StoredNames

-----------------------------------------------------------------------------
LEMMA NextInv == IInv /\ [Next]_vars => IInv' /\ WithItsView
<1>. SUFFICES ASSUME IInv, [Next]_vars PROVE IInv' /\ WithItsView
  OBVIOUS
<1>1. ASSUME UNCHANGED rows PROVE WithItsView
  BY <1>1 DEF WithItsView
<1>2. CASE ClientSends
  BY <1>1, <1>2, SendsInv DEF ClientSends
<1>3. ASSUME NEW v \in models \cup {All}, ChangeView(v) PROVE IInv' /\ WithItsView
  BY <1>1, <1>3 DEF ChangeView, IInv, TypeOK, RowsReferToViews, Saved
<1>4. ASSUME NEW s \in Slots, Check(s) PROVE IInv' /\ WithItsView
  BY <1>1, <1>4, CheckInv DEF Check
<1>5. ASSUME NEW s \in Slots, Commit(s) PROVE IInv' /\ WithItsView
  BY <1>5, CreateInv, ChangeInv, DeleteInv DEF Commit
<1>6. ASSUME NEW s \in Slots, Answer(s) PROVE IInv' /\ WithItsView
  BY <1>1, <1>6, AnswerInv DEF Answer
<1>7. ASSUME NEW s \in Slots, Fail(s) PROVE IInv' /\ WithItsView
  BY <1>1, <1>7, FailInv DEF Fail
<1>8. ASSUME NEW v \in Foreign, OtherOwner(v) PROVE IInv' /\ WithItsView
  BY <1>8, OtherOwnerInv
<1>9. CASE Load
  BY <1>1, <1>9, LoadInv DEF Load
<1>10. CASE UNCHANGED vars
  BY <1>1, <1>10 DEF vars, IInv, TypeOK, RowsReferToViews, Saved
<1>. QED
  BY <1>2, <1>3, <1>4, <1>5, <1>6, <1>7, <1>8, <1>9, <1>10 DEF Next

\* Server and page keep the shape that GridViewUser and the collection of views
\* give them, whatever requests overlap or fail.
THEOREM TypeCorrect == Spec => []TypeOK
<1>1. Init => IInv
  BY InitInv
<1>2. IInv /\ [Next]_vars => IInv'
  BY NextInv
<1>3. IInv => TypeOK
  BY DEF IInv
<1>. QED
  BY <1>1, <1>2, <1>3, PTL DEF Spec

\* However many views there are and however their requests overlap, fail or are
\* lost, the stored default is a view that exists, and a user who has chosen one
\* has one until it is deleted (setDefaultGridView and the cascade).
THEOREM DefaultCorrect == Spec => DefaultLostOnlyWithView
<1>1. Init => IInv
  BY InitInv
<1>2. IInv /\ [Next]_vars => IInv' /\ WithItsView
  BY NextInv
<1>3. IInv => RowsReferToViews
  BY DEF IInv
<1>4. WithItsView => (rows # {} /\ rows' = {} => \E v \in Saved : views'[v] = None)
  BY DEF WithItsView
<1>. QED
  BY <1>1, <1>2, <1>3, <1>4, PTL DEF Spec, DefaultLostOnlyWithView

-----------------------------------------------------------------------------
(***************************************************************************)
(* What the page shows.  As long as everything is in order there is at     *)
(* most one request, so the flags are behind the stored default by that    *)
(* request only, and what it read is still so when it is flushed.  The row *)
(* carries the name of its view, which is why isViewDefault, that compares *)
(* names, tells whether the view of the request is the default.            *)
(***************************************************************************)
\* The one row names the chosen view; the system view needs none.
RowIsChosen ==
    \/ rows = {} /\ chosen = All
    \/ chosen \in Saved \cup {All} /\ rows = {[alias |-> NameOf(chosen), view |-> chosen]}

\* A request that was not flushed: the page shows what is stored.
Ahead(r) ==
    /\ flags = {chosen}
    /\ r.kind = "use" => r.old = {chosen} /\ r.view # chosen /\ r.box
    /\ r.kind = "update" => (r.box <=> r.view = chosen)

\* What the server has read for it is what it would read now.
Read(r) ==
    /\ r.found = rows
    /\ r.already <=> \E x \in rows : x.alias = r.name
    /\ r.kind # "create" => r.view \in Saved \cup {All}
    /\ r.kind = "use" => r.name = NameOf(r.view)

\* A request that was flushed: the answer will bring the flags to the default.
Behind(r) ==
    /\ r.kind = "use" => flags = r.old /\ r.old # {} /\ r.view = chosen
    /\ r.kind = "create" =>
        IF r.box THEN r.view = chosen /\ \E v \in Ids \cup {All} : flags = {v} /\ v < r.view
                 ELSE flags = {chosen}
    /\ r.kind = "update" => flags = {chosen} /\ (r.box <=> r.view = chosen)
    /\ r.kind = "delete" => \/ flags = {chosen} /\ r.view # chosen
                            \/ flags = {r.view} /\ chosen = All

Under(r) ==
    /\ r.phase = "failed" => flags = {chosen}
    /\ r.phase = "sent" => Ahead(r)
    /\ r.phase = "checked" => Ahead(r) /\ Read(r)
    /\ r.phase = "done" => Behind(r)

Calm ==
    /\ NamesDiffer(views)
    /\ RowIsChosen
    /\ \A s, t \in Slots : s = t \/ requests[s].phase = "free" \/ requests[t].phase = "free"
    /\ \A s \in Slots : Under(requests[s])
    /\ Quiet => flags = {chosen}

Shown ==
    /\ \A v \in Saved : v < nextId
    /\ orderly => Calm

\* When one slot is in use, the others are free before and after its step.
LEMMA Others ==
    ASSUME IInv, NEW s \in Slots, NEW r, Set(s, r),
           \A t \in Slots : t = s \/ requests[t].phase = "free"
    PROVE  requests'[s] = r /\ \A t \in Slots : t = s \/ requests'[t].phase = "free"
<1>1. requests \in [Slots -> Requests \cup {Free, Failed}]
  BY DEF IInv, TypeOK
<1>2. requests' = [requests EXCEPT ![s] = r]
  BY DEF Set
<1>3. requests'[s] = r /\ \A t \in Slots : t # s => requests'[t] = requests[t]
  BY <1>1, <1>2
<1>. QED
  BY <1>3

\* What is left to show when the only request takes a step.
LEMMA CalmAgain ==
    ASSUME IInv, NEW s \in Slots, NEW r, Set(s, r),
           \A t \in Slots : t = s \/ requests[t].phase = "free",
           NamesDiffer(views)', RowIsChosen', Under(r)',
           r.phase = "free" => flags' = {chosen'}
    PROVE  Calm'
<1>1. requests'[s] = r /\ \A t \in Slots : t = s \/ requests'[t].phase = "free"
  BY Others
<1>2. ASSUME NEW t \in Slots PROVE Under(requests[t])'
  <2>1. CASE t = s
    BY <2>1, <1>1 DEF Under, Ahead, Read, Behind
  <2>2. CASE t # s
    BY <2>2, <1>1 DEF Under
  <2>. QED
    BY <2>1, <2>2
<1>3. Quiet' => flags' = {chosen'}
  BY <1>1 DEF Quiet
<1>4. (\A t, u \in Slots : t = u \/ requests[t].phase = "free" \/ requests[u].phase = "free")'
  BY <1>1
<1>. QED
  BY <1>2, <1>3, <1>4 DEF Calm

\* With one row and names that differ, the defaults are the chosen view alone,
\* also by the names of the list.
LEMMA OneDefault ==
    ASSUME IInv, NamesDiffer(views), RowIsChosen
    PROVE  /\ Defaults = {chosen} /\ chosen \in Saved \cup {All}
           /\ rows # {} => Marked = {chosen}
           /\ \A v \in Saved \cup {All} : NameOf(v) = NameOf(chosen) => v = chosen
<1>1. chosen \in Saved \cup {All} /\ All \notin Ids
  BY DEF RowIsChosen, Ids, All
<1>2. \A v \in Saved \cup {All} : NameOf(v) = NameOf(chosen) => v = chosen
  BY <1>1 DEF NamesDiffer, NameOf, Saved
<1>3. Defaults = {chosen}
  <2>1. CASE rows = {} /\ chosen = All
    BY <2>1 DEF Defaults
  <2>2. CASE rows = {[alias |-> NameOf(chosen), view |-> chosen]}
    <3>1. rows # {} /\ \A x : x \in rows <=> x = [alias |-> NameOf(chosen), view |-> chosen]
      BY <2>2
    <3>2. {x.view : x \in rows} = {chosen}
      BY <3>1
    <3>. QED
      BY <3>1, <3>2 DEF Defaults
  <2>. QED
    BY <2>1, <2>2 DEF RowIsChosen
<1>4. rows # {} => Marked = {chosen}
  BY <1>1, <1>2 DEF RowIsChosen, Marked
<1>. QED
  BY <1>1, <1>2, <1>3, <1>4

LEMMA InitShown == Init => Shown
<1>. SUFFICES ASSUME Init PROVE Shown
  OBVIOUS
<1>1. IInv
  BY InitInv
<1>2. \A v \in Saved : v < nextId
  BY DEF Init, Ids
<1>3. ASSUME orderly PROVE Calm
  <2>1. NamesDiffer(views) /\ rows # {}
    BY <1>3 DEF Init
  <2>2. PICK v \in Saved \cup {All} : rows = {[alias |-> NameOf(v), view |-> v]}
    BY <2>1 DEF Init
  <2>3. chosen = v /\ RowIsChosen
    BY <2>2 DEF Init, Defaults, RowIsChosen
  <2>4. flags = {chosen}
    BY <1>1, <2>1, <2>3, OneDefault DEF Init
  <2>5. \A s \in Slots : requests[s].phase = "free"
    BY DEF Init, Free
  <2>. QED
    BY <2>1, <2>3, <2>4, <2>5 DEF Calm, Under
<1>. QED
  BY <1>2, <1>3 DEF Shown

LEMMA SendsShown == IInv /\ Shown /\ ClientSends => Shown'
<1>. SUFFICES ASSUME IInv, Shown, ClientSends, orderly' PROVE Calm'
  BY DEF ClientSends, Shown, Saved
<1>1. UNCHANGED <<nextId, views, rows, chosen, models, flags, current>>
  BY DEF ClientSends
<1>2. ASSUME NEW kind, NEW renames \in BOOLEAN, NEW v, NEW name, NEW box \in BOOLEAN,
             kind = "use" => v \notin flags /\ box,
             kind = "update" /\ ~renames => (box <=> v \in flags),
             Send(kind, renames, v, name, box)
      PROVE  Calm'
  <2>1. PICK s \in Idle :
          /\ OrderlyIf(Idle = Slots /\ (renames => (box <=> v \in flags)))
          /\ Set(s, [phase |-> "sent", kind |-> kind, renames |-> renames, view |-> v,
                     name |-> name, box |-> box,
                     old |-> IF kind = "use" THEN FirstOf(flags) ELSE {},
                     already |-> FALSE, found |-> {}])
    BY <1>2 DEF Send
  <2>2. Idle = Slots /\ (renames => (box <=> v \in flags)) /\ Calm
    BY <2>1 DEF OrderlyIf, Shown
  <2>3. flags = {chosen} /\ FirstOf(flags) = {chosen}
    <3>1. flags = {chosen} /\ chosen \in Nat
      BY <2>2 DEF Idle, Quiet, Calm, IInv, TypeOK, Ids, All
    <3>. QED
      BY <3>1 DEF FirstOf
  <2>4. PICK r : /\ r = [phase |-> "sent", kind |-> kind, renames |-> renames, view |-> v,
                         name |-> name, box |-> box,
                         old |-> IF kind = "use" THEN FirstOf(flags) ELSE {},
                         already |-> FALSE, found |-> {}]
                 /\ Set(s, r)
    BY <2>1
  <2>5. /\ r.phase = "sent" /\ r.kind = kind /\ r.view = v /\ (r.box <=> box)
        /\ kind = "use" => r.old = {chosen}
    BY <2>3, <2>4
  <2>6. Under(r)'
    BY <1>1, <1>2, <2>2, <2>3, <2>5 DEF Under, Ahead
  <2>7. NamesDiffer(views)' /\ RowIsChosen'
    BY <1>1, <2>2 DEF Calm, NamesDiffer, NameOf, RowIsChosen, Saved
  <2>8. s \in Slots /\ \A t \in Slots : requests[t].phase = "free"
    BY <2>2 DEF Idle
  <2>. QED
    BY <2>4, <2>5, <2>6, <2>7, <2>8, CalmAgain
<1>3. CASE UseAsDefault
  BY <1>2, <1>3 DEF UseAsDefault
<1>4. CASE Save
  <2>1. (current \in flags) \in BOOLEAN
    OBVIOUS
  <2>2. Send("update", FALSE, current, views[current], current \in flags)
    BY <1>4 DEF Save
  <2>. QED
    BY <1>2, <2>1, <2>2
<1>5. CASE Delete
  BY <1>2, <1>5 DEF Delete
<1>6. ASSUME NEW name \in Names, NEW box \in BOOLEAN, SaveAs(name, box) \/ Rename(name, box)
      PROVE  Calm'
  BY <1>2, <1>6 DEF SaveAs, Rename
<1>. QED
  BY <1>3, <1>4, <1>5, <1>6 DEF ClientSends

LEMMA AnswerShown == ASSUME IInv, Shown, NEW s \in Slots, Answer(s) PROVE Shown'
<1>1. PICK r : r = requests[s]
  OBVIOUS
<1>2. /\ r.phase = "done" /\ Set(s, Free)
      /\ UNCHANGED <<nextId, views, rows, chosen, orderly>>
      /\ \/ r.kind = "use" /\ Used(r)
         \/ r.kind = "create" /\ Created(r)
         \/ r.kind = "update" /\ Updated(r)
         \/ r.kind = "delete" /\ Deleted(r)
  BY <1>1 DEF Answer
<1>. SUFFICES ASSUME orderly' PROVE Calm'
  BY <1>2 DEF Shown, Saved
<1>3. Calm /\ Behind(r)
  BY <1>1, <1>2 DEF Shown, Calm, Under
<1>4. \A t \in Slots : t = s \/ requests[t].phase = "free"
  BY <1>1, <1>2, <1>3 DEF Calm
<1>5. flags' = {chosen'}
  <2>0. chosen \in Nat /\ chosen' = chosen
    BY <1>2 DEF IInv, TypeOK, Ids, All
  <2>1. CASE r.kind = "use" /\ Used(r)
    BY <2>0, <2>1, <1>3 DEF Used, Behind
  <2>2. CASE r.kind = "create" /\ Created(r)
    <3>1. CASE r.box
      <4>1. PICK v \in Ids \cup {All} : flags = {v} /\ v < r.view /\ r.view = chosen
        BY <2>2, <3>1, <1>3 DEF Behind
      <4>2. v \in Nat
        BY <4>1 DEF Ids, All
      <4>3. FirstOf(flags \cup {r.view}) = {v}
        BY <2>0, <4>1, <4>2 DEF FirstOf
      <4>. QED
        BY <2>0, <2>2, <3>1, <4>1, <4>2, <4>3 DEF Created
    <3>2. CASE ~r.box
      BY <2>0, <2>2, <3>2, <1>3 DEF Created, Behind
    <3>. QED
      BY <3>1, <3>2
  <2>3. CASE r.kind = "update" /\ Updated(r)
    <3>1. flags = {chosen} /\ (r.box <=> r.view = chosen)
      BY <2>3, <1>3 DEF Behind
    <3>2. FirstOf({chosen}) = {chosen}
      BY <2>0 DEF FirstOf
    <3>3. (IF r.box THEN flags \cup {r.view} ELSE flags \ {r.view}) = {chosen}
      BY <3>1
    <3>. QED
      BY <2>0, <2>3, <3>1, <3>2, <3>3 DEF Updated
  <2>4. CASE r.kind = "delete" /\ Deleted(r)
    BY <2>0, <2>4, <1>3 DEF Deleted, Behind
  <2>. QED
    BY <2>1, <2>2, <2>3, <2>4, <1>2
<1>6. NamesDiffer(views)' /\ RowIsChosen'
  BY <1>2, <1>3 DEF Calm, NamesDiffer, NameOf, RowIsChosen, Saved
<1>7. Under(Free)'
  BY DEF Under, Free
<1>. QED
  BY <1>2, <1>4, <1>5, <1>6, <1>7, CalmAgain

LEMMA FailShown == ASSUME IInv, Shown, NEW s \in Slots, Fail(s) PROVE Shown'
<1>1. Set(s, Free) /\ UNCHANGED <<nextId, views, rows, chosen, models, flags, current>>
  BY DEF Fail
<1>. SUFFICES ASSUME orderly' PROVE Calm'
  BY <1>1 DEF Shown, Saved
<1>2. requests[s].phase = "failed" /\ Calm
  BY DEF Fail, Disorderly, Shown
<1>3. flags = {chosen} /\ \A t \in Slots : t = s \/ requests[t].phase = "free"
  BY <1>2 DEF Calm, Under
<1>4. NamesDiffer(views)' /\ RowIsChosen'
  BY <1>1, <1>2 DEF Calm, NamesDiffer, NameOf, RowIsChosen, Saved
<1>5. Under(Free)'
  BY DEF Under, Free
<1>. QED
  BY <1>1, <1>3, <1>4, <1>5, CalmAgain

LEMMA LoadShown == IInv /\ Shown /\ Load => Shown'
<1>. SUFFICES ASSUME IInv, Shown, Load, orderly' PROVE Calm'
  BY DEF Load, Shown, Saved
<1>1. /\ Quiet /\ flags' = Marked /\ rows # {} /\ Calm
      /\ UNCHANGED <<requests, nextId, views, rows, chosen>>
  BY DEF Load, OrderlyIf, Shown
<1>2. flags' = {chosen'}
  BY <1>1, OneDefault DEF Calm
<1>3. NamesDiffer(views)' /\ RowIsChosen'
  BY <1>1 DEF Calm, NamesDiffer, NameOf, RowIsChosen, Saved
<1>4. \A t \in Slots : requests'[t].phase = "free"
  BY <1>1 DEF Quiet
<1>. QED
  BY <1>2, <1>3, <1>4 DEF Calm, Under

LEMMA CheckShown == ASSUME IInv, Shown, NEW s \in Slots, Check(s) PROVE Shown'
<1>1. PICK r : r = requests[s]
  OBVIOUS
<1>. DEFINE accepted == \/ r.kind \in {"use", "delete"} /\ r.view \in Saved \cup {All}
                        \/ r.kind = "create" /\ NameFree(r.name, All)
                        \/ r.kind = "update" /\ r.view \in Saved /\ NameFree(r.name, r.view)
            name == IF r.kind = "use" THEN NameOf(r.view) ELSE r.name
            already == \E x \in rows : x.alias = name
<1>2. /\ r.phase = "sent"
      /\ Set(s, IF ~accepted
                THEN Failed
                ELSE [r EXCEPT !.phase = "checked", !.name = name,
                               !.already = already, !.found = rows])
      /\ UNCHANGED <<nextId, views, rows, chosen, orderly, models, flags, current>>
  BY <1>1 DEF Check
<1>. SUFFICES ASSUME orderly' PROVE Calm'
  BY <1>2 DEF Shown, Saved
<1>3. Calm /\ Ahead(r)
  BY <1>1, <1>2 DEF Shown, Calm, Under
<1>4. \A t \in Slots : t = s \/ requests[t].phase = "free"
  BY <1>1, <1>2, <1>3 DEF Calm
<1>5. NamesDiffer(views)' /\ RowIsChosen'
  BY <1>2, <1>3 DEF Calm, NamesDiffer, NameOf, RowIsChosen, Saved
<1>6. CASE ~accepted
  <2>1. Set(s, Failed) /\ Failed.phase = "failed"
    BY <1>2, <1>6 DEF Failed
  <2>2. Under(Failed)'
    BY <1>2, <1>3, <2>1 DEF Under, Ahead
  <2>. QED
    BY <1>4, <1>5, <2>1, <2>2, CalmAgain
<1>7. CASE accepted
  <2>1. r \in Requests
    BY <1>1, <1>2, HoldsRequest DEF IInv
  <2>2. PICK q : /\ q = [r EXCEPT !.phase = "checked", !.name = name,
                                  !.already = already, !.found = rows]
                 /\ Set(s, q)
    BY <1>2, <1>7
  <2>3. r.kind # "create" => r.view \in Saved \cup {All}
    BY <1>7
  <2>4. r.kind = "use" => name = NameOf(r.view)
    OBVIOUS
  <2>. HIDE DEF accepted, name
  <2>5. q.already <=> \E x \in rows : x.alias = name
    BY <2>1, <2>2 DEF Requests
  <2>. HIDE DEF already
  <2>6. /\ q.phase = "checked" /\ q.kind = r.kind /\ q.view = r.view /\ q.old = r.old
        /\ q.name = name /\ q.found = rows
    BY <2>1, <2>2 DEF Requests
  <2>7. q.box <=> r.box
    BY <2>1, <2>2 DEF Requests
  <2>8. Ahead(q)
    BY <1>3, <2>6, <2>7 DEF Ahead
  <2>9. Read(q)
    BY <2>3, <2>4, <2>5, <2>6 DEF Read
  <2>10. Under(q)'
    BY <1>2, <2>6, <2>8, <2>9 DEF Under, Ahead, Read, NameOf, Saved
  <2>. QED
    BY <1>4, <1>5, <2>2, <2>6, <2>10, CalmAgain
<1>. QED
  BY <1>6, <1>7

\* What a flushed request carries on to its answer.
LEMMA DoneFields ==
    ASSUME NEW r \in Requests, NEW v \in Ids \cup {All}
    PROVE  /\ Done(r, v).phase = "done" /\ Done(r, v).kind = r.kind
           /\ Done(r, v).view = v /\ Done(r, v).old = r.old
           /\ Done(r, v).box <=> r.box
BY DEF Done, Requests

\* With one row, the new one takes its place.
LEMMA RowReplaced ==
    ASSUME NEW r, NEW v, Read(r), r.box, ~r.already, SetDefaultGridView(r, v)
    PROVE  rows' = {[alias |-> r.name, view |-> v]}
BY DEF Read, SetDefaultGridView

LEMMA CreateShown ==
    ASSUME IInv, Shown, NEW s \in Slots, requests[s].phase = "checked", Commit(s), CommitCreate(s)
    PROVE  Shown'
<1>1. PICK r : r = requests[s]
  OBVIOUS
<1>2. /\ r \in Requests /\ WellFormed(r) /\ r.phase = "checked"
      /\ views \in [Ids -> StoredNames \cup {None}]
  BY <1>1, HoldsRequest DEF IInv, TypeOK, StoredNames
<1>3. /\ r.kind = "create" /\ nextId \in Ids /\ nextId' = nextId + 1
      /\ views' = [views EXCEPT ![nextId] = r.name]
      /\ SetDefaultGridView(r, nextId)
      /\ chosen' = IF r.box THEN nextId ELSE chosen
      /\ Set(s, Done(r, nextId))
  BY <1>1 DEF CommitCreate
<1>4. r.name # None
  BY <1>2, <1>3, GridViewsAssumption DEF WellFormed, StoredNames
<1>5. Saved' = Saved \cup {nextId} /\ nextId \in Nat /\ nextId > 0
  BY <1>2, <1>3, <1>4 DEF Saved, Ids
<1>6. \A v \in Saved' : v < nextId'
  BY <1>3, <1>5 DEF Shown, Saved, Ids
<1>. SUFFICES ASSUME orderly' PROVE Calm'
  BY <1>6 DEF Shown
<1>7. Calm /\ NamesDiffer(views') /\ UNCHANGED <<models, flags, current>>
  BY DEF Commit, OrderlyIf, Shown
<1>8. Ahead(r) /\ Read(r) /\ \A t \in Slots : t = s \/ requests[t].phase = "free"
  BY <1>1, <1>2, <1>7 DEF Calm, Under
<1>9. /\ chosen \in Saved \cup {All} /\ chosen \in Nat /\ chosen < nextId
  BY <1>5, <1>7 DEF Calm, RowIsChosen, Shown, Saved, Ids, All
<1>10. /\ chosen # nextId /\ views'[nextId] = r.name
       /\ (IF chosen = All THEN "__all__" ELSE views'[chosen]) = NameOf(chosen)
  BY <1>2, <1>3, <1>9 DEF NameOf, Saved
<1>11. r.name # NameOf(chosen)
  <2>1. CASE chosen = All
    BY <2>1, <1>3, <1>4, <1>7, <1>10 DEF NamesDiffer, NameOf
  <2>2. CASE chosen # All
    BY <2>2, <1>3, <1>4, <1>7, <1>9, <1>10 DEF NamesDiffer, NameOf, Saved
  <2>. QED
    BY <2>1, <2>2
<1>12. ~r.already
  BY <1>7, <1>8, <1>11 DEF Read, Calm, RowIsChosen
<1>13. RowIsChosen'
  <2>1. CASE r.box
    <3>1. rows' = {[alias |-> r.name, view |-> nextId]} /\ chosen' = nextId
      BY <2>1, <1>3, <1>8, <1>12, RowReplaced
    <3>2. NameOf(chosen)' = r.name
      BY <3>1, <1>5, <1>10 DEF NameOf, All
    <3>. QED
      BY <3>1, <3>2, <1>5 DEF RowIsChosen
  <2>2. CASE ~r.box
    <3>1. rows' = rows /\ chosen' = chosen
      BY <2>2, <1>3 DEF SetDefaultGridView
    <3>2. NameOf(chosen)' = NameOf(chosen)
      BY <3>1, <1>10 DEF NameOf
    <3>. QED
      BY <3>1, <3>2, <1>5, <1>7 DEF RowIsChosen, Calm
  <2>. QED
    BY <2>1, <2>2
<1>14. PICK q : q = Done(r, nextId)
  OBVIOUS
<1>15. q.phase = "done" /\ q.kind = "create" /\ q.view = nextId /\ (q.box <=> r.box)
  BY <1>2, <1>3, <1>14, DoneFields
<1>16. Under(q)'
  <2>1. flags' = {chosen} /\ chosen \in Ids \cup {All}
    BY <1>7, <1>8 DEF Ahead, IInv, TypeOK
  <2>2. CASE q.box
    <3>1. chosen' = q.view
      BY <2>2, <1>3, <1>15
    <3>. QED
      BY <2>1, <2>2, <3>1, <1>9, <1>15 DEF Under, Behind
  <2>3. CASE ~q.box
    BY <2>1, <2>3, <1>3, <1>15 DEF Under, Behind
  <2>. QED
    BY <2>2, <2>3
<1>17. NamesDiffer(views)'
  BY <1>7 DEF NamesDiffer, NameOf
<1>18. Set(s, q)
  BY <1>3, <1>14
<1>. QED
  BY <1>8, <1>13, <1>15, <1>16, <1>17, <1>18, CalmAgain

LEMMA ChangeShown ==
    ASSUME IInv, Shown, NEW s \in Slots, requests[s].phase = "checked", Commit(s), CommitChange(s)
    PROVE  Shown'
<1>1. PICK r : r = requests[s]
  OBVIOUS
<1>2. /\ r \in Requests /\ WellFormed(r) /\ r.phase = "checked"
      /\ views \in [Ids -> StoredNames \cup {None}]
  BY <1>1, HoldsRequest DEF IInv, TypeOK, StoredNames
<1>. DEFINE gone == r.view \notin Saved \cup {All}
<1>3. /\ r.kind \in {"use", "update"}
      /\ IF gone /\ r.box /\ ~r.already
         THEN /\ Set(s, Failed)
              /\ UNCHANGED <<views, rows, chosen>>
         ELSE /\ Set(s, Done(r, r.view))
              /\ views' = IF r.kind = "use" \/ gone THEN views
                          ELSE [views EXCEPT ![r.view] = r.name]
              /\ SetDefaultGridView(r, r.view)
              /\ chosen' = IF r.box THEN r.view ELSE chosen
      /\ UNCHANGED nextId
  BY <1>1 DEF CommitChange
<1>4. r.kind = "update" => r.view \in Ids /\ r.name # None
  BY <1>2, GridViewsAssumption DEF WellFormed, StoredNames
<1>5. Saved' = Saved
  <2>1. CASE views' = views
    BY <2>1 DEF Saved
  <2>2. CASE ~gone /\ r.kind = "update" /\ views' = [views EXCEPT ![r.view] = r.name]
    <3>1. r.view \in Saved /\ r.name # None
      BY <2>2, <1>4 DEF Ids, All
    <3>. QED
      BY <2>2, <3>1, <1>2 DEF Saved
  <2>. QED
    BY <2>1, <2>2, <1>3
<1>. SUFFICES ASSUME orderly' PROVE Calm'
  BY <1>3, <1>5 DEF Shown
<1>6. Calm /\ NamesDiffer(views') /\ UNCHANGED <<models, flags, current>>
  BY DEF Commit, OrderlyIf, Shown
<1>7. Ahead(r) /\ Read(r) /\ \A t \in Slots : t = s \/ requests[t].phase = "free"
  BY <1>1, <1>2, <1>6 DEF Calm, Under
<1>8. ~gone
  BY <1>3, <1>7 DEF Read
<1>9. /\ Set(s, Done(r, r.view)) /\ SetDefaultGridView(r, r.view)
      /\ views' = IF r.kind = "use" THEN views ELSE [views EXCEPT ![r.view] = r.name]
      /\ chosen' = IF r.box THEN r.view ELSE chosen
  BY <1>3, <1>8
<1>. HIDE DEF gone
<1>10. /\ chosen \in Saved \cup {All}
       /\ \A v \in Saved \cup {All} : NameOf(v) = NameOf(chosen) => v = chosen
       /\ r.view \in Saved \cup {All} /\ (r.kind = "update" => r.view \in Saved /\ r.view # All)
  BY <1>3, <1>4, <1>6, <1>7, OneDefault DEF Calm, Read, Ids, All
<1>11. NameOf(r.view)' = r.name
  <2>1. CASE r.kind = "use"
    BY <2>1, <1>7, <1>9 DEF NameOf, Read
  <2>2. CASE r.kind = "update"
    BY <2>2, <1>2, <1>9, <1>10 DEF NameOf, Saved
  <2>. QED
    BY <2>1, <2>2, <1>3
<1>12. CASE ~r.box
  <2>1. r.kind = "update" /\ r.view # chosen /\ rows' = rows /\ chosen' = chosen
    BY <1>3, <1>7, <1>9, <1>12 DEF Ahead, SetDefaultGridView
  <2>2. NameOf(chosen)' = NameOf(chosen)
    BY <2>1, <1>2, <1>9, <1>10 DEF NameOf, Saved
  <2>3. RowIsChosen'
    BY <2>1, <2>2, <1>5, <1>6 DEF RowIsChosen, Calm
  <2>4. PICK q : q = Done(r, r.view)
    OBVIOUS
  <2>5. q.phase = "done" /\ q.kind = "update" /\ q.view = r.view /\ ~q.box
    BY <2>1, <2>4, <1>2, <1>10, <1>12, DoneFields DEF Saved
  <2>6. flags' = {chosen'}
    BY <2>1, <1>6, <1>7 DEF Ahead
  <2>7. Under(q)'
    BY <2>1, <2>5, <2>6 DEF Under, Behind
  <2>8. NamesDiffer(views)'
    BY <1>6 DEF NamesDiffer, NameOf
  <2>9. Set(s, q)
    BY <2>4, <1>9
  <2>. QED
    BY <2>3, <2>5, <2>7, <2>8, <2>9, <1>7, CalmAgain
<1>13. CASE r.box
  <2>1. chosen' = r.view
    BY <1>9, <1>13
  <2>2. rows' = {[alias |-> r.name, view |-> r.view]}
    <3>1. CASE ~r.already
      BY <3>1, <1>7, <1>9, <1>13, RowReplaced
    <3>2. CASE r.already
      <4>1. rows' = rows
        BY <3>2, <1>9 DEF SetDefaultGridView
      <4>2. \E x \in rows : x.alias = r.name
        BY <3>2, <1>7 DEF Read
      <4>3. rows = {[alias |-> NameOf(chosen), view |-> chosen]} /\ r.name = NameOf(chosen)
        BY <4>2, <1>6 DEF Calm, RowIsChosen
      <4>4. r.view = chosen
        BY <4>3, <1>3, <1>7, <1>10, <1>13 DEF Read, Ahead
      <4>. QED
        BY <4>1, <4>3, <4>4
    <3>. QED
      BY <3>1, <3>2
  <2>3. RowIsChosen'
    BY <2>1, <2>2, <1>5, <1>10, <1>11 DEF RowIsChosen
  <2>4. PICK q : q = Done(r, r.view)
    OBVIOUS
  <2>5. q.phase = "done" /\ q.kind = r.kind /\ q.view = r.view /\ q.old = r.old /\ q.box
    BY <2>4, <1>2, <1>10, <1>13, DoneFields DEF Saved
  <2>6. Under(q)'
    <3>1. flags' = {chosen}
      BY <1>6, <1>7 DEF Ahead
    <3>2. CASE r.kind = "use"
      BY <2>1, <2>5, <3>1, <3>2, <1>7 DEF Under, Behind, Ahead
    <3>3. CASE r.kind = "update"
      BY <2>1, <2>5, <3>1, <3>3, <1>7, <1>13 DEF Under, Behind, Ahead
    <3>. QED
      BY <3>2, <3>3, <1>3
  <2>7. NamesDiffer(views)'
    BY <1>6 DEF NamesDiffer, NameOf
  <2>8. Set(s, q)
    BY <2>4, <1>9
  <2>. QED
    BY <2>3, <2>5, <2>6, <2>7, <2>8, <1>7, CalmAgain
<1>. QED
  BY <1>12, <1>13

LEMMA DeleteShown ==
    ASSUME IInv, Shown, NEW s \in Slots, requests[s].phase = "checked", Commit(s), CommitDelete(s)
    PROVE  Shown'
<1>1. PICK r : r = requests[s]
  OBVIOUS
<1>2. /\ r \in Requests /\ WellFormed(r) /\ r.phase = "checked"
      /\ views \in [Ids -> StoredNames \cup {None}]
  BY <1>1, HoldsRequest DEF IInv, TypeOK, StoredNames
<1>3. /\ r.kind = "delete" /\ RemoveView(r.view)
      /\ Set(s, Done(r, r.view)) /\ UNCHANGED nextId
  BY <1>1 DEF CommitDelete
<1>4. r.view \in Ids /\ r.view # All
  BY <1>2, <1>3 DEF WellFormed, Ids, All
<1>5. /\ views' = [views EXCEPT ![r.view] = None]
      /\ rows' = {x \in rows : x.view # r.view}
      /\ chosen' = IF chosen = r.view THEN All ELSE chosen
  BY <1>3 DEF RemoveView
<1>6. Saved' = Saved \ {r.view}
  BY <1>2, <1>4, <1>5 DEF Saved
<1>. SUFFICES ASSUME orderly' PROVE Calm'
  BY <1>3, <1>6 DEF Shown
<1>7. Calm /\ NamesDiffer(views') /\ UNCHANGED <<models, flags, current>>
  BY DEF Commit, OrderlyIf, Shown
<1>8. Ahead(r) /\ \A t \in Slots : t = s \/ requests[t].phase = "free"
  BY <1>1, <1>2, <1>7 DEF Calm, Under
<1>9. PICK q : q = Done(r, r.view)
  OBVIOUS
<1>10. q.phase = "done" /\ q.kind = "delete" /\ q.view = r.view
  BY <1>2, <1>3, <1>4, <1>9, DoneFields
<1>11. flags' = {chosen}
  BY <1>7, <1>8 DEF Ahead
<1>12. CASE chosen = r.view
  <2>1. chosen' = All /\ rows' = {}
    BY <1>4, <1>5, <1>7, <1>12 DEF Calm, RowIsChosen
  <2>2. Under(q)' /\ RowIsChosen'
    BY <2>1, <1>10, <1>11, <1>12 DEF Under, Behind, RowIsChosen
  <2>3. NamesDiffer(views)' /\ Set(s, q)
    BY <1>3, <1>7, <1>9 DEF NamesDiffer, NameOf
  <2>. QED
    BY <2>2, <2>3, <1>8, <1>10, CalmAgain
<1>13. CASE chosen # r.view
  <2>1. chosen' = chosen /\ rows' = rows
    BY <1>5, <1>7, <1>13 DEF Calm, RowIsChosen
  <2>2. NameOf(chosen)' = NameOf(chosen)
    BY <2>1, <1>2, <1>4, <1>5, <1>7, <1>13 DEF NameOf, Calm, RowIsChosen, Saved
  <2>3. RowIsChosen'
    BY <2>1, <2>2, <1>6, <1>7, <1>13 DEF Calm, RowIsChosen
  <2>4. Under(q)'
    BY <2>1, <1>10, <1>11, <1>13 DEF Under, Behind
  <2>5. NamesDiffer(views)' /\ Set(s, q)
    BY <1>3, <1>7, <1>9 DEF NamesDiffer, NameOf
  <2>. QED
    BY <2>3, <2>4, <2>5, <1>8, <1>10, CalmAgain
<1>. QED
  BY <1>12, <1>13

LEMMA NextShown == IInv /\ Shown /\ [Next]_vars => Shown'
<1>. SUFFICES ASSUME IInv, Shown, [Next]_vars PROVE Shown'
  OBVIOUS
<1>1. ASSUME NEW v \in models \cup {All}, ChangeView(v) PROVE Shown'
  BY <1>1 DEF ChangeView, Shown, Calm, NamesDiffer, NameOf, RowIsChosen, Saved, Quiet,
              Under, Ahead, Read, Behind
<1>2. ASSUME NEW s \in Slots, Commit(s) PROVE Shown'
  BY <1>2, CreateShown, ChangeShown, DeleteShown DEF Commit
<1>3. ASSUME NEW v \in Foreign, OtherOwner(v) PROVE Shown'
  <2>1. Saved' \subseteq Saved /\ nextId' = nextId /\ ~orderly'
    <3>1. /\ v \in Saved /\ \A w \in Ids \ {v} : views'[w] = views[w]
          /\ nextId' = nextId /\ ~orderly'
      BY <1>3 DEF OtherOwner, RemoveView, Disorderly, IInv, TypeOK
    <3>. QED
      BY <3>1 DEF Saved
  <2>. QED
    BY <2>1 DEF Shown
<1>4. CASE UNCHANGED vars
  BY <1>4 DEF vars, Shown, Calm, NamesDiffer, NameOf, RowIsChosen, Saved, Quiet,
              Under, Ahead, Read, Behind
<1>. QED
  BY <1>1, <1>2, <1>3, <1>4, SendsShown, CheckShown, AnswerShown, FailShown, LoadShown DEF Next

\* As long as requests do not overlap and everything else is in order, the view
\* that is flagged on the page, the one that the grid will be opened with and the
\* one that was chosen last are the same, however the requests are sent, rejected
\* and answered (onUseAsDefault and the other handlers of view.js,
\* setDefaultGridView of GridViewManager).
THEOREM ShownCorrect == Spec => []ShownIsStored
<1>1. Init => IInv /\ Shown
  BY InitInv, InitShown
<1>2. IInv /\ Shown /\ [Next]_vars => IInv' /\ Shown'
  BY NextInv, NextShown
<1>3. IInv /\ Shown => ShownIsStored
  BY OneDefault DEF Shown, Calm, ShownIsStored
<1>. QED
  BY <1>1, <1>2, <1>3, PTL DEF Spec

=============================================================================

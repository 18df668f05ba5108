----------------------------- MODULE GridViews ------------------------------
(***************************************************************************)
(* The default view of a grid: which of its saved views a user gets when   *)
(* the grid is opened.  The server keeps it in GridViewUser rows that name *)
(* the view twice, by an alias and by a reference (GridViewManager.php);   *)
(* the client keeps an is_default flag on each model of its collection of  *)
(* views and moves the flag itself when a request succeeds                 *)
(* (datagrid/grid-views/view.js).                                          *)
(*                                                                         *)
(* One page, one user, one grid.  Views of other users are shared with     *)
(* this one and cannot be edited here.  Ids are given in ascending order   *)
(* and never again, which is also the order of the client's collection,    *)
(* where the system view comes first.                                      *)
(***************************************************************************)
EXTENDS Naturals, FiniteSets

CONSTANTS
    MaxId,          \* bound on the views ever created
    Names,          \* names a view of this user may get
    Foreign,        \* ids of views that other users share
    ForeignNames,   \* names their owners may give them
    Slots,          \* bound on the requests in flight
    Disturbances    \* other owners act, and answers get lost

All  == 0           \* the system view __all__
None == "none"
Ids  == 1 .. MaxId

ASSUME GridViewsAssumption ==
    /\ MaxId \in Nat
    /\ Foreign \subseteq Ids
    /\ None \notin Names \cup ForeignNames

VARIABLES
    nextId,     \* of the table's sequence
    views,      \* names of the saved views, None for an id without a view
    rows,       \* GridViewUser rows of this user and grid
    chosen,     \* ghost: the view of the last request for a default
    orderly,    \* ghost: none of the cases listed at Disorderly has occurred
    models,     \* the client's collection, the system view apart
    flags,      \* those of its models that have is_default
    current,    \* state.gridView
    requests    \* this page's requests, by slot

vars == <<nextId, views, rows, chosen, orderly, models, flags, current, requests>>

AllNames == Names \cup ForeignNames \cup {"__all__"}
Rows     == [alias : AllNames, view : Ids \cup {All}]
Free     == [phase |-> "free"]
Failed   == [phase |-> "failed"]
Requests ==
    [phase : {"sent", "checked", "done"},
     kind : {"use", "create", "update", "delete"}, renames : BOOLEAN,
     view : Ids \cup {All}, name : AllNames \cup {None}, box : BOOLEAN,
     old : SUBSET (Ids \cup {All}), already : BOOLEAN, found : SUBSET Rows]

TypeOK ==
    /\ nextId \in Nat
    /\ views \in [Ids -> Names \cup ForeignNames \cup {None}]
    /\ rows \subseteq Rows
    /\ chosen \in Ids \cup {All}
    /\ orderly \in BOOLEAN
    /\ models \subseteq Ids
    /\ flags \subseteq Ids \cup {All}
    /\ current \in models \cup {All}
    /\ requests \in [Slots -> Requests \cup {Free, Failed}]

Saved == {v \in Ids : views[v] # None}
Own   == Ids \ Foreign

NameOf(v) == IF v = All THEN "__all__" ELSE views[v]

\* getDefaultView; without a row the user gets the system view.
Defaults == IF rows = {} THEN {All} ELSE {r.view : r \in rows}

\* GridViewsLoadListener marks the views that have the default's name, and none
\* when there is no row: no view of the list is a default then.
Marked ==
    {v \in Saved \cup {All} : \E r \in rows : NameOf(v) = NameOf(r.view)}

\* No view has the name of another one or of the system view.
NamesDiffer(named) ==
    \A v \in Ids : named[v] # None =>
        /\ named[v] # NameOf(All)
        /\ \A w \in Ids \ {v} : named[w] # named[v]

\* _getCurrentDefaultViewModel, as the set of it: the first that is flagged.
FirstOf(set) == {v \in set : \A w \in set : v <= w}

Init ==
    /\ nextId \in Ids
    /\ views \in [Ids -> Names \cup ForeignNames \cup {None}]
    /\ \A v \in Foreign : views[v] \in ForeignNames
    /\ \A v \in Saved \ Foreign : views[v] \in Names
    /\ \A v, w \in Saved \ Foreign : v # w => views[v] # views[w]
    /\ Saved = 1 .. nextId - 1
    /\ rows \in {{}} \cup {{[alias |-> NameOf(v), view |-> v]} : v \in Saved \cup {All}}
    /\ chosen \in Defaults
    /\ orderly = (rows # {} /\ NamesDiffer(views))
    /\ models = Saved
    /\ flags = Marked
    /\ current \in Defaults
    /\ requests = [s \in Slots |-> Free]

(***************************************************************************)
(* The client sends a request.                                             *)
(***************************************************************************)
Idle == {s \in Slots : requests[s].phase = "free"}

Set(s, r) == requests' = [requests EXCEPT ![s] = r]

\* What the ghost leaves out: requests that overlap, the default box of the
\* rename dialog changed, a page without a default row, two views of one name,
\* another owner's change and a lost answer.
Disorderly == orderly' = FALSE

OrderlyIf(condition) == orderly' = (orderly /\ condition)

Send(kind, renames, v, name, box) ==
    \E s \in Idle :
        /\ OrderlyIf(Idle = Slots /\ (renames => (box <=> v \in flags)))
        /\ Set(s, [phase |-> "sent", kind |-> kind, renames |-> renames, view |-> v,
                name |-> name, box |-> box,
                old |-> IF kind = "use" THEN FirstOf(flags) ELSE {},
                already |-> FALSE, found |-> {}])

\* onUseAsDefault; on the system view it needs the current default model.
UseAsDefault ==
    /\ current \notin flags
    /\ current = All => flags # {}
    /\ Send("use", FALSE, current, NameOf(current), TRUE)

\* onSaveAs.
SaveAs(name, box) == Send("create", FALSE, All, name, box)

\* onRename, whose box shows the flag, and onSave, onShare and onUnshare, which
\* send the model as it is.
Rename(name, box) ==
    /\ current \in Own
    /\ Send("update", TRUE, current, name, box)

Save ==
    /\ current \in Own \cap Saved
    /\ Send("update", FALSE, current, views[current], current \in flags)

Delete ==
    /\ current \in Own
    /\ Send("delete", FALSE, current, None, FALSE)

ClientSends ==
    /\ \/ UseAsDefault \/ Save \/ Delete
       \/ \E name \in Names, box \in BOOLEAN : SaveAs(name, box) \/ Rename(name, box)
    /\ UNCHANGED <<nextId, views, rows, chosen, models, flags, current>>

\* A click on another view.
ChangeView(v) ==
    /\ current' = v
    /\ UNCHANGED <<nextId, views, rows, chosen, orderly, models, flags, requests>>

(***************************************************************************)
(* The server handles it: what it reads, then what it flushes.             *)
(***************************************************************************)
\* The form's UniqueEntity constraint.
NameFree(name, v) == \A w \in Saved \cap Own : w # v => views[w] # name

\* isViewDefault compares the alias; findDefaultGridViews has all rows.
Check(s) ==
    LET r == requests[s]
        accepted == \/ r.kind \in {"use", "delete"} /\ r.view \in Saved \cup {All}
                    \/ r.kind = "create" /\ NameFree(r.name, All)
                    \/ r.kind = "update" /\ r.view \in Saved /\ NameFree(r.name, r.view)
        name == IF r.kind = "use" THEN NameOf(r.view) ELSE r.name
    IN  /\ r.phase = "sent"
        /\ Set(s, IF ~accepted
                  THEN Failed
                  ELSE [r EXCEPT !.phase = "checked", !.name = name,
                                 !.already = \E x \in rows : x.alias = name,
                                 !.found = rows])
        /\ UNCHANGED <<nextId, views, rows, chosen, orderly, models, flags, current>>

\* setDefaultGridView and flush: the rows that were found go, the new one comes.
\* (Definitions named for a mistake are mutants of the one that follows.)
SystemViewOnlyUnsets(r, v) ==
    rows' = IF ~r.box \/ r.already THEN rows
            ELSE (rows \ r.found) \cup (IF v = All THEN {} ELSE {[alias |-> r.name, view |-> v]})

SetDefaultGridView(r, v) ==
    rows' = IF ~r.box \/ r.already THEN rows
            ELSE (rows \ r.found) \cup {[alias |-> r.name, view |-> v]}

Done(r, v) == [r EXCEPT !.phase = "done", !.view = v, !.name = None,
                        !.already = FALSE, !.found = {}]

CommitCreate(s) ==
    LET r == requests[s]
    IN  /\ r.kind = "create"
        /\ nextId \in Ids
        /\ nextId' = nextId + 1
        /\ views' = [views EXCEPT ![nextId] = r.name]
        /\ SetDefaultGridView(r, nextId)
        /\ chosen' = IF r.box THEN nextId ELSE chosen
        /\ Set(s, Done(r, nextId))

\* A row cannot refer to a view that is gone by now.
CommitChange(s) ==
    LET r == requests[s]
        gone == r.view \notin Saved \cup {All}
    IN  /\ r.kind \in {"use", "update"}
        /\ IF gone /\ r.box /\ ~r.already
           THEN /\ Set(s, Failed)
                /\ UNCHANGED <<views, rows, chosen>>
           ELSE /\ Set(s, Done(r, r.view))
                /\ views' = IF r.kind = "use" \/ gone THEN views
                            ELSE [views EXCEPT ![r.view] = r.name]
                /\ SetDefaultGridView(r, r.view)
                /\ chosen' = IF r.box THEN r.view ELSE chosen
        /\ UNCHANGED nextId

\* Rows go with their view (onDelete CASCADE).
RemoveView(v) ==
    /\ views' = [views EXCEPT ![v] = None]
    /\ rows' = {x \in rows : x.view # v}
    /\ chosen' = IF chosen = v THEN All ELSE chosen

CommitDelete(s) ==
    LET r == requests[s]
    IN  /\ r.kind = "delete"
        /\ RemoveView(r.view)
        /\ Set(s, Done(r, r.view))
        /\ UNCHANGED nextId

Commit(s) ==
    /\ requests[s].phase = "checked"
    /\ CommitCreate(s) \/ CommitChange(s) \/ CommitDelete(s)
    /\ OrderlyIf(NamesDiffer(views'))
    /\ UNCHANGED <<models, flags, current>>

\* The owner of a shared view renames or deletes it.
OtherOwner(v) ==
    /\ Disturbances
    /\ v \in Saved \cap Foreign
    /\ \/ /\ \E name \in ForeignNames : views' = [views EXCEPT ![v] = name]
          /\ UNCHANGED <<rows, chosen>>
       \/ RemoveView(v)
    /\ Disorderly
    /\ UNCHANGED <<nextId, models, flags, current, requests>>

(***************************************************************************)
(* The client handles the answer.                                          *)
(***************************************************************************)
\* The default model of the time of the click loses its flag; without one the
\* handler raises before it sets the new one.
UsedKeepsOld(r) ==
    /\ flags' = flags \cup {r.view}
    /\ UNCHANGED <<models, current>>

Used(r) ==
    /\ flags' = IF r.old = {} THEN flags ELSE (flags \ r.old) \cup {r.view}
    /\ UNCHANGED <<models, current>>

\* The new model is in the collection when the current default is looked for.
Created(r) ==
    LET with == IF r.box THEN flags \cup {r.view} ELSE flags
    IN  /\ models' = models \cup {r.view}
        /\ current' = r.view
        /\ flags' = IF r.box THEN with \ FirstOf(with) ELSE with

\* The flag is set or cleared before the handler looks for the current default.
Updated(r) ==
    LET with == IF r.box THEN flags \cup {r.view} ELSE flags \ {r.view}
    IN  /\ flags' = IF ~r.renames THEN with
                    ELSE IF r.box /\ FirstOf(with) # {r.view} THEN with \ FirstOf(with)
                    ELSE IF with = {} THEN {All}
                    ELSE with
        /\ UNCHANGED <<models, current>>

\* _onModelRemove.
Deleted(r) ==
    /\ models' = models \ {r.view}
    /\ current' = All
    /\ flags' = IF r.view \in flags THEN (flags \ {r.view}) \cup {All} ELSE flags

Answer(s) ==
    LET r == requests[s]
    IN  /\ r.phase = "done"
        /\ Set(s, Free)
        /\ \/ r.kind = "use" /\ Used(r)
           \/ r.kind = "create" /\ Created(r)
           \/ r.kind = "update" /\ Updated(r)
           \/ r.kind = "delete" /\ Deleted(r)
        /\ UNCHANGED <<nextId, views, rows, chosen, orderly>>

\* An error answer, or none.
Fail(s) ==
    /\ \/ requests[s].phase = "failed" /\ UNCHANGED orderly
       \/ requests[s].phase \notin {"free", "failed"} /\ Disturbances /\ Disorderly
    /\ Set(s, Free)
    /\ UNCHANGED <<nextId, views, rows, chosen, models, flags, current>>

Quiet == \A s \in Slots : requests[s].phase = "free"

\* The page is loaded again.
Load ==
    /\ Quiet
    /\ OrderlyIf(rows # {})
    /\ models' = Saved
    /\ flags' = Marked
    /\ current' \in Defaults
    /\ UNCHANGED <<requests, nextId, views, rows, chosen>>

Next ==
    \/ ClientSends
    \/ \E v \in models \cup {All} : ChangeView(v)
    \/ \E s \in Slots : Check(s) \/ Commit(s) \/ Answer(s) \/ Fail(s)
    \/ \E v \in Foreign : OtherOwner(v)
    \/ Load

Spec == Init /\ [][Next]_vars

(***************************************************************************)
(* Properties.                                                             *)
(***************************************************************************)
\* When no request is in flight, the user gets the view that was last made the
\* default when the grid is opened, and the page shows that one and no other.
ShownIsStored == orderly /\ Quiet => flags = Defaults /\ Defaults = {chosen}

\* However requests overlap, a default that was chosen is lost with its view
\* only, and never left pointing at a view that is gone (setDefaultGridView, the
\* cascade of GridViewUser.gridView).
RowsReferToViews == \A x \in rows : x.view \in Saved \cup {All}

DefaultLostOnlyWithView ==
    /\ []RowsReferToViews
    /\ [][rows # {} /\ rows' = {} => \E v \in Saved : views'[v] = None]_vars

=============================================================================

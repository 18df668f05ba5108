----------------------------- MODULE MassDelete -----------------------------
(***************************************************************************)
(* Deleting the selected records: the client's delete-mass-action.js, which *)
(* asks the server with POST how much a DELETE would delete, has the user   *)
(* confirm it and sends the DELETE; and the server's DeleteMassActionHandler*)
(* with its MassDeleteLimiter, which deletes in batches while the database  *)
(* has other users.                                                        *)
(*                                                                         *)
(* One action object serves every click, and decides by its requestType     *)
(* what an answer means.  The loading mask keeps the user from starting a   *)
(* second run, but any fetch of the grid that ends hides it.                *)
(***************************************************************************)
EXTENDS SelectState, Integers, FiniteSets

CONSTANTS
    Records,      \* records of the grid's query this user may see
    Deletable,    \* those this user may delete
    MaxLimit,     \* MAX_DELETE_RECORDS
    BatchSize,    \* FLUSH_BATCH_SIZE
    AclApplied,   \* an ORM datasource without skip_acl_apply: the dispatcher's
                  \* own ACL has made a Query of its query builder
    MaxFetches,   \* bound on the refreshes in flight
    Slots         \* bound on the action's requests in flight

ASSUME MassDeleteAssumption ==
    /\ IsFiniteSet(Records)
    /\ Deletable \subseteq Records
    /\ BatchSize \in Nat \ {0}
    /\ MaxLimit \in Nat \ {0}
    /\ MaxLimit % BatchSize = 0
    /\ AclApplied \in BOOLEAN
    /\ MaxFetches \in Nat

VARIABLES
    existing,      \* records in the database
    index,         \* records the search index will hold once it has caught up
    sel,           \* grid.selectState
    requestType,   \* of the action object
    dialog,        \* confirmModal
    masked,        \* the grid's loading mask
    fetching,      \* grid.requestsCount
    requests,      \* the action's requests, by slot
    quiet,         \* ghost: this run had the database and the grid to itself
    orphans        \* ghost: deleted by a request that died before it said so

vars == <<existing, index, sel, requestType, dialog, masked, fetching, requests,
          quiet, orphans>>

Phases == {"free", "sent", "counted", "limited", "deleting", "flushed",
           "answered", "failed"}

Free == [phase |-> "free", kind |-> "POST", sel |-> Reset(TRUE), promised |-> 0,
         selected |-> 0, count |-> 0, restricted |-> FALSE, limited |-> FALSE,
         pages |-> 0, rows |-> {}, pending |-> {}, deleted |-> {},
         grown |-> FALSE]   \* ghost: a record arrived since the first count

Dialog == [open : BOOLEAN, allowOk : BOOLEAN, promised : Nat]
Closed == [open |-> FALSE, allowOk |-> TRUE, promised |-> 0]

TypeOK ==
    /\ existing \subseteq Records
    /\ index \subseteq Records
    /\ sel \in SelectionsOver(Records)
    /\ requestType \in {"POST", "DELETE"}
    /\ dialog \in Dialog
    /\ masked \in BOOLEAN
    /\ fetching \in Nat
    /\ requests \in [Slots ->
           [phase : Phases, kind : {"POST", "DELETE"}, sel : SelectionsOver(Records),
            promised : Nat, selected : Nat, count : Nat, restricted : BOOLEAN,
            limited : BOOLEAN, pages : Nat, rows : SUBSET Records,
            pending : SUBSET Records, deleted : SUBSET Records, grown : BOOLEAN]]
    /\ quiet \in BOOLEAN
    /\ orphans \subseteq Records

Least(m, n) == IF m <= n THEN m ELSE n

Busy == {s \in Slots : requests[s].phase # "free"}

Set(s, r) == requests' = [requests EXCEPT ![s] = r]

(***************************************************************************)
(* The client.                                                             *)
(***************************************************************************)
Init ==
    /\ existing \in SUBSET Records
    /\ index = existing
    /\ sel \in SelectionsOver(existing)
    /\ requestType = "POST"
    /\ dialog = Closed
    /\ masked = FALSE
    /\ fetching = 0
    /\ requests = [s \in Slots |-> Free]
    /\ quiet = TRUE
    /\ orphans = {}

\* _handleAjax, with the parameters read from the grid as the request is sent.
\* (Definitions named for a mistake are mutants of the one that follows.)
SendWithoutMask(kind, promised) ==
    \E s \in Slots \ Busy :
        /\ Set(s, [Free EXCEPT !.phase = "sent", !.kind = kind, !.sel = sel,
                               !.promised = promised])
        /\ UNCHANGED masked

Send(kind, promised) ==
    \E s \in Slots \ Busy :
        /\ Set(s, [Free EXCEPT !.phase = "sent", !.kind = kind, !.sel = sel,
                               !.promised = promised])
        /\ masked' = TRUE

Select ==
    /\ ~masked /\ ~dialog.open
    /\ \E s \in SelectionsOver(existing) : sel' = s
    /\ quiet' = (quiet /\ Busy = {})
    /\ UNCHANGED <<existing, index, requestType, dialog, masked, fetching, requests, orphans>>

\* A click on the action: execute.
Execute ==
    /\ ~masked /\ ~dialog.open
    /\ requestType' = "POST"
    /\ dialog' = Closed
    /\ quiet' = (Busy = {})
    /\ IF NothingSelected(sel) THEN UNCHANGED <<masked, requests>> ELSE Send("POST", 0)
    /\ UNCHANGED <<existing, index, sel, fetching, orphans>>

Confirm ==
    /\ dialog.open /\ dialog.allowOk
    /\ dialog' = Closed
    /\ Send(requestType, dialog.promised)
    /\ UNCHANGED <<existing, index, sel, requestType, fetching, quiet, orphans>>

Dismiss ==
    /\ dialog.open
    /\ dialog' = Closed
    /\ UNCHANGED <<existing, index, sel, requestType, masked, fetching, requests, quiet, orphans>>

\* _onAjaxSuccess: by requestType, whatever the answered request was.  Only the
\* answer to a POST has the counts that setConfirmMessage looks at.
AskForConfirmation(r) ==
    /\ requestType' = "DELETE"
    /\ masked' = FALSE
    /\ dialog' = [open |-> TRUE,
                  allowOk |-> r.kind = "POST" => r.count # 0,
                  promised |-> Least(r.count, MaxLimit)]
    /\ UNCHANGED <<sel, fetching>>

ReportSuccess ==
    /\ sel' = Reset(TRUE)
    /\ masked' = TRUE
    /\ fetching' = fetching + 1
    /\ UNCHANGED <<requestType, dialog>>

Answer(s) ==
    /\ requests[s].phase = "answered"
    /\ Set(s, Free)
    /\ IF requestType = "POST" THEN AskForConfirmation(requests[s]) ELSE ReportSuccess
    /\ UNCHANGED <<existing, index, quiet, orphans>>

\* _onAjaxError.
Error(s) ==
    /\ requests[s].phase = "failed"
    /\ Set(s, Free)
    /\ masked' = FALSE
    /\ UNCHANGED <<existing, index, sel, requestType, dialog, fetching, quiet, orphans>>

\* datagrid:doRefresh, at any moment, and the end of any of the grid's fetches.
Refresh ==
    /\ fetching < MaxFetches
    /\ fetching' = fetching + 1
    /\ masked' = TRUE
    /\ UNCHANGED <<existing, index, sel, requestType, dialog, requests, quiet, orphans>>

Refreshed ==
    /\ fetching > 0
    /\ fetching' = fetching - 1
    /\ masked' = (fetching # 1)
    /\ UNCHANGED <<existing, index, sel, requestType, dialog, requests, quiet, orphans>>

ClientStep ==
    \/ Select \/ Execute \/ Confirm \/ Dismiss \/ Refresh \/ Refreshed
    \/ \E s \in Slots : Answer(s) \/ Error(s)

(***************************************************************************)
(* The server.                                                             *)
(***************************************************************************)
\* The query's rows: the selection's, and with the limiter's ACL the deletable.
Matching(r) ==
    {x \in existing : IsSelected(r.sel, x) /\ (r.restricted => x \in Deletable)}

\* MassActionDispatcher::dispatch and the first count of getLimitResult.
CountSelected(s) ==
    LET r == requests[s]
    IN  /\ r.phase = "sent"
        /\ Set(s, IF NothingSelected(r.sel)
                  THEN [Free EXCEPT !.phase = "failed"]
                  ELSE [r EXCEPT !.phase = "counted", !.selected = Cardinality(Matching(r))])
        /\ UNCHANGED <<existing, index, sel, requestType, dialog, masked, fetching, quiet, orphans>>

\* The second count; then getPostResponse, or limitQuery by getLimitationCode:
\* applying the ACL restricts a Query in place, but of a query builder it makes a
\* restricted Query that limitQuery drops.
LimitByConfirmation(s) ==
    LET r == requests[s]
        deletable == Cardinality(Matching(r) \cap Deletable)
    IN  /\ r.phase = "counted"
        /\ Set(s, IF r.kind = "POST"
                  THEN [r EXCEPT !.phase = "answered", !.selected = 0,
                                 !.count = deletable]
                  ELSE [r EXCEPT !.phase = "limited", !.selected = 0,
                                 !.restricted = AclApplied /\ r.selected # r.promised,
                                 !.limited = deletable > MaxLimit])
        /\ UNCHANGED <<existing, index, sel, requestType, dialog, masked, fetching, quiet, orphans>>

CountWithoutLimit(s) ==
    LET r == requests[s]
        deletable == Cardinality(Matching(r) \cap Deletable)
    IN  /\ r.phase = "counted"
        /\ Set(s, IF r.kind = "POST"
                  THEN [r EXCEPT !.phase = "answered", !.selected = 0,
                                 !.count = deletable]
                  ELSE [r EXCEPT !.phase = "limited", !.selected = 0,
                                 !.restricted = AclApplied /\ r.selected # deletable])
        /\ UNCHANGED <<existing, index, sel, requestType, dialog, masked, fetching, quiet, orphans>>

CountDeletable(s) ==
    LET r == requests[s]
        deletable == Cardinality(Matching(r) \cap Deletable)
    IN  /\ r.phase = "counted"
        /\ Set(s, IF r.kind = "POST"
                  THEN [r EXCEPT !.phase = "answered", !.selected = 0,
                                 !.count = deletable]
                  ELSE [r EXCEPT !.phase = "limited", !.selected = 0,
                                 !.restricted = AclApplied /\ r.selected # deletable,
                                 !.limited = deletable > MaxLimit])
        /\ UNCHANGED <<existing, index, sel, requestType, dialog, masked, fetching, quiet, orphans>>

\* doDelete: the iterator counts the results once, for the number of its pages.
CountPages(s) ==
    LET r == requests[s]
        found == Cardinality(Matching(r))
        results == IF r.limited THEN Least(found, MaxLimit) ELSE found
    IN  /\ r.phase = "limited"
        /\ Set(s, [r EXCEPT !.phase = "deleting",
                            !.pages = (results + BatchSize - 1) \div BatchSize])
        /\ UNCHANGED <<existing, index, sel, requestType, dialog, masked, fetching, quiet, orphans>>

Full(r) == r.pending # {} /\ r.count % BatchSize = 0

\* Each page is the first rows that are left (DeletionIterableResult).
LoadPage(s) ==
    LET r == requests[s]
    IN  /\ r.phase = "deleting" /\ r.rows = {} /\ r.pages > 0 /\ ~Full(r)
        /\ \E rows \in SUBSET Matching(r) :
               /\ Cardinality(rows) = Least(BatchSize, Cardinality(Matching(r)))
               /\ Set(s, [r EXCEPT !.rows = rows,
                                   !.pages = IF rows = {} THEN 0 ELSE @ - 1])
        /\ UNCHANGED <<existing, index, sel, requestType, dialog, masked, fetching, quiet, orphans>>

\* manager.remove, and the iteration count.
Remove(s) ==
    LET r == requests[s]
    IN  /\ r.phase = "deleting" /\ ~Full(r)
        /\ \E x \in r.rows :
               Set(s, [r EXCEPT !.rows = @ \ {x}, !.pending = @ \cup {x}, !.count = @ + 1])
        /\ UNCHANGED <<existing, index, sel, requestType, dialog, masked, fetching, quiet, orphans>>

Done(r) == r.rows = {} /\ r.pages = 0

\* finishBatch: flush, when a batch is full or the rows are used up; then the
\* message, and clear.
Flush(s) ==
    LET r == requests[s]
    IN  /\ r.phase = "deleting" /\ r.pending # {} /\ (Full(r) \/ Done(r))
        /\ existing' = existing \ r.pending
        /\ Set(s, [r EXCEPT !.phase = "flushed",
                            !.deleted = @ \cup (r.pending \cap existing)])
        /\ UNCHANGED <<index, sel, requestType, dialog, masked, fetching, quiet, orphans>>

AnnounceNothing(s) ==
    LET r == requests[s]
    IN  /\ r.phase = "flushed"
        /\ Set(s, [r EXCEPT !.phase = "deleting", !.pending = {}])
        /\ UNCHANGED <<existing, index, sel, requestType, dialog, masked, fetching, quiet, orphans>>

Announce(s) ==
    LET r == requests[s]
    IN  /\ r.phase = "flushed"
        /\ index' = (index \ r.pending) \cup (r.pending \cap existing)
        /\ Set(s, [r EXCEPT !.phase = "deleting", !.pending = {}])
        /\ UNCHANGED <<existing, sel, requestType, dialog, masked, fetching, quiet, orphans>>

Respond(s) ==
    LET r == requests[s]
    IN  /\ r.phase = "deleting" /\ Done(r) /\ r.pending = {}
        /\ Set(s, [r EXCEPT !.phase = "answered"])
        /\ UNCHANGED <<existing, index, sel, requestType, dialog, masked, fetching, quiet, orphans>>

\* An exception (a flush that violates a constraint, a producer without a
\* broker) or the end of the process, wherever it was.
Die(s) ==
    LET r == requests[s]
    IN  /\ r.phase \in {"sent", "counted", "limited", "deleting", "flushed"}
        /\ Set(s, [Free EXCEPT !.phase = "failed"])
        /\ orphans' = IF r.phase = "flushed" THEN orphans \cup (r.pending \ existing) ELSE orphans
        /\ UNCHANGED <<existing, index, sel, requestType, dialog, masked, fetching, quiet>>

ServerStep ==
    \E s \in Slots :
        \/ CountSelected(s) \/ CountDeletable(s) \/ CountPages(s)
        \/ LoadPage(s) \/ Remove(s) \/ Flush(s) \/ Announce(s) \/ Respond(s) \/ Die(s)

\* Other users, whose changes reach the index by its own listener.
Vanish(x) ==
    /\ existing' = existing \ {x}
    /\ index' = index \ {x}
    /\ UNCHANGED requests

Counted(r) == r.phase \in {"counted", "limited", "deleting", "flushed"}

Arrive(x) ==
    /\ existing' = existing \cup {x}
    /\ index' = index \cup {x}
    /\ requests' = [s \in Slots |-> [requests[s] EXCEPT !.grown = @ \/ Counted(requests[s])]]

Others ==
    /\ \/ \E x \in existing : Vanish(x)
       \/ \E x \in Records \ existing : Arrive(x)
    /\ orphans' = orphans \ existing'
    /\ quiet' = FALSE
    /\ UNCHANGED <<sel, requestType, dialog, masked, fetching>>

Next == ClientStep \/ ServerStep \/ Others

Spec == Init /\ [][Next]_vars

(***************************************************************************)
(* Properties.                                                             *)
(***************************************************************************)
\* delete-mass-action.js: "Need to handle POST and DELETE requests
\* differently."  An answer that arrives finds the action in the mode its
\* request was sent in.
AnswersMatchRequestType ==
    \A s \in Slots : requests[s].phase = "answered" => requests[s].kind = requestType

\* A DELETE that reports success has deleted as many records as the dialog
\* announced, says so, and left none behind unless it reached the limit.
DeletesWhatWasConfirmed ==
    \A s \in Slots :
        LET r == requests[s]
        IN  quiet /\ r.kind = "DELETE" /\ r.phase = "answered" =>
                /\ r.count = r.promised
                /\ Cardinality(r.deleted) = r.count
                /\ Matching(r) \cap Deletable = {} \/ r.count = MaxLimit

\* MassDeleteLimiter: "Limits query for deletion with access and/or performance
\* restrictions."  Two counts made one after the other decide whether the ACL may be
\* left out, while other runs and other users delete the same records: as long as no
\* record joins the grid's, only deletable ones are deleted.
DeletesOnlyDeletable ==
    \A s \in Slots : ~requests[s].grown => requests[s].deleted \subseteq Deletable

\* The search index still lists a deleted record only while its message is
\* being sent, or because the process died at that point.
IndexFollowsDatabase ==
    index \ existing \subseteq
        orphans \cup UNION {requests[s].pending : s \in {t \in Slots : requests[t].phase = "flushed"}}

=============================================================================

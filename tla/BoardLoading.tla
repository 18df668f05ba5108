---------------------------- MODULE BoardLoading ----------------------------
(***************************************************************************)
(* The board loads its cards page by page as the user scrolls down         *)
(* (pageable-collection.js, board-view.js, board-appearance-plugin.js).    *)
(* The page to ask for is counted apart from the grid's current page, and  *)
(* the answer is appended: the collection neither counts nor compares what *)
(* it holds already, so the count is right only while no record enters or  *)
(* leaves, no request fails and a refresh meets no other request.          *)
(***************************************************************************)
EXTENDS Naturals, Sequences, FiniteSets, SequencesExt

CONSTANTS
    Stored,      \* the records on the server at first, in the grid's order
    Newcomer,    \* a record others add
    PageSize,
    MaxPage,     \* bound on the page counter
    MaxChanges,  \* bound on changes of the records
    MaxFailures  \* bound on failing requests

BoardLoadingAssumption ==
    /\ PageSize \in Nat \ {0}
    /\ Newcomer \notin ToSet(Stored)
    /\ \A i, j \in DOMAIN Stored : Stored[i] = Stored[j] => i = j

VARIABLES
    server,       \* the records on the server
    models,       \* models of the grid's collection; may hold a record twice
    shown,        \* models of the board's collection
    total,        \* state.totalRecords
    infinite,     \* infiniteCurrentPage; 0 before its first use
    loadingMore,  \* isLoadingMore
    requests,     \* fetches in flight; rows is the page once the server has read it
    mask,         \* "none", "mask" or "loading-more" (a message below the cards)
    changes,      \* changes of the records so far
    failures,     \* failed requests so far
    calm          \* ghost: since the board was last filled nothing went against its
                  \* count, and no request for more is taken to be under way still

vars == <<server, models, shown, total, infinite, loadingMore, requests, mask,
          changes, failures, calm>>

Once(s)    == FoldLeft(LAMBDA seen, c : IF Contains(seen, c) THEN seen ELSE Append(seen, c),
                       <<>>, s)
Records    == ToSet(Stored) \cup {Newcomer}
LowerOf(a, b) == IF a < b THEN a ELSE b

\* The server's page; a page past the end is empty.
PageOf(s, page) ==
    SubSeq(s, (page - 1) * PageSize + 1, LowerOf(page * PageSize, Len(s)))

-----------------------------------------------------------------------------
(***************************************************************************)
(* PageableCollection.fetch for the board (_fetch): the page asked for,    *)
(* the counter after it, and the loading mask the board shows.             *)
(***************************************************************************)
Counter(more)    == IF ~more THEN 1 ELSE IF infinite = 0 THEN 2 ELSE infinite

Send(more, flag) ==
    /\ requests' = requests \cup {[page |-> Counter(more), more |-> more, read |-> FALSE,
                                   rows |-> <<>>, total |-> 0]}
    /\ infinite' = Counter(more) + 1
    /\ mask' = IF flag THEN "loading-more" ELSE "mask"

\* Others' records come in on top and leave anywhere; a card action deletes one
\* of the board's own.
Change(s) ==
    /\ changes < MaxChanges
    /\ server' = s
    /\ changes' = changes + 1
    /\ calm' = FALSE

Init ==
    /\ server = Stored
    /\ models = PageOf(Stored, 1)
    /\ shown = models
    /\ total = Len(Stored)
    /\ infinite = 0
    /\ loadingMore = FALSE
    /\ requests = {}
    /\ mask = "none"
    /\ changes = 0
    /\ failures = 0
    /\ calm = TRUE

OthersAdd ==
    /\ Newcomer \notin ToSet(server)
    /\ Change(<<Newcomer>> \o server)
    /\ UNCHANGED <<models, shown, total, infinite, loadingMore, requests, mask, failures>>

OthersRemove(c) ==
    /\ c \in ToSet(server)
    /\ Change(SelectSeq(server, LAMBDA d : d # c))
    /\ UNCHANGED <<models, shown, total, infinite, loadingMore, requests, mask, failures>>

\* DeleteAction.doDelete, PageableCollection.onRemove
UserDeletes(c) ==
    /\ c \in ToSet(models) \cap ToSet(server)
    /\ Change(SelectSeq(server, LAMBDA d : d # c))
    /\ models' = RemoveFirstMatch(models, LAMBDA d : d = c)
    /\ shown' = Once(models')
    /\ total' = IF total > 0 THEN total - 1 ELSE 0
    /\ UNCHANGED <<infinite, loadingMore, requests, mask, failures>>

\* A filter, a reset, the appearance: any fetch that fills the collection anew.
Refresh ==
    /\ \A r \in requests : r.more
    /\ Send(FALSE, loadingMore)
    /\ calm' = (requests = {} /\ ~loadingMore)
    /\ UNCHANGED <<server, models, shown, total, loadingMore, changes, failures>>

HasExtraPage == total > Len(models) + PageSize

\* onBoardBodyScroll, loadMoreIfPossible, hasExtraRecordsToLoad, loadMore
HasExtra     == total > Len(models)

ScrollDown ==
    /\ mask # "mask"
    /\ ~loadingMore
    /\ HasExtra
    /\ infinite < MaxPage
    /\ loadingMore' = TRUE
    /\ Send(TRUE, TRUE)
    /\ calm' = (calm /\ requests = {})
    /\ UNCHANGED <<server, models, shown, total, changes, failures>>

Read(r) ==
    /\ ~r.read
    /\ requests' = (requests \ {r})
          \cup {[r EXCEPT !.read = TRUE, !.rows = PageOf(server, r.page), !.total = Len(server)]}
    /\ UNCHANGED <<server, models, shown, total, infinite, loadingMore, mask, changes,
                   failures, calm>>

\* PageableCollection.parse, then reset or set; the board's collection follows
\* events of the grid's (getBoardCollection), and whichever request ends hides
\* the mask of all (BoardView._afterRequest).
Answer(r) ==
    /\ r.read
    /\ total' = r.total
    /\ models' = IF r.more THEN models \o r.rows ELSE r.rows
    /\ shown' = IF r.more /\ r.rows = <<>> THEN shown ELSE Once(models')
    /\ loadingMore' = (loadingMore /\ ~r.more)
    /\ requests' = requests \ {r}
    /\ mask' = "none"
    /\ UNCHANGED <<server, infinite, changes, failures, calm>>

\* loadMore gives no error callback: its flag stays up, and so does the count; filling
\* the board anew puts the count back only.
Fail(r) ==
    /\ failures < MaxFailures
    /\ failures' = failures + 1
    /\ requests' = requests \ {r}
    /\ mask' = "none"
    /\ calm' = FALSE
    /\ UNCHANGED <<server, models, shown, total, infinite, loadingMore, changes>>

Next ==
    \/ OthersAdd
    \/ \E c \in Records : OthersRemove(c)
    \/ \E c \in Records : UserDeletes(c)
    \/ Refresh
    \/ ScrollDown
    \/ \E r \in requests : Read(r)
    \/ \E r \in requests : Answer(r)
    \/ \E r \in requests : Fail(r)

Spec == Init /\ [][Next]_vars

-----------------------------------------------------------------------------
TypeOK ==
    /\ server \in Seq(Records)
    /\ models \in Seq(Records)
    /\ shown \in Seq(Records)
    /\ total \in 0..Len(Stored) + 1
    /\ infinite \in 0..MaxPage + 1
    /\ loadingMore \in BOOLEAN
    /\ mask \in {"none", "mask", "loading-more"}
    /\ calm \in BOOLEAN

\* The user who scrolls on sees every record in the end, whatever happened before
\* the board was last filled, if nothing disturbs the count from then on and the
\* board is not for ever filled anew.  A request for more that fails is past repair:
\* its flag stays, however often the board is filled.
EverythingComes ==
    (<>[]calm /\ <>[][~Refresh]_vars) => <>[](ToSet(shown) = ToSet(server))

=============================================================================

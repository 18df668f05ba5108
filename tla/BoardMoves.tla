----------------------------- MODULE BoardMoves -----------------------------
(***************************************************************************)
(* Cards dragged over the board (column-view.js, board-view.js), the       *)
(* transition that saves a move and takes a refused one back               *)
(* (update-main-property-transition.js), and the board's own order of the  *)
(* cards (board-data-collection.js), of which the columns show the part    *)
(* that has their property.                                                *)
(*                                                                         *)
(* A drop is handled when jQuery has finished with it (_.defer), a save is *)
(* answered some time later, saves are answered in any order, and a        *)
(* refresh may bring in records read before a save was applied.  No card   *)
(* enters or leaves the board meanwhile (module BoardLoading).             *)
(***************************************************************************)
EXTENDS Naturals, Sequences, SequencesExt, Arrangement

CONSTANTS
    Loaded,      \* the cards in the order of the grid's collection
    Columns,     \* the columns of the board
    Ids,         \* [Columns -> Seq(values)]: the property's values of a column
    Initially,   \* [cards -> values]: what the server has at first
    MaxDrops,    \* bound on the drops
    None         \* no neighbour, no refresh in flight

Cards  == ToSet(Loaded)
Values == UNION {ToSet(Ids[k]) : k \in Columns}

BoardMovesAssumption ==
    /\ Loaded \in Seq(Cards)
    /\ \A i, j \in DOMAIN Loaded : Loaded[i] = Loaded[j] => i = j
    /\ Initially \in [Cards -> Values]
    /\ None \notin Cards
    /\ \A k \in Columns : Ids[k] \in Seq(Values) \ {<<>>}
    /\ \A j, k \in Columns : j = k \/ ToSet(Ids[j]) \cap ToSet(Ids[k]) = {}

VARIABLES
    order,      \* models of the board's collection; a card may be in it twice
    group,      \* the cards' property as the browser has it
    saved,      \* and as the server has it
    status,     \* transitionStatus of the cards
    drops,      \* drops that wait for their deferred handler
    sends,      \* saves in flight
    refresh,    \* records a refresh has read and not brought yet, or None
    dropped,    \* drops so far
    blurred     \* cards whose saves met another save, a refresh or a lost answer

vars == <<order, group, saved, status, drops, sends, refresh, dropped, blurred>>

ColumnOf(v) == CHOOSE k \in Columns : v \in ToSet(Ids[k])

\* What a column shows: a collection holds a model once, where it comes first.
Members(g, k)      == {c \in Cards : g[c] \in ToSet(Ids[k])}
ItemsOf(ord, g, k) == AsIn(Members(g, k), ord)
Items(k)           == ItemsOf(order, group, k)
Board              == [k \in Columns |-> Items(k)]

At(s, c)      == IF c \in ToSet(s) THEN PlaceIn(s, c) ELSE 0
Without(s, c) == RemoveAt(s, PlaceIn(s, c))

-----------------------------------------------------------------------------
(***************************************************************************)
(* BoardDataCollection.updateBoardItem.  A card put before another is not  *)
(* taken out of its place.                                                 *)
(***************************************************************************)
Put(ord, c, rel) ==
    IF rel.after # None
    THEN LET rest == Without(ord, c) IN InsertAt(rest, At(rest, rel.after) + 1, c)
    ELSE IF rel.before # None
    THEN InsertAt(ord, At(ord, rel.before), c)
    ELSE <<c>> \o Without(ord, c)

RelativeOffByOne(k, pos) ==
    LET items == Items(k) IN
    [before |-> IF items # <<>> /\ pos = 0 THEN items[1] ELSE None,
     after  |-> IF items # <<>> /\ pos > 0
                THEN items[IF pos < Len(items) THEN pos + 1 ELSE Len(items)] ELSE None]

\* BoardView.onItemMove: the neighbour in the column as it was before the drop;
\* the position counts the cards above the dropped one.
Relative(k, pos) ==
    LET items == Items(k) IN
    [before |-> IF items # <<>> /\ pos = 0 THEN items[1] ELSE None,
     after  |-> IF items # <<>> /\ pos > 0
                THEN items[IF pos < Len(items) THEN pos ELSE Len(items)] ELSE None]

RestoreToTop(c, stale) == [before |-> None, after |-> None]

\* getRestoreUpdates: the neighbour above.  A model that a refresh has replaced
\* is in no column and gets none.
RestoreUpdates(c, stale) ==
    LET items == Items(ColumnOf(group[c]))
        i     == At(items, c)
    IN  [before |-> None,
         after  |-> IF ~stale /\ i > 1 THEN items[i - 1] ELSE None]

\* The board has changed since these drops.
Disturbed(ds) == [i \in DOMAIN ds |-> [ds[i] EXCEPT !.calm = FALSE]]

InFlight(c) == \E s \in sends : s.card = c

\* No other save or refresh is under way, and every card is in the order once.
Alone(d)    == sends = {} /\ refresh = None /\ ~d.stale /\ Len(order) = Len(Loaded)
NotAlone(s) == [s EXCEPT !.alone = FALSE, !.before = None]

-----------------------------------------------------------------------------
Init ==
    /\ order = Loaded
    /\ group = Initially
    /\ saved = Initially
    /\ status = [c \in Cards |-> "not_started"]
    /\ drops = <<>>
    /\ sends = {}
    /\ refresh = None
    /\ dropped = 0
    /\ blurred = {}

\* The card is let go; sortable's own change of the DOM is taken back and the
\* data is changed later.  The mask of a refresh covers the board.
Drop(c, k, pos) ==
    /\ refresh = None
    /\ dropped < MaxDrops
    /\ dropped' = dropped + 1
    /\ pos <= Len(Items(k))
    /\ drops' = Append(drops, [card |-> c, column |-> k, rel |-> Relative(k, pos), pos |-> pos,
                               stale |-> FALSE, was |-> None, calm |-> TRUE])
    /\ UNCHANGED <<order, group, saved, status, sends, refresh, blurred>>

\* UpdateMainPropertyTransition.start
Start ==
    /\ drops # <<>>
    /\ LET d == Head(drops)
           c == d.card
           v == Head(Ids[d.column])
       IN  /\ order' = Put(order, c, d.rel)
           /\ group' = [group EXCEPT ![c] = v]
           /\ status' = IF d.stale THEN status ELSE [status EXCEPT ![c] = "in_progress"]
           /\ sends' = {NotAlone(s) : s \in sends}
                 \cup {[card |-> c, to |-> v, back |-> RestoreUpdates(c, d.stale),
                        value |-> IF d.stale THEN d.was ELSE group[c], stale |-> d.stale,
                        step |-> "sent", alone |-> Alone(d),
                        before |-> IF Alone(d) THEN Board ELSE None]}
           /\ blurred' = IF InFlight(c) \/ refresh # None THEN blurred \cup {c} ELSE blurred
           /\ refresh' = IF refresh = None THEN None
                         ELSE [refresh EXCEPT !.clean = @ \ {c}]
    /\ drops' = Disturbed(Tail(drops))
    /\ UNCHANGED <<saved, dropped>>

\* The server takes the PATCH, or refuses it.
Save(s, ok) ==
    /\ s.step = "sent"
    /\ saved' = IF ok THEN [saved EXCEPT ![s.card] = s.to] ELSE saved
    /\ sends' = (sends \ {s}) \cup {[s EXCEPT !.step = IF ok THEN "saved" ELSE "refused"]}
    /\ UNCHANGED <<order, group, status, drops, refresh, dropped, blurred>>

\* start's first callback
Success(s) ==
    /\ s.step = "saved"
    /\ sends' = sends \ {s}
    /\ status' = IF s.stale THEN status ELSE [status EXCEPT ![s.card] = "success"]
    /\ UNCHANGED <<order, group, saved, drops, refresh, dropped, blurred>>

FailureKeepsGroup(s) ==
    /\ s.step # "sent"
    /\ order' = Put(order, s.card, s.back)
    /\ status' = IF s.stale THEN status ELSE [status EXCEPT ![s.card] = "error"]
    /\ sends' = {NotAlone(t) : t \in sends \ {s}}
    /\ blurred' = IF s.step = "saved" \/ s.stale THEN blurred \cup {s.card} ELSE blurred
    /\ drops' = Disturbed(drops)
    /\ UNCHANGED <<group, saved, refresh, dropped>>

\* start's second callback: the server refused, or its answer is lost.
Failure(s) ==
    /\ s.step # "sent"
    /\ order' = Put(order, s.card, s.back)
    /\ group' = [group EXCEPT ![s.card] = s.value]
    /\ status' = IF s.stale THEN status ELSE [status EXCEPT ![s.card] = "error"]
    /\ sends' = {NotAlone(t) : t \in sends \ {s}}
    /\ blurred' = IF s.step = "saved" \/ s.stale THEN blurred \cup {s.card} ELSE blurred
    /\ drops' = Disturbed(drops)
    /\ UNCHANGED <<saved, refresh, dropped>>

\* onClose of the error message, whatever has been done with the card meanwhile.
CloseMessage(c) ==
    /\ status[c] = "error"
    /\ status' = [status EXCEPT ![c] = "not_started"]
    /\ UNCHANGED <<order, group, saved, drops, sends, refresh, dropped, blurred>>

ReadRefresh ==
    /\ refresh = None
    /\ refresh' = [value |-> saved, clean |-> {c \in Cards : ~InFlight(c)}]
    /\ UNCHANGED <<order, group, saved, status, drops, sends, dropped, blurred>>

\* BoardAppearancePlugin.getBoardCollection: reset with the new models.
BringRefresh ==
    /\ refresh # None
    /\ order' = Loaded
    /\ group' = refresh.value
    /\ status' = [c \in Cards |-> "not_started"]
    /\ drops' = [i \in DOMAIN drops |->
                    [Disturbed(drops)[i] EXCEPT
                        !.stale = TRUE,
                        !.was = IF drops[i].stale THEN @ ELSE group[drops[i].card]]]
    /\ sends' = {[NotAlone(s) EXCEPT !.stale = TRUE] : s \in sends}
    /\ blurred' = Cards \ refresh.clean
    /\ refresh' = None
    /\ UNCHANGED <<saved, dropped>>

Next ==
    \/ \E c \in Cards, k \in Columns, pos \in 0..Len(Loaded) : Drop(c, k, pos)
    \/ Start
    \/ \E s \in sends, ok \in BOOLEAN : Save(s, ok)
    \/ \E s \in sends : Success(s)
    \/ \E s \in sends : Failure(s)
    \/ \E c \in Cards : CloseMessage(c)
    \/ ReadRefresh
    \/ BringRefresh

Spec == Init /\ [][Next]_vars

-----------------------------------------------------------------------------
TypeOK ==
    /\ order \in Seq(Cards)
    /\ ToSet(order) = Cards
    /\ group \in [Cards -> Values]
    /\ saved \in [Cards -> Values]
    /\ status \in [Cards -> {"not_started", "in_progress", "success", "error"}]
    /\ blurred \subseteq Cards
    /\ dropped \in 0..MaxDrops
    /\ \A s \in sends : s.card \in Cards /\ s.to \in Values /\ s.value \in Values

\* When everything about a card is answered, the board has it where the server
\* has it: a saved move stays, a refused one is taken back, whatever happened to
\* the other cards (UpdateMainPropertyTransition.start).  Saves of one card that
\* overlap, a refresh that reads between a save and its answer and a lost answer
\* do leave the two apart: those cards are in blurred.
SettledIsSaved ==
    \A c \in Cards \ blurred :
        (~InFlight(c) /\ \A i \in DOMAIN drops : drops[i].card # c) => group[c] = saved[c]

\* A card moved from another column, or up in its own, is shown where it was
\* dropped (onItemMove, updateBoardItem), if the board has not changed since and
\* shows no card from a leftover place.  Down in its own column it is not: its
\* neighbour is looked up with the card still in its old place.
LandsWhereDropped ==
    [][\A d \in ToSet(drops) :
          (/\ Start /\ d = Head(drops) /\ d.calm
           /\ Len(order) = Len(Loaded)
           /\ LET i == At(Items(d.column), d.card) IN i = 0 \/ d.pos < i - 1)
          => Items(d.column)'[d.pos + 1] = d.card]_vars

\* A refused move that was alone on the board is undone to the letter: every
\* column shows what it showed before (getRestoreUpdates, updateBoardItem).
FailedMoveIsUndone ==
    [][\A s \in sends : (Failure(s) /\ s.alone) => Board' = s.before]_vars

=============================================================================

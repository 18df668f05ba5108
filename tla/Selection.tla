------------------------------ MODULE Selection ------------------------------
(***************************************************************************)
(* What row selection promises: a set of chosen records, on every page of  *)
(* the grid and not only on the one shown, that changes by what the user   *)
(* does and by nothing else.                                               *)
(***************************************************************************)
CONSTANT Records

VARIABLES
    existing,   \* records that match the grid's query
    page,       \* records whose rows are shown
    chosen      \* records a mass action would act on

vars == <<existing, page, chosen>>

Init == /\ existing \subseteq Records
        /\ page \subseteq existing
        /\ chosen = {}

\* One row is chosen or dropped, whichever page the others are on.
Pick(m) ==
    /\ m \in page
    /\ chosen' \in {chosen \cup ({m} \cap existing), chosen \ {m}}
    /\ UNCHANGED <<existing, page>>

PickAll     == chosen' = existing /\ UNCHANGED <<existing, page>>
PickVisible == chosen' = page \cap existing /\ UNCHANGED <<existing, page>>
PickNone    == chosen' = {} /\ UNCHANGED <<existing, page>>

\* Turning the page keeps every choice.
Turn == page' \subseteq existing /\ UNCHANGED <<existing, chosen>>

\* A record that goes is no longer chosen; its row may stay for a while.
Vanish(m) ==
    /\ existing' = existing \ {m}
    /\ chosen' = chosen \ {m}
    /\ page' \in {page, page \ {m}}

\* A record that comes, or comes back, may count as chosen at once: it does
\* when all records but some are, or when its row was chosen before.
Arrive(m) ==
    /\ m \in Records \ existing
    /\ existing' = existing \cup {m}
    /\ chosen' \in {chosen, chosen \cup {m}}
    /\ UNCHANGED page

Next ==
    \/ \E m \in Records : Pick(m) \/ Vanish(m) \/ Arrive(m)
    \/ PickAll \/ PickVisible \/ PickNone \/ Turn

Spec == Init /\ [][Next]_vars

=============================================================================

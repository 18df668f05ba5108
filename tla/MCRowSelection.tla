--------------------------- MODULE MCRowSelection ---------------------------
(***************************************************************************)
(* The rows of a grid, in two parts that share no state: which of them are *)
(* selected, and what a mouse over one of them starts.  A behaviour takes  *)
(* the steps of one part.                                                  *)
(***************************************************************************)
EXTENDS RowSelection, TLC

CONSTANTS Plain, Links, Own, MenuCell, Confirmation, MaxRequests    \* of RowActions

VARIABLES part, pointer, at, text, press, permit, timer, gesture, cell, launchers, menu, listeners,
          dialogs, requests, fetching, mask

rowVars == <<pointer, at, text, press, permit, timer, gesture, cell, launchers, menu, listeners,
             dialogs, requests, fetching, mask>>

Row == INSTANCE RowActions

ASSUME RowAssumption == Row!RowActionsAssumption

MCInit ==
    /\ part \in {"selection", "row"}
    /\ Init /\ Row!Init
    /\ part = "row" => existing = {}

MCNext ==
    \/ part = "selection" /\ Next /\ UNCHANGED <<part, rowVars>>
    \/ part = "row" /\ Row!Next /\ UNCHANGED <<part, vars>>

MCSpec == MCInit /\ [][MCNext]_<<part, vars, rowVars>>

\* Records differ by nothing but their names.
Symmetry == Permutations(Records)

\* The row action runs after one whole click only; stated in RowActions.
OnlyAClickRuns == Row!OnlyAClickRuns

\* A confirmed action executes once; stated in RowActions.
OneOkOneRequest == Row!OneOkOneRequest

=============================================================================

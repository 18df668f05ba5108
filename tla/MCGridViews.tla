---------------------------- MODULE MCGridViews -----------------------------
EXTENDS GridViews, TLC

CONSTANTS s1, s2

TwoSlots == {s1, s2}
Symmetry == Permutations(TwoSlots)

Shared == {1}

TwoNames == {"mine", "other"}
Renamed  == {"theirs", "mine"}

\* chosen decides nothing, and no property reads it once orderly is FALSE.
WithoutChosen ==
    <<nextId, views, rows, models, flags, current, requests, orderly,
      IF orderly THEN chosen ELSE All>>

\* Three views and two names of this user as long as everything is in order,
\* two views and one name otherwise.
Creating ==
    {s \in Slots : requests[s].phase \in {"sent", "checked"} /\ requests[s].kind = "create"}

SmallDisorder ==
    \/ orderly
    \/ /\ nextId + Cardinality(Creating) <= MaxId
       /\ \A v \in Saved : views[v] # "other"
       /\ \A s \in Slots : requests[s].phase = "sent" => requests[s].name # "other"

=============================================================================

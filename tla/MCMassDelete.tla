---------------------------- MODULE MCMassDelete ----------------------------
EXTENDS MassDelete, TLC

CONSTANTS r1, r2, r3, r4, r5, r6, s1, s2

Six  == {r1, r2, r3, r4, r5, r6}
Five == {r1, r2, r3, r4, r5}
Two  == {r1, r2}
One  == {r1}

TwoSlots == {s1, s2}

SlotSymmetry == Permutations(TwoSlots)
AllSymmetry  == Permutations(Five) \cup SlotSymmetry

\* A run that was disturbed is looked at no further.
Undisturbed == quiet

\* A request whose selection a record has joined is followed no further than it takes
\* to flush and announce what it had removed.
Followed ==
    \A s \in Slots :
        requests[s].grown => requests[s].phase = "flushed" \/ requests[s].pending # {}

=============================================================================

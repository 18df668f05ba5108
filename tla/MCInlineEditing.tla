-------------------------- MODULE MCInlineEditing ---------------------------
EXTENDS InlineEditing, FiniteSets, TLC

CONSTANTS c1, c2, a, b, bad

TwoCells  == {c1, c2}
TwoValues == {a, b}

Symmetry == Permutations(TwoCells) \cup Permutations(TwoValues)

SavesOf(c) == {s \in InFlight(page) : page.saves[s].cell = c}

\* The properties are about cells that have not strayed.  While two saves of
\* one that has are in flight, no editor is opened.
OneInOrder ==
    /\ Cardinality(strayed) <= 1
    /\ \A c \in strayed : Cardinality(SavesOf(c)) <= 1 \/ Open(page) = {}

=============================================================================

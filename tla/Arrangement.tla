----------------------------- MODULE Arrangement -----------------------------
(***************************************************************************)
(* Sets as sequences: the members of a set in an order.  Given by counting *)
(* who comes before, and not by folding over a sequence, so that it can be *)
(* reasoned about for sets of any size (module Layout_proofs).             *)
(***************************************************************************)
EXTENDS Naturals, Sequences, FiniteSets

\* The place of e in s, which has it; the first one if it is there twice.
PlaceIn(s, e) == CHOOSE i \in DOMAIN s : s[i] = e /\ \A j \in DOMAIN s : s[j] = e => i <= j

\* The members of S in the order R, a set of pairs.
Arranged(S, R) ==
    [i \in 1..Cardinality(S) |->
        CHOOSE e \in S : Cardinality({d \in S : <<d, e>> \in R}) = i - 1]

\* Members of s by their keys, and as they are in s where these are the same.
ByKeys(S, s, key) ==
    {p \in S \X S : \/ key[p[1]] < key[p[2]]
                    \/ key[p[1]] = key[p[2]] /\ PlaceIn(s, p[1]) < PlaceIn(s, p[2])}

\* Those members of s that are in S, as they are in s.
AsIn(S, s) == Arranged(S, {p \in S \X S : PlaceIn(s, p[1]) < PlaceIn(s, p[2])})

==============================================================================

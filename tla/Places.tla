------------------------------- MODULE Places -------------------------------
(***************************************************************************)
(* What the filters of the code make of an array: the elements at some of  *)
(* its places, in their order.  The operators are given by places and      *)
(* not by recursion on the sequence, so that facts about them can be       *)
(* proved for every sequence (PlacesLemmas).                               *)
(***************************************************************************)
EXTENDS Naturals, Sequences, FiniteSets

\* The elements at some places of a sequence, in their order.
AtPlaces(seq, places) ==
    LET Rank(i) == Cardinality({j \in places : j <= i})
    IN [k \in 1..Cardinality(places) |-> seq[CHOOSE i \in places : Rank(i) = k]]

\* Those elements of a sequence that are in a set.
AsListed(seq, set) == AtPlaces(seq, {i \in DOMAIN seq : seq[i] \in set})

\* Those elements of a sequence that are in a set, each once.
Deduped(seq, set) ==
    AtPlaces(seq, {i \in DOMAIN seq : seq[i] \in set /\ \A j \in 1..(i - 1) : seq[j] # seq[i]})
=============================================================================

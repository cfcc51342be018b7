---------------------------- MODULE PlacesLemmas ----------------------------
(***************************************************************************)
(* Facts about natural numbers and about the elements at some places of a  *)
(* sequence, for the proofs about the components.                          *)
(***************************************************************************)
EXTENDS Places, Integers, SequencesExt, SequenceTheorems, FiniteSetTheorems,
        WellFoundedInduction, TLAPS

(* The order of the natural numbers as a relation. *)
LEMMA LessOnNat == \A x, y \in Nat : <<y, x>> \in OpToRel(<, Nat) <=> y < x
BY DEF OpToRel

(* A set of natural numbers has a least element. *)
LEMMA Least ==
    ASSUME NEW T, T \subseteq Nat, T # {}
    PROVE  \E m \in T : \A n \in T : m <= n
<1>1. \E R : /\ IsWellFoundedOn(R, Nat)
             /\ \A x, y \in Nat : <<y, x>> \in R <=> y < x
  BY NatLessThanWellFounded, LessOnNat
<1>2. PICK R : /\ IsWellFoundedOn(R, Nat)
               /\ \A x, y \in Nat : <<y, x>> \in R <=> y < x
  BY <1>1
<1>3. PICK m \in T : \A n \in T : ~(<<n, m>> \in R)
  BY <1>2, WFMin
<1>4. ASSUME NEW n \in T PROVE m <= n
  <2>1. m \in Nat /\ n \in Nat
    OBVIOUS
  <2>2. ~(n < m)
    BY <1>2, <1>3, <2>1
  <2> QED BY <2>1, <2>2
<1> QED BY <1>4

-----------------------------------------------------------------------------
(* Places *)

\* The places up to one of them; their number is its rank.
UpTo(places, i) == {j \in places : j <= i}

(* The rank of a place is one of the places of the result. *)
LEMMA RankType ==
    ASSUME NEW n \in Nat, NEW places \in SUBSET (1..n), NEW i \in Nat
    PROVE  /\ IsFiniteSet(places) /\ Cardinality(places) \in Nat
           /\ IsFiniteSet(UpTo(places, i)) /\ Cardinality(UpTo(places, i)) \in Nat
           /\ Cardinality(UpTo(places, i)) <= Cardinality(places)
           /\ i \in places => Cardinality(UpTo(places, i)) >= 1
<1>1. IsFiniteSet(places) /\ Cardinality(places) \in Nat
  <2>1. IsFiniteSet(1..n)
    BY FS_Interval
  <2> QED BY <2>1, FS_Subset, FS_CardinalityType
<1>2. UpTo(places, i) \in SUBSET places
  BY DEF UpTo
<1>3. /\ IsFiniteSet(UpTo(places, i)) /\ Cardinality(UpTo(places, i)) \in Nat
      /\ Cardinality(UpTo(places, i)) <= Cardinality(places)
  BY <1>1, <1>2, FS_Subset, FS_CardinalityType
<1>4. i \in places => Cardinality(UpTo(places, i)) # 0
  <2>1. i \in places => UpTo(places, i) # {}
    BY DEF UpTo
  <2> QED BY <2>1, <1>3, FS_EmptySet
<1> QED BY <1>1, <1>3, <1>4

(* A place that is further on has a higher rank. *)
LEMMA RankMonotone ==
    ASSUME NEW n \in Nat, NEW places \in SUBSET (1..n),
           NEW i \in places, NEW j \in places, i < j
    PROVE  Cardinality(UpTo(places, i)) < Cardinality(UpTo(places, j))
<1>1. i \in Nat /\ j \in Nat
  OBVIOUS
<1>2. /\ IsFiniteSet(UpTo(places, j))
      /\ Cardinality(UpTo(places, i)) \in Nat /\ Cardinality(UpTo(places, j)) \in Nat
  BY <1>1, RankType
<1>3. UpTo(places, i) \in SUBSET UpTo(places, j) /\ j \in UpTo(places, j) \ UpTo(places, i)
  <2>1. \A k \in places : k \in Nat
    OBVIOUS
  <2>2. \A k \in places : k <= i => k <= j
    BY <1>1, <2>1
  <2>3. j <= j /\ ~(j <= i)
    BY <1>1
  <2> QED BY <2>2, <2>3 DEF UpTo
<1> QED BY <1>2, <1>3, FS_Subset

(* Each place of the result is the rank of a place. *)
LEMMA RankOnto ==
    ASSUME NEW n \in Nat, NEW places \in SUBSET (1..n),
           NEW k \in 1..Cardinality(places)
    PROVE  \E i \in places : Cardinality(UpTo(places, i)) = k
<1> DEFINE high == {i \in 0..n : Cardinality(UpTo(places, i)) >= k}
<1> HIDE DEF high
<1>1. \A j \in places : j \in Nat /\ 1 <= j /\ j <= n
  OBVIOUS
<1>2. \A i : i \in high <=> i \in 0..n /\ Cardinality(UpTo(places, i)) >= k
  BY DEF high
<1>3. n \in high
  <2>1. UpTo(places, n) = places
    BY <1>1 DEF UpTo
  <2>2. Cardinality(places) \in Nat
    BY RankType
  <2> QED BY <1>2, <2>1, <2>2
<1>4. PICK m \in high : \A i \in high : m <= i
  <2>1. high \subseteq Nat /\ high # {}
    BY <1>3, <1>2
  <2> QED BY <2>1, Least
<1>5. m \in Nat /\ m <= n /\ Cardinality(UpTo(places, m)) >= k
  BY <1>2, <1>4
<1>6. k \in Nat /\ k >= 1
  <2>1. Cardinality(places) \in Nat
    BY RankType
  <2> QED BY <2>1
<1>7. m # 0
  <2>1. UpTo(places, 0) = {}
    <3>1. \A j \in places : ~(j <= 0)
      BY <1>1
    <3> QED BY <3>1 DEF UpTo
  <2> QED BY <2>1, <1>5, <1>6, FS_EmptySet
<1>8. m - 1 \in 0..n /\ m - 1 \notin high
  BY <1>4, <1>5, <1>7, <1>2
<1>9. /\ Cardinality(UpTo(places, m - 1)) \in Nat /\ IsFiniteSet(UpTo(places, m - 1))
      /\ Cardinality(UpTo(places, m)) \in Nat
  <2>1. m \in Nat /\ m - 1 \in Nat
    BY <1>5, <1>8
  <2> QED BY <2>1, RankType
<1>10. Cardinality(UpTo(places, m - 1)) < k
  BY <1>6, <1>8, <1>9, <1>2
<1>11. m \in places
  <2>1. m \notin places => UpTo(places, m) = UpTo(places, m - 1)
    <3>1. ASSUME m \notin places, NEW j \in places PROVE j <= m <=> j <= m - 1
      BY <1>5, <1>1, <3>1
    <3> QED BY <3>1 DEF UpTo
  <2> QED BY <2>1, <1>5, <1>6, <1>9, <1>10
<1>12. Cardinality(UpTo(places, m)) = Cardinality(UpTo(places, m - 1)) + 1
  <2>1. UpTo(places, m) = UpTo(places, m - 1) \cup {m} /\ m \notin UpTo(places, m - 1)
    <3>1. ASSUME NEW j \in places PROVE j <= m <=> j <= m - 1 \/ j = m
      BY <1>5, <1>1
    <3>2. ~(m <= m - 1)
      BY <1>5
    <3> QED BY <1>11, <3>1, <3>2 DEF UpTo
  <2> QED BY <2>1, <1>9, FS_AddElement
<1> QED BY <1>5, <1>6, <1>9, <1>10, <1>11, <1>12

\* The place whose element comes k-th.
PlaceOf(places, k) == CHOOSE i \in places : Cardinality(UpTo(places, i)) = k

(* The places and their ranks correspond. *)
LEMMA PlaceOfRank ==
    ASSUME NEW n \in Nat, NEW places \in SUBSET (1..n)
    PROVE  /\ \A k \in 1..Cardinality(places) :
                 /\ PlaceOf(places, k) \in places
                 /\ Cardinality(UpTo(places, PlaceOf(places, k))) = k
           /\ \A i \in places : /\ Cardinality(UpTo(places, i)) \in 1..Cardinality(places)
                                /\ PlaceOf(places, Cardinality(UpTo(places, i))) = i
<1>1. ASSUME NEW k \in 1..Cardinality(places)
      PROVE  /\ PlaceOf(places, k) \in places
             /\ Cardinality(UpTo(places, PlaceOf(places, k))) = k
  BY RankOnto DEF PlaceOf
<1>2. ASSUME NEW i \in places
      PROVE  /\ Cardinality(UpTo(places, i)) \in 1..Cardinality(places)
             /\ PlaceOf(places, Cardinality(UpTo(places, i))) = i
  <2>1. Cardinality(UpTo(places, i)) \in 1..Cardinality(places)
    <3>1. i \in Nat
      OBVIOUS
    <3>2. /\ Cardinality(UpTo(places, i)) \in Nat /\ Cardinality(places) \in Nat
          /\ Cardinality(UpTo(places, i)) <= Cardinality(places)
          /\ i \in places => Cardinality(UpTo(places, i)) >= 1
      BY <3>1, RankType
    <3> QED BY <3>2
  <2> DEFINE j == PlaceOf(places, Cardinality(UpTo(places, i)))
  <2>2. j \in places /\ Cardinality(UpTo(places, j)) = Cardinality(UpTo(places, i))
    BY <1>1, <2>1
  <2> HIDE DEF j
  <2>3. i \in Nat /\ j \in Nat
    BY <2>2
  <2>4. ~(i < j) /\ ~(j < i)
    <3>1. i < j => Cardinality(UpTo(places, i)) < Cardinality(UpTo(places, j))
      BY <2>2, RankMonotone
    <3>2. j < i => Cardinality(UpTo(places, j)) < Cardinality(UpTo(places, i))
      BY <2>2, RankMonotone
    <3>3. Cardinality(UpTo(places, i)) \in Int
      BY <2>1
    <3> QED BY <2>2, <3>1, <3>2, <3>3
  <2>5. i = j
    BY <2>3, <2>4
  <2> QED BY <2>1, <2>5 DEF j
<1> QED BY <1>1, <1>2

(* The elements at some places, one for each place. *)
LEMMA AtPlacesIs ==
    ASSUME NEW seq, NEW places
    PROVE  AtPlaces(seq, places) = [k \in 1..Cardinality(places) |-> seq[PlaceOf(places, k)]]
BY DEF AtPlaces, PlaceOf, UpTo

(* What is taken from a sequence is a sequence. *)
LEMMA AtPlacesType ==
    ASSUME NEW S, NEW seq, NEW n \in Nat, NEW places \in SUBSET (1..n),
           \A i \in places : seq[i] \in S
    PROVE  AtPlaces(seq, places) \in Seq(S)
<1> DEFINE m == Cardinality(places)
           result == AtPlaces(seq, places)
<1>1. m \in Nat
  BY RankType
<1>2. result = [k \in 1..m |-> seq[PlaceOf(places, k)]]
  BY AtPlacesIs
<1>3. \A k \in 1..m : PlaceOf(places, k) \in places
  BY PlaceOfRank
<1> HIDE DEF m, result
<1>4. result \in [1..m -> S]
  BY <1>2, <1>3
<1>5. result \in Seq(S)
  BY <1>1, <1>4, SeqDef
<1> QED BY <1>5 DEF result

(* What is taken from a sequence consists of the elements at the places. *)
LEMMA AtPlacesRange ==
    ASSUME NEW seq, NEW n \in Nat, NEW places \in SUBSET (1..n)
    PROVE  /\ ToSet(AtPlaces(seq, places)) = {seq[i] : i \in places}
           /\ (\A i, j \in places : seq[i] = seq[j] => i = j)
                 => IsInjective(AtPlaces(seq, places))
<1> DEFINE m == Cardinality(places)
           result == AtPlaces(seq, places)
<1>1. m \in Nat
  BY RankType
<1>2. result = [k \in 1..m |-> seq[PlaceOf(places, k)]]
  BY AtPlacesIs
<1>3. \A k \in 1..m : PlaceOf(places, k) \in places
  BY PlaceOfRank
<1>4. \A k \in 1..m : Cardinality(UpTo(places, PlaceOf(places, k))) = k
  BY PlaceOfRank
<1>5. \A i \in places : /\ Cardinality(UpTo(places, i)) \in 1..m
                        /\ PlaceOf(places, Cardinality(UpTo(places, i))) = i
  BY PlaceOfRank
<1> HIDE DEF m, result
<1>6. ToSet(result) = {seq[i] : i \in places}
  <2>1. ToSet(result) = {result[k] : k \in 1..m}
    BY <1>2 DEF ToSet
  <2>2. \A k \in 1..m : result[k] \in {seq[i] : i \in places}
    BY <1>2, <1>3
  <2>3. ASSUME NEW i \in places PROVE seq[i] \in {result[k] : k \in 1..m}
    <3>1. PICK k \in 1..m : PlaceOf(places, k) = i
      BY <1>5
    <3> QED BY <1>2, <3>1
  <2> QED BY <2>1, <2>2, <2>3
<1>7. ASSUME \A i, j \in places : seq[i] = seq[j] => i = j
      PROVE  IsInjective(result)
  <2>1. SUFFICES ASSUME NEW a \in 1..m, NEW b \in 1..m, result[a] = result[b] PROVE a = b
    BY <1>2 DEF IsInjective
  <2>2. PlaceOf(places, a) = PlaceOf(places, b)
    BY <1>2, <1>3, <1>7, <2>1
  <2> QED BY <1>4, <2>2
<1> QED BY <1>6, <1>7 DEF result

(* All the places of a sequence give the sequence. *)
LEMMA AtAllPlaces ==
    ASSUME NEW S, NEW seq \in Seq(S)
    PROVE  AtPlaces(seq, DOMAIN seq) = seq
<1> DEFINE n == Len(seq)
<1>1. n \in Nat /\ DOMAIN seq = 1..n /\ seq \in [1..n -> S]
  BY LenProperties
<1> HIDE DEF n
<1>2. Cardinality(1..n) = n
  BY <1>1, FS_Interval
<1>3. ASSUME NEW k \in 1..n PROVE PlaceOf(1..n, k) = k
  <2>1. UpTo(1..n, k) = 1..k
    BY <1>1 DEF UpTo
  <2>2. Cardinality(UpTo(1..n, k)) = k
    BY <1>1, <2>1, FS_Interval
  <2> DEFINE places == 1..n
  <2>3. places \in SUBSET (1..n) /\ k \in places /\ Cardinality(UpTo(places, k)) = k
    BY <2>2
  <2> HIDE DEF places
  <2>4. PlaceOf(places, k) = k
    BY <1>1, <2>3, PlaceOfRank
  <2> QED BY <2>4 DEF places
<1>4. AtPlaces(seq, 1..n) = [k \in 1..n |-> seq[PlaceOf(1..n, k)]]
  BY <1>2, AtPlacesIs
<1> QED BY <1>1, <1>3, <1>4

(* What is filtered and freed of repetitions has the elements that are in
   the set, each of them once. *)
LEMMA DedupedProperties ==
    ASSUME NEW S, NEW seq \in Seq(S), NEW set
    PROVE  /\ Deduped(seq, set) \in Seq(S \cap set)
           /\ ToSet(Deduped(seq, set)) = ToSet(seq) \cap set
           /\ IsInjective(Deduped(seq, set))
<1> DEFINE n == Len(seq)
           places == {i \in DOMAIN seq : seq[i] \in set /\ \A j \in 1..(i - 1) : seq[j] # seq[i]}
<1>1. n \in Nat /\ DOMAIN seq = 1..n /\ seq \in [1..n -> S]
  BY LenProperties
<1>2. places \in SUBSET (1..n)
  BY <1>1
<1>3. \A i \in places : seq[i] \in S \cap set
  BY <1>1
<1>4. {seq[i] : i \in places} = ToSet(seq) \cap set
  <2>1. ASSUME NEW x \in ToSet(seq) \cap set PROVE x \in {seq[i] : i \in places}
    <3> DEFINE at == {i \in 1..n : seq[i] = x}
    <3>1. at \subseteq Nat /\ at # {}
      BY <1>1 DEF ToSet
    <3>2. PICK i \in at : \A j \in at : i <= j
      BY <3>1, Least
    <3>3. i \in places
      BY <1>1, <3>2
    <3> QED BY <3>2, <3>3
  <2>2. {seq[i] : i \in places} \subseteq ToSet(seq) \cap set
    BY DEF ToSet
  <2> QED BY <2>1, <2>2
<1>5. \A i, j \in places : seq[i] = seq[j] => i = j
  <2>1. SUFFICES ASSUME NEW i \in places, NEW j \in places, seq[i] = seq[j], i < j
                 PROVE  FALSE
    BY <1>2
  <2>2. i \in 1..(j - 1)
    BY <1>2, <2>1
  <2> QED BY <2>1, <2>2
<1>6. Deduped(seq, set) = AtPlaces(seq, places)
  BY DEF Deduped
<1> HIDE DEF places, n
<1>7. /\ AtPlaces(seq, places) \in Seq(S \cap set)
      /\ ToSet(AtPlaces(seq, places)) = {seq[i] : i \in places}
      /\ IsInjective(AtPlaces(seq, places))
  <2>1. n \in Nat
    BY <1>1
  <2>2. AtPlaces(seq, places) \in Seq(S \cap set)
    BY <2>1, <1>2, <1>3, AtPlacesType
  <2>3. ToSet(AtPlaces(seq, places)) = {seq[i] : i \in places}
    BY <2>1, <1>2, AtPlacesRange
  <2>4. IsInjective(AtPlaces(seq, places))
    BY <2>1, <1>2, <1>5, AtPlacesRange
  <2> QED BY <2>2, <2>3, <2>4
<1> QED BY <1>4, <1>6, <1>7

(* Places whose elements are in a set and that are not skipped. *)
LEMMA ToSetProperties ==
    ASSUME NEW S, NEW seq \in Seq(S)
    PROVE  /\ ToSet(seq) \subseteq S
           /\ seq \in Seq(ToSet(seq))
           /\ \A x : x \in ToSet(seq) <=> \E i \in 1..Len(seq) : seq[i] = x
<1>1. Len(seq) \in Nat /\ DOMAIN seq = 1..Len(seq) /\ seq \in [1..Len(seq) -> S]
  BY LenProperties
<1>2. ToSet(seq) \subseteq S /\ \A x : x \in ToSet(seq) <=> \E i \in 1..Len(seq) : seq[i] = x
  BY <1>1 DEF ToSet
<1>3. seq \in [1..Len(seq) -> ToSet(seq)]
  BY <1>1 DEF ToSet
<1> QED BY <1>1, <1>2, <1>3, SeqDef

(* The elements of two sequences in a row are those of both. *)
LEMMA ToSetConcat ==
    ASSUME NEW S, NEW s \in Seq(S), NEW t \in Seq(S)
    PROVE  ToSet(s \o t) = ToSet(s) \cup ToSet(t)
<1>1. Len(s) \in Nat /\ Len(t) \in Nat
  BY LenProperties
<1>2. /\ s \o t \in Seq(S) /\ Len(s \o t) = Len(s) + Len(t)
      /\ \A i \in 1..(Len(s) + Len(t)) :
            (s \o t)[i] = IF i <= Len(s) THEN s[i] ELSE t[i - Len(s)]
  BY ConcatProperties
<1>3. ASSUME NEW x \in ToSet(s) PROVE x \in ToSet(s \o t)
  <2>1. PICK i \in 1..Len(s) : s[i] = x
    BY ToSetProperties
  <2>2. i \in 1..Len(s \o t) /\ (s \o t)[i] = x
    BY <1>1, <1>2, <2>1
  <2> QED BY <1>2, <2>2, ToSetProperties
<1>4. ASSUME NEW x \in ToSet(t) PROVE x \in ToSet(s \o t)
  <2>1. PICK i \in 1..Len(t) : t[i] = x
    BY ToSetProperties
  <2>2. i + Len(s) \in 1..Len(s \o t) /\ (s \o t)[i + Len(s)] = x
    BY <1>1, <1>2, <2>1
  <2> QED BY <1>2, <2>2, ToSetProperties
<1>5. ASSUME NEW x \in ToSet(s \o t) PROVE x \in ToSet(s) \cup ToSet(t)
  <2>1. PICK i \in 1..Len(s \o t) : (s \o t)[i] = x
    BY <1>2, ToSetProperties
  <2>2. CASE i <= Len(s)
    BY <1>1, <1>2, <2>1, <2>2, ToSetProperties
  <2>3. CASE i > Len(s)
    <3>1. i - Len(s) \in 1..Len(t) /\ t[i - Len(s)] = x
      BY <1>1, <1>2, <2>1, <2>3
    <3> QED BY <3>1, ToSetProperties
  <2> QED BY <1>1, <2>1, <2>2, <2>3
<1> QED BY <1>3, <1>4, <1>5

(* Two sequences without repetitions that have nothing in common give a
   sequence without repetitions. *)
LEMMA ConcatInjective ==
    ASSUME NEW S, NEW s \in Seq(S), NEW t \in Seq(S), IsInjective(s), IsInjective(t),
           ToSet(s) \cap ToSet(t) = {}
    PROVE  IsInjective(s \o t)
<1>1. /\ Len(s) \in Nat /\ DOMAIN s = 1..Len(s)
      /\ Len(t) \in Nat /\ DOMAIN t = 1..Len(t)
  BY LenProperties
<1>2. /\ s \o t \in Seq(S) /\ Len(s \o t) = Len(s) + Len(t)
      /\ \A i \in 1..(Len(s) + Len(t)) :
            (s \o t)[i] = IF i <= Len(s) THEN s[i] ELSE t[i - Len(s)]
  BY ConcatProperties
<1>3. DOMAIN (s \o t) = 1..(Len(s) + Len(t))
  BY <1>2, LenProperties
<1>4. SUFFICES ASSUME NEW a \in 1..(Len(s) + Len(t)), NEW b \in 1..(Len(s) + Len(t)),
                      (s \o t)[a] = (s \o t)[b]
               PROVE  a = b
  BY <1>3 DEF IsInjective
<1>5. ASSUME NEW i \in 1..Len(s), NEW j \in 1..Len(t) PROVE s[i] # t[j]
  BY <1>1, <1>5 DEF ToSet
<1>6. CASE a <= Len(s) /\ b <= Len(s)
  <2>1. a \in DOMAIN s /\ b \in DOMAIN s /\ s[a] = s[b]
    BY <1>1, <1>2, <1>4, <1>6
  <2> QED BY <2>1 DEF IsInjective
<1>7. CASE a > Len(s) /\ b > Len(s)
  <2>1. /\ a - Len(s) \in DOMAIN t /\ b - Len(s) \in DOMAIN t
        /\ t[a - Len(s)] = t[b - Len(s)]
    BY <1>1, <1>2, <1>4, <1>7
  <2>2. a - Len(s) = b - Len(s)
    BY <2>1 DEF IsInjective
  <2> QED BY <1>1, <2>2
<1>8. CASE a <= Len(s) /\ b > Len(s)
  <2>1. a \in 1..Len(s) /\ b - Len(s) \in 1..Len(t) /\ s[a] = t[b - Len(s)]
    BY <1>1, <1>2, <1>4, <1>8
  <2> QED BY <1>5, <2>1
<1>9. CASE a > Len(s) /\ b <= Len(s)
  <2>1. b \in 1..Len(s) /\ a - Len(s) \in 1..Len(t) /\ s[b] = t[a - Len(s)]
    BY <1>1, <1>2, <1>4, <1>9
  <2> QED BY <1>5, <2>1
<1> QED BY <1>1, <1>6, <1>7, <1>8, <1>9
=============================================================================

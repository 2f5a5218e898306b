------------------------- MODULE HotExpertsProofs -------------------------
(***************************************************************************)
(* Proofs about HotExperts, for every ranking, ownership and number of     *)
(* experts, slots, tokens and layers: an expert that a token is routed to  *)
(* contributes once, with its own weights, and in a cache that is replaced *)
(* by use the map, the slots and the copies agree.  The invariant says of  *)
(* each cache that its map and its slots are inverses and its copies are   *)
(* of the experts the slots name.  A batch that replaces experts is a loop *)
(* over its places; LoopInv is what holds after each.  At the end, the     *)
(* loader of the experts (ExpertWeights).                                  *)
(***************************************************************************)
EXTENDS HotExperts, FiniteSetTheorems, WellFoundedInduction, TLAPS

(* Numbers and sequences.                                                  *)

\* A set of natural numbers with zero and the successor of each has all of them.
LEMMA AllNaturals ==
    ASSUME NEW T \in SUBSET Nat, 0 \in T, \A n \in T : n + 1 \in T
    PROVE  T = Nat
<1> SUFFICES ASSUME Nat \ T # {} PROVE FALSE
  OBVIOUS
<1>1. PICK m \in Nat \ T : \A k \in Nat \ T : <<k, m>> \notin OpToRel(<, Nat)
  BY NatLessThanWellFounded, WFMin
<1>2. \A k \in Nat \ T : ~ (k < m)
  BY <1>1 DEF OpToRel
<1>3. m \in Nat /\ m # 0
  OBVIOUS
<1>4. m - 1 \in Nat /\ m - 1 < m /\ (m - 1) + 1 = m
  BY <1>3
<1>5. m - 1 \in T
  BY <1>2, <1>4
<1> QED
  BY <1>4, <1>5

\* Some natural numbers have a least one.
LEMMA LeastOf ==
    ASSUME NEW S \in SUBSET Nat, S # {}
    PROVE  \E m \in S : \A k \in S : m <= k
<1>1. PICK m \in S : \A k \in S : <<k, m>> \notin OpToRel(<, Nat)
  BY NatLessThanWellFounded, WFMin
<1>2. \A k \in S : ~ (k < m)
  BY <1>1 DEF OpToRel
<1> QED
  BY <1>2

\* The elements of a sequence.
LEMMA ElementsOf ==
    ASSUME NEW S, NEW s \in Seq(S)
    PROVE  /\ DOMAIN s = 1 .. Len(s) /\ Len(s) \in Nat
           /\ \A i \in 1 .. Len(s) : s[i] \in S /\ s[i] \in Range(s)
           /\ \A x \in Range(s) : \E i \in 1 .. Len(s) : s[i] = x
           /\ Range(s) \subseteq S
  BY DEF Range

\* SetToSeqs returns sequences that have every element of the set once.
LEMMA WholeSeq ==
    ASSUME NEW S, IsFiniteSet(S), NEW s \in SetToSeqs(S)
    PROVE  /\ s \in Seq(S) /\ Len(s) = Cardinality(S) /\ Range(s) = S /\ IsInjective(s)
<1> DEFINE n == Cardinality(S)
<1>1. n \in Nat
  BY FS_CardinalityType
<1>2. s \in [1 .. n -> S] /\ \A i, j \in 1 .. n : i # j => s[i] # s[j]
  BY DEF SetToSeqs
<1>3. s \in Injection(1 .. n, S)
  BY <1>2 DEF Injection, IsInjective
<1>4. Cardinality(1 .. n) = n /\ IsFiniteSet(1 .. n)
  BY <1>1, FS_Interval
<1>5. s \in Surjection(1 .. n, S)
  BY <1>3, <1>4, FS_Injection
<1>6. Range(s) = S
  BY <1>5 DEF Surjection, Range
<1>7. s \in Seq(S) /\ Len(s) = n
  BY <1>1, <1>2
<1> QED
  BY <1>2, <1>6, <1>7 DEF IsInjective

\* An enumeration of a set.
Enumerates(s, S) == s \in Seq(S) /\ Range(s) = S /\ IsInjective(s)

\* A finite set of numbers can be sorted.
LEMMA SortedExists ==
    ASSUME NEW S \in SUBSET Nat, IsFiniteSet(S)
    PROVE  \E s \in SetToSeqs(S) : \A i, j \in DOMAIN s : i < j => s[i] < s[j]
<1> DEFINE Sorted(U) == \E s \in [1 .. Cardinality(U) -> U] :
                            \A i, j \in 1 .. Cardinality(U) : i < j => s[i] < s[j]
           T == {n \in Nat : \A U \in SUBSET Nat :
                                IsFiniteSet(U) /\ Cardinality(U) = n => Sorted(U)}
<1>1. 0 \in T
  <2> SUFFICES ASSUME NEW U \in SUBSET Nat, IsFiniteSet(U), Cardinality(U) = 0
               PROVE  \E s \in [1 .. 0 -> U] : \A i, j \in 1 .. 0 : i < j => s[i] < s[j]
    OBVIOUS
  <2>1. \A i \in 1 .. 0 : FALSE
    OBVIOUS
  <2>2. [i \in 1 .. 0 |-> 0] \in [1 .. 0 -> U]
    BY <2>1
  <2> QED
    BY <2>1, <2>2
<1>2. ASSUME NEW n \in T PROVE n + 1 \in T
  <2> SUFFICES ASSUME NEW U \in SUBSET Nat, IsFiniteSet(U), Cardinality(U) = n + 1
               PROVE  \E s \in [1 .. n + 1 -> U] : \A i, j \in 1 .. n + 1 : i < j => s[i] < s[j]
    OBVIOUS
  <2>1. U # {}
    BY FS_EmptySet
  <2>2. PICK m \in U : \A k \in U : m <= k
    BY <2>1, LeastOf
  <2>3. IsFiniteSet(U \ {m}) /\ Cardinality(U \ {m}) = n
    BY FS_RemoveElement
  <2>4. PICK s \in [1 .. n -> U \ {m}] : \A i, j \in 1 .. n : i < j => s[i] < s[j]
    BY <2>3
  <2> DEFINE h == [i \in 1 .. n + 1 |-> IF i = 1 THEN m ELSE s[i - 1]]
  <2>5. \A i \in 1 .. n + 1 : i # 1 => i - 1 \in 1 .. n
    OBVIOUS
  <2>6. h \in [1 .. n + 1 -> U]
    BY <2>4, <2>5
  <2>7. ASSUME NEW i \in 1 .. n + 1, NEW j \in 1 .. n + 1, i < j PROVE h[i] < h[j]
    <3>1. j # 1 /\ h[j] = s[j - 1] /\ s[j - 1] \in U \ {m}
      BY <2>4, <2>5, <2>7
    <3>2. CASE i = 1
      <4>1. h[i] = m
        BY <3>2
      <4>2. m \in Nat /\ h[j] \in Nat /\ h[j] # m /\ m <= h[j]
        BY <2>2, <3>1
      <4> QED
        BY <4>1, <4>2
    <3>3. CASE i # 1
      <4>1. i - 1 \in 1 .. n /\ j - 1 \in 1 .. n /\ i - 1 < j - 1
        BY <2>5, <2>7, <3>1, <3>3
      <4>2. s[i - 1] < s[j - 1]
        BY <2>4, <4>1
      <4> QED
        BY <3>1, <3>3, <4>2
    <3> QED
      BY <3>2, <3>3
  <2> HIDE DEF h
  <2> QED
    BY <2>6, <2>7
<1>3. T = Nat
  <2>1. T \in SUBSET Nat
    OBVIOUS
  <2> HIDE DEF T
  <2> QED
    BY <1>1, <1>2, <2>1, AllNaturals
<1>4. Cardinality(S) \in Nat
  BY FS_CardinalityType
<1>5. PICK s \in [1 .. Cardinality(S) -> S] :
          \A i, j \in 1 .. Cardinality(S) : i < j => s[i] < s[j]
  BY <1>3, <1>4
<1>6. ASSUME NEW i \in 1 .. Cardinality(S), NEW j \in 1 .. Cardinality(S), i # j
      PROVE  s[i] # s[j]
  <2>1. s[i] \in S /\ s[j] \in S
    BY <1>5
  <2>4. s[i] \in Nat /\ s[j] \in Nat
    BY <2>1
  <2>2. i < j \/ j < i
    BY <1>4, <1>6
  <2>3. s[i] < s[j] \/ s[j] < s[i]
    BY <1>5, <2>2
  <2> QED
    BY <2>3, <2>4
<1>7. s \in SetToSeqs(S)
  BY <1>5, <1>6 DEF SetToSeqs
<1> QED
  BY <1>5, <1>7

\* Ascending enumerates the set.
LEMMA AscendingFacts ==
    ASSUME NEW S \in SUBSET Nat, IsFiniteSet(S)
    PROVE  Enumerates(Ascending(S), S) /\ Len(Ascending(S)) = Cardinality(S)
<1>1. Ascending(S) \in SetToSeqs(S)
  BY SortedExists DEF Ascending
<1> HIDE DEF Ascending
<1> QED
  BY <1>1, WholeSeq DEF Enumerates

\* The position of an element.
LEMMA PositionFacts ==
    ASSUME NEW S, NEW s \in Seq(S), IsInjective(s)
    PROVE  /\ \A x \in Range(s) : /\ Position(s, x) \in 0 .. Len(s) - 1
                                  /\ s[Position(s, x) + 1] = x
           /\ \A i \in 1 .. Len(s) : Position(s, s[i]) = i - 1
<1>1. DOMAIN s = 1 .. Len(s) /\ Len(s) \in Nat
  OBVIOUS
<1>2. ASSUME NEW x \in Range(s)
      PROVE  Position(s, x) \in 0 .. Len(s) - 1 /\ s[Position(s, x) + 1] = x
  <2>1. \E i \in DOMAIN s : s[i] = x
    BY DEF Range
  <2> DEFINE p == CHOOSE i \in DOMAIN s : s[i] = x
  <2>2. p \in DOMAIN s /\ s[p] = x
    BY <2>1
  <2>3. Position(s, x) = p - 1
    BY DEF Position
  <2> HIDE DEF p
  <2> QED
    BY <1>1, <2>2, <2>3
<1>3. ASSUME NEW i \in 1 .. Len(s) PROVE Position(s, s[i]) = i - 1
  <2>1. s[i] \in Range(s)
    BY <1>1 DEF Range
  <2>2. Position(s, s[i]) \in 0 .. Len(s) - 1 /\ s[Position(s, s[i]) + 1] = s[i]
    BY <1>2, <2>1
  <2> QED
    BY <1>1, <2>2 DEF IsInjective
<1> QED
  BY <1>2, <1>3

\* Sequences of different elements, one after the other.
LEMMA ConcatWhole ==
    ASSUME NEW S, NEW s \in Seq(S), NEW t \in Seq(S), IsInjective(s), IsInjective(t),
           Range(s) \cap Range(t) = {}
    PROVE  /\ s \o t \in Seq(S) /\ Range(s \o t) = Range(s) \union Range(t)
           /\ IsInjective(s \o t)
<1> DEFINE m == Len(s)
           n == Len(t)
<1>1. m \in Nat /\ n \in Nat /\ DOMAIN s = 1 .. m /\ DOMAIN t = 1 .. n
  OBVIOUS
<1>2. PICK u \in Seq(S) : /\ u = s \o t /\ DOMAIN u = 1 .. m + n
                          /\ \A i \in 1 .. m : u[i] = s[i]
                          /\ \A i \in 1 .. n : u[m + i] = t[i]
  <2>1. s \o t \in Seq(S) /\ Len(s \o t) = m + n
    OBVIOUS
  <2>2. ASSUME NEW i \in 1 .. m PROVE (s \o t)[i] = s[i]
    OBVIOUS
  <2>3. ASSUME NEW i \in 1 .. n PROVE (s \o t)[m + i] = t[i]
    OBVIOUS
  <2>4. DOMAIN (s \o t) = 1 .. m + n
    BY <2>1
  <2> QED
    BY <2>1, <2>2, <2>3, <2>4
<1> HIDE DEF m, n
<1>3. \A i \in 1 .. m : i \in 1 .. m + n /\ u[i] = s[i] /\ s[i] \in Range(s)
  <2>1. \A i \in DOMAIN s : s[i] \in Range(s)
    BY DEF Range
  <2>2. \A i \in 1 .. m : i \in 1 .. m + n
    BY <1>1
  <2> QED
    BY <1>1, <1>2, <2>1, <2>2, Zenon
<1>4. \A i \in 1 .. n : m + i \in 1 .. m + n /\ u[m + i] = t[i] /\ t[i] \in Range(t)
  <2>1. \A i \in DOMAIN t : t[i] \in Range(t)
    BY DEF Range
  <2>2. \A i \in 1 .. n : m + i \in 1 .. m + n
    BY <1>1
  <2> QED
    BY <1>1, <1>2, <2>1, <2>2, Zenon
<1>5. \A i \in 1 .. m + n : \/ i \in 1 .. m
                            \/ i - m \in 1 .. n /\ i = m + (i - m)
  BY <1>1
<1>6. Range(u) = Range(s) \union Range(t)
  <2>1. ASSUME NEW i \in 1 .. m + n PROVE u[i] \in Range(s) \union Range(t)
    BY <1>3, <1>4, <1>5
  <2>2. ASSUME NEW x \in Range(s) PROVE x \in Range(u)
    <3>1. PICK i \in 1 .. m : x = s[i]
      BY <1>1 DEF Range
    <3> QED
      BY <1>2, <1>3, <3>1 DEF Range
  <2>3. ASSUME NEW x \in Range(t) PROVE x \in Range(u)
    <3>1. PICK i \in 1 .. n : x = t[i]
      BY <1>1 DEF Range
    <3> QED
      BY <1>2, <1>4, <3>1 DEF Range
  <2>4. Range(u) \subseteq Range(s) \union Range(t)
    BY <1>2, <2>1 DEF Range
  <2> QED
    BY <2>2, <2>3, <2>4
<1>7. IsInjective(u)
  <2> SUFFICES ASSUME NEW i \in 1 .. m + n, NEW j \in 1 .. m + n, u[i] = u[j] PROVE i = j
    BY <1>2 DEF IsInjective
  <2>1. CASE i \in 1 .. m /\ j \in 1 .. m
    BY <1>1, <1>3, <2>1 DEF IsInjective
  <2>2. CASE i \notin 1 .. m /\ j \notin 1 .. m
    <3>1. /\ i - m \in 1 .. n /\ j - m \in 1 .. n /\ u[i] = t[i - m] /\ u[j] = t[j - m]
      BY <1>4, <1>5, <2>2
    <3>2. i - m = j - m
      BY <1>1, <3>1 DEF IsInjective
    <3> QED
      BY <1>1, <3>2
  <2>3. CASE i \in 1 .. m /\ j \notin 1 .. m
    BY <1>3, <1>4, <1>5, <2>3
  <2>4. CASE i \notin 1 .. m /\ j \in 1 .. m
    BY <1>3, <1>4, <1>5, <2>4
  <2> QED
    BY <2>1, <2>2, <2>3, <2>4
<1> QED
  BY <1>2, <1>6, <1>7


\* An order of experts, and a map that gives each its place in it.
MapOf(m, order) ==
    /\ order \in Seq(Experts) /\ Len(order) <= NumExperts
    /\ m \in [Experts -> -1 .. Len(order) - 1]
    /\ \A e \in Experts : m[e] >= 0 => order[m[e] + 1] = e
    /\ \A i \in 1 .. Len(order) : m[order[i]] = i - 1

\* The experts are finitely many numbers.
LEMMA ExpertsFinite ==
    ASSUME ExpertsAssumption
    PROVE  /\ Experts \subseteq Nat /\ IsFiniteSet(Experts) /\ Cardinality(Experts) = NumExperts
           /\ NumExperts \in Nat \ {0} /\ Capacity \in Nat \ {0} /\ TopK \in Nat \ {0}
           /\ MaxTokens \in Nat \ {0} /\ StageCapacity \in Nat \ {0}
<1>1. /\ NumExperts \in Nat \ {0} /\ Capacity \in Nat \ {0} /\ TopK \in Nat \ {0}
      /\ MaxTokens \in Nat \ {0} /\ StageCapacity \in Nat \ {0}
  BY DEF ExpertsAssumption
<1>2. 0 \in Int /\ NumExperts - 1 \in Int
  BY <1>1
<1>3. /\ IsFiniteSet(0 .. NumExperts - 1)
      /\ Cardinality(0 .. NumExperts - 1) =
            IF 0 > NumExperts - 1 THEN 0 ELSE (NumExperts - 1) - 0 + 1
  BY <1>2, FS_Interval
<1> QED
  BY <1>1, <1>3 DEF Experts

\* The map of a rank follows the order of its experts.
LEMMA OwnMapFacts ==
    ASSUME ExpertsAssumption, NEW owned \in Ownerships
    PROVE  MapOf(OwnMap(owned), Ascending(owned))
<1> DEFINE order == Ascending(owned)
           m == OwnMap(owned)
<1>1. owned \subseteq Experts
  BY DEF ExpertsAssumption
<1>2. owned \in SUBSET Nat /\ IsFiniteSet(owned) /\ Cardinality(owned) <= NumExperts
  BY <1>1, ExpertsFinite, FS_Subset
<1>3. Enumerates(order, owned) /\ Len(order) = Cardinality(owned)
  BY <1>2, AscendingFacts
<1>4. order \in Seq(owned) /\ IsInjective(order) /\ Range(order) = owned
  BY <1>3 DEF Enumerates
<1>5. order \in Seq(Experts) /\ Len(order) \in Nat
  BY <1>1, <1>4
<1>6. m = [e \in Experts |-> IF e \in owned THEN Position(order, e) ELSE -1]
  BY DEF OwnMap, None
<1> HIDE DEF order, m
<1>7. /\ \A e \in owned : Position(order, e) \in 0 .. Len(order) - 1
                          /\ order[Position(order, e) + 1] = e
      /\ \A i \in 1 .. Len(order) : Position(order, order[i]) = i - 1
  BY <1>4, PositionFacts
<1>8. m \in [Experts -> -1 .. Len(order) - 1]
  BY <1>5, <1>6, <1>7
<1>9. ASSUME NEW e \in Experts, m[e] >= 0 PROVE order[m[e] + 1] = e
  BY <1>6, <1>7, <1>9
<1>10. ASSUME NEW i \in 1 .. Len(order) PROVE m[order[i]] = i - 1
  <2>1. order[i] \in owned
    BY <1>4
  <2> QED
    BY <1>1, <1>6, <1>7, <2>1
<1>11. MapOf(m, order)
  BY <1>2, <1>3, <1>5, <1>8, <1>9, <1>10 DEF MapOf
<1> QED
  BY <1>11 DEF m, order

\* The experts that get a copy differ, are local, and are no more than the capacity.
LEMMA HotIdsFacts ==
    ASSUME ExpertsAssumption, NEW ranking \in Rankings, NEW m
    PROVE  LET chosen == HotIds(m, ranking) IN
           /\ chosen \in Seq(Experts) /\ Len(chosen) <= Capacity /\ IsInjective(chosen)
           /\ \A k \in 1 .. Len(chosen) : m[chosen[k]] >= 0
<1> DEFINE S == {i \in DOMAIN ranking : m[ranking[i]] >= 0}
           local == Ascending(S)
           n == IF Len(local) < Capacity THEN Len(local) ELSE Capacity
           chosen == [k \in 1 .. n |-> ranking[local[k]]]
<1>1. ranking \in Seq(Experts) /\ IsInjective(ranking)
  BY DEF ExpertsAssumption
<1>2. DOMAIN ranking = 1 .. Len(ranking) /\ Len(ranking) \in Nat
  BY <1>1
<1>3. IsFiniteSet(1 .. Len(ranking))
  <2>1. 1 \in Int /\ Len(ranking) \in Int
    BY <1>2
  <2> QED
    BY <2>1, FS_Interval
<1>4. S \in SUBSET Nat /\ IsFiniteSet(S)
  <2>1. S \subseteq 1 .. Len(ranking)
    BY <1>2
  <2>2. S \in SUBSET (1 .. Len(ranking))
    BY <2>1
  <2> HIDE DEF S
  <2>3. IsFiniteSet(S)
    BY <1>3, <2>2, FS_Subset
  <2> QED
    BY <1>2, <2>1, <2>3
<1>5. local \in Seq(S) /\ IsInjective(local)
  <2> HIDE DEF S
  <2> QED
    BY <1>4, AscendingFacts DEF Enumerates
<1>6. \A i \in S : i \in DOMAIN ranking /\ ranking[i] \in Experts /\ m[ranking[i]] >= 0
  BY <1>1
<1>7. HotIds(m, ranking) = chosen
  BY DEF HotIds
<1> HIDE DEF S, local
<1>8. n \in Nat /\ n <= Capacity /\ \A k \in 1 .. n : k \in DOMAIN local /\ local[k] \in S
  BY <1>5, ExpertsFinite
<1> HIDE DEF n
<1>9. chosen \in Seq(Experts) /\ Len(chosen) = n /\ DOMAIN chosen = 1 .. n
  BY <1>6, <1>8
<1>10. ASSUME NEW k \in 1 .. n PROVE chosen[k] = ranking[local[k]] /\ m[chosen[k]] >= 0
  BY <1>6, <1>8
<1> HIDE DEF chosen
<1>11. IsInjective(chosen)
  <2> SUFFICES ASSUME NEW i \in 1 .. n, NEW j \in 1 .. n, chosen[i] = chosen[j] PROVE i = j
    BY <1>9 DEF IsInjective
  <2>1. ranking[local[i]] = ranking[local[j]]
    BY <1>10
  <2>2. local[i] = local[j]
    BY <1>1, <1>6, <1>8, <2>1 DEF IsInjective
  <2> QED
    BY <1>5, <1>8, <2>2 DEF IsInjective
<1> QED
  BY <1>7, <1>8, <1>9, <1>10, <1>11

-----------------------------------------------------------------------------
(* The maps and the invariant.                                             *)

\* The permutation has every row once.
LEMMA NewToOldFacts ==
    ASSUME ExpertsAssumption, NEW ranking \in Rankings, NEW m, NEW order, MapOf(m, order)
    PROVE  LET moved == NewToOld(m, ranking, Len(order))
           IN  Enumerates(moved, 0 .. Len(order) - 1) /\ Len(moved) = Len(order)
<1> DEFINE n == Len(order)
           rowSet == 0 .. n - 1
           chosen == HotIds(m, ranking)
           first == [i \in DOMAIN chosen |-> m[chosen[i]]]
           others == rowSet \ Range(first)
           rest == Ascending(others)
           moved == NewToOld(m, ranking, n)
<1>1. moved = first \o rest
  BY DEF NewToOld
<1>2. /\ chosen \in Seq(Experts) /\ IsInjective(chosen)
      /\ \A k \in 1 .. Len(chosen) : m[chosen[k]] >= 0
  BY HotIdsFacts
<1>3. /\ n \in Nat /\ order \in Seq(Experts) /\ m \in [Experts -> -1 .. n - 1]
      /\ \A e \in Experts : m[e] >= 0 => order[m[e] + 1] = e
  BY DEF MapOf
<1> HIDE DEF n, chosen, moved
<1>4. DOMAIN chosen = 1 .. Len(chosen) /\ \A k \in 1 .. Len(chosen) : chosen[k] \in Experts
  BY <1>2
<1>5. \A k \in 1 .. Len(chosen) : m[chosen[k]] \in rowSet
  BY <1>2, <1>3, <1>4
<1>6. first \in Seq(rowSet) /\ Len(first) = Len(chosen) /\ DOMAIN first = 1 .. Len(chosen)
  <2>1. Len(chosen) \in Nat
    BY <1>2
  <2> HIDE DEF rowSet
  <2> QED
    BY <1>4, <1>5, <2>1
<1>7. \A k \in 1 .. Len(chosen) : first[k] = m[chosen[k]]
  BY <1>4
<1> HIDE DEF first
<1>8. IsInjective(first)
  <2> SUFFICES ASSUME NEW i \in 1 .. Len(chosen), NEW j \in 1 .. Len(chosen), first[i] = first[j]
               PROVE  i = j
    BY <1>6 DEF IsInjective
  <2>1. m[chosen[i]] = m[chosen[j]] /\ m[chosen[i]] >= 0
    BY <1>2, <1>7
  <2>2. chosen[i] = chosen[j]
    BY <1>3, <1>4, <2>1
  <2> QED
    BY <1>2, <1>4, <2>2 DEF IsInjective
<1>9. IsFiniteSet(rowSet) /\ Cardinality(rowSet) = n /\ rowSet \subseteq Nat
  <2>1. 0 \in Int /\ n - 1 \in Int
    BY <1>3
  <2>2. /\ IsFiniteSet(0 .. n - 1)
        /\ Cardinality(0 .. n - 1) = IF 0 > n - 1 THEN 0 ELSE (n - 1) - 0 + 1
    BY <2>1, FS_Interval
  <2> QED
    BY <1>3, <2>2
<1> HIDE DEF rowSet
<1>10. others \in SUBSET rowSet /\ others \in SUBSET Nat
  BY <1>9
<1>11. others \cap Range(first) = {} /\ others \union Range(first) = rowSet
  <2>1. Range(first) \subseteq rowSet
    BY <1>6, ElementsOf
  <2> QED
    BY <2>1
<1> HIDE DEF others
<1>12. IsFiniteSet(others)
  BY <1>9, <1>10, FS_Subset
<1>13. Enumerates(rest, others)
  BY <1>10, <1>12, AscendingFacts
<1>14. rest \in Seq(rowSet) /\ IsInjective(rest) /\ Range(rest) = others
  <2>1. rest \in Seq(others) /\ IsInjective(rest) /\ Range(rest) = others
    BY <1>13 DEF Enumerates
  <2>2. others \subseteq rowSet
    BY <1>10
  <2> HIDE DEF rest
  <2> QED
    BY <2>1, <2>2
<1> HIDE DEF rest
<1>15. moved \in Seq(rowSet) /\ Range(moved) = rowSet /\ IsInjective(moved)
  <2>1. Range(first) \cap Range(rest) = {}
    BY <1>11, <1>14
  <2>2. /\ first \o rest \in Seq(rowSet) /\ Range(first \o rest) = Range(first) \union Range(rest)
        /\ IsInjective(first \o rest)
    BY <1>6, <1>8, <1>14, <2>1, ConcatWhole
  <2> QED
    BY <1>1, <1>11, <1>14, <2>2
<1>16. Len(moved) = n
  <2>1. DOMAIN moved = 1 .. Len(moved) /\ Len(moved) \in Nat
    BY <1>15
  <2>2. moved \in [1 .. Len(moved) -> rowSet]
    BY <1>15, <2>1
  <2>3. moved \in Surjection(1 .. Len(moved), rowSet)
    <3>1. \A y \in rowSet : \E i \in 1 .. Len(moved) : moved[i] = y
      BY <1>15, <2>1 DEF Range
    <3> QED
      BY <2>2, <3>1 DEF Surjection
  <2>4. moved \in Injection(1 .. Len(moved), rowSet)
    BY <1>15, <2>1, <2>2 DEF Injection, IsInjective
  <2>5. IsFiniteSet(1 .. Len(moved)) /\ Cardinality(1 .. Len(moved)) = Len(moved)
    <3>1. 1 \in Int /\ Len(moved) \in Int
      BY <2>1
    <3>2. /\ IsFiniteSet(1 .. Len(moved))
          /\ Cardinality(1 .. Len(moved)) =
                IF 1 > Len(moved) THEN 0 ELSE Len(moved) - 1 + 1
      BY <3>1, FS_Interval
    <3> QED
      BY <2>1, <3>2
  <2> QED
    BY <1>9, <2>3, <2>4, <2>5, FS_Surjection
<1>17. Enumerates(moved, rowSet) /\ Len(moved) = n
  BY <1>15, <1>16 DEF Enumerates
<1> QED
  BY <1>17 DEF moved, rowSet, n

\* The map and the slots of a cache say the same.
Agree(slots, m) ==
    /\ m \in [Experts -> -1 .. Len(slots) - 1]
    /\ \A e \in Experts : m[e] >= 0 => slots[m[e] + 1] = e
    /\ \A s \in 1 .. Len(slots) : m[slots[s]] = s - 1

\* A cache of layer l: its copies are of local experts, and the experts of the other
\* rows are the local ones it does not have, or all of them where the copies move.
CacheOf(l, c, how, m) ==
    /\ c.slots \in Seq(Experts) /\ Len(c.slots) <= Capacity /\ Agree(c.slots, c.map)
    /\ DOMAIN c.rows = 1 .. Len(c.slots)
    /\ \A s \in 1 .. Len(c.slots) : c.rows[s] = Weights(l, c.slots[s])
    /\ c.ages \in [1 .. Len(c.slots) -> Nat] /\ c.clock \in Nat
    /\ how # "vmm" =>
          /\ \A e \in Experts :
                c.cold[e] = IF how # "lru" /\ c.map[e] >= 0 THEN None ELSE m[e]
          /\ \A s \in 1 .. Len(c.slots) : m[c.slots[s]] >= 0

\* The rows the map names hold the weights of the experts.
HostInv == \A l \in Layers, e \in Experts : map[e] >= 0 => rows[l][map[e] + 1] = Weights(l, e)

\* What the theorems need of a state.
ExpertsInv ==
    /\ mode \in Modes /\ map \in [Experts -> -1 .. NumExperts - 1]
    /\ DOMAIN stage.rows = 1 .. StageCapacity
    /\ hot = [l \in Layers |-> hot[l]] /\ \A l \in Layers : CacheOf(l, hot[l], mode, map)
    /\ HostInv

\* The first cache of a layer, with the map it is made from.
LEMMA FirstCache ==
    ASSUME ExpertsAssumption, NEW ranking \in Rankings, NEW m, NEW order, MapOf(m, order),
           NEW l, NEW rowsOf, rowsOf = [i \in DOMAIN order |-> Weights(l, order[i])],
           mode \in Modes, mode # "vmm" => map = m
    PROVE  CacheOf(l, InitCache(l, m, rowsOf, ranking, mode), mode, map)
<1> DEFINE chosen == HotIds(m, ranking)
           n == Len(chosen)
           c == InitCache(l, m, rowsOf, ranking, mode)
<1>1. /\ chosen \in Seq(Experts) /\ n <= Capacity /\ IsInjective(chosen)
      /\ \A k \in 1 .. n : m[chosen[k]] >= 0
  BY HotIdsFacts
<1>2. /\ n \in Nat /\ DOMAIN chosen = 1 .. n /\ \A k \in 1 .. n : chosen[k] \in Experts
  BY <1>1
<1>3. /\ c.slots = chosen
      /\ c.rows = [s \in 1 .. n |-> rowsOf[m[chosen[s]] + 1]]
      /\ c.map = [e \in Experts |-> IF e \in Range(chosen) THEN Position(chosen, e) ELSE -1]
      /\ c.cold = [e \in Experts |-> IF mode # "lru" /\ e \in Range(chosen) THEN -1 ELSE m[e]]
      /\ c.ages = [s \in 1 .. n |-> n + 1 - s] /\ c.clock = n
  BY DEF InitCache, None
<1>4. /\ \A e \in Range(chosen) : Position(chosen, e) \in 0 .. n - 1
                                  /\ chosen[Position(chosen, e) + 1] = e
      /\ \A i \in 1 .. n : Position(chosen, chosen[i]) = i - 1
  BY <1>1, PositionFacts
<1>5. \A k \in 1 .. n : chosen[k] \in Range(chosen)
  BY <1>2 DEF Range
<1>6. /\ order \in Seq(Experts) /\ m \in [Experts -> -1 .. Len(order) - 1]
      /\ \A e \in Experts : m[e] >= 0 => order[m[e] + 1] = e
  BY DEF MapOf
<1> HIDE DEF chosen, c
<1> HIDE DEF n
<1>7. Agree(chosen, c.map)
  <2>1. c.map \in [Experts -> -1 .. n - 1]
    BY <1>2, <1>3, <1>4
  <2>2. ASSUME NEW e \in Experts, c.map[e] >= 0 PROVE chosen[c.map[e] + 1] = e
    BY <1>3, <1>4, <2>2
  <2>3. ASSUME NEW s \in 1 .. n PROVE c.map[chosen[s]] = s - 1
    BY <1>2, <1>3, <1>4, <1>5
  <2> QED
    BY <2>1, <2>2, <2>3 DEF Agree, n
<1>8. ASSUME NEW s \in 1 .. n PROVE c.rows[s] = Weights(l, chosen[s])
  <2>1. chosen[s] \in Experts /\ m[chosen[s]] >= 0
    BY <1>1, <1>2
  <2>2. m[chosen[s]] + 1 \in DOMAIN order /\ order[m[chosen[s]] + 1] = chosen[s]
    BY <1>6, <2>1
  <2> QED
    BY <1>3, <2>2
<1>9. c.ages \in [1 .. n -> Nat]
  BY <1>2, <1>3
<1>10. ASSUME mode # "vmm", NEW e \in Experts
       PROVE  c.cold[e] = IF mode # "lru" /\ c.map[e] >= 0 THEN -1 ELSE map[e]
  <2>1. c.map[e] >= 0 <=> e \in Range(chosen)
    BY <1>3, <1>4
  <2>2. m = map
    BY <1>10
  <2>3. c.cold[e] = IF mode # "lru" /\ e \in Range(chosen) THEN -1 ELSE m[e]
    BY <1>3
  <2> QED
    BY <2>1, <2>2, <2>3
<1>11. CacheOf(l, c, mode, map)
  BY <1>1, <1>2, <1>3, <1>7, <1>8, <1>9, <1>10 DEF CacheOf, None, n
<1> QED
  BY <1>11 DEF c

-----------------------------------------------------------------------------
(* The first state, and the batches.                                       *)

\* The invariant holds at the start.
LEMMA InitInv == ASSUME ExpertsAssumption, Init PROVE ExpertsInv /\ out = <<>>
<1>1. PICK owned \in Ownerships, ranking \in Rankings :
          LET m == OwnMap(owned)
              order == Ascending(owned)
              host(l) == [i \in DOMAIN order |-> Weights(l, order[i])]
              moved == NewToOld(m, ranking, Len(order))
          IN  /\ mode \in Modes
              /\ map = IF mode = "vmm" THEN [e \in Experts |-> Renumbered(m[e], moved)] ELSE m
              /\ rows = [l \in Layers |->
                    IF mode = "vmm" THEN Permuted(host(l), moved) ELSE host(l)]
              /\ hot = [l \in Layers |-> InitCache(l, m, host(l), ranking, mode)]
              /\ stage = [map |-> NoMap, rows |-> [i \in 1 .. StageCapacity |-> Unwritten]]
              /\ ids = <<>> /\ out = <<>>
  BY DEF Init
<1> DEFINE m == OwnMap(owned)
           order == Ascending(owned)
           host(l) == [i \in DOMAIN order |-> Weights(l, order[i])]
           moved == NewToOld(m, ranking, Len(order))
           n == Len(order)
<1>2. MapOf(m, order)
  BY OwnMapFacts
<1>3. Enumerates(moved, 0 .. n - 1) /\ Len(moved) = n
  BY <1>2, NewToOldFacts
<1>4. /\ mode \in Modes
      /\ map = IF mode = "vmm" THEN [e \in Experts |-> Renumbered(m[e], moved)] ELSE m
      /\ rows = [l \in Layers |-> IF mode = "vmm" THEN Permuted(host(l), moved) ELSE host(l)]
      /\ hot = [l \in Layers |-> InitCache(l, m, host(l), ranking, mode)]
      /\ stage = [map |-> NoMap, rows |-> [i \in 1 .. StageCapacity |-> Unwritten]]
      /\ out = <<>>
  BY <1>1
<1>5. /\ order \in Seq(Experts) /\ n \in Nat /\ n <= NumExperts /\ DOMAIN order = 1 .. n
      /\ m \in [Experts -> -1 .. n - 1]
      /\ \A e \in Experts : m[e] >= 0 => order[m[e] + 1] = e
  BY <1>2 DEF MapOf
<1> HIDE DEF m, order, moved
<1>6. \A l \in Layers : hot[l] = InitCache(l, m, host(l), ranking, mode)
  BY <1>4
<1>7. ASSUME NEW l \in Layers PROVE CacheOf(l, hot[l], mode, map)
  <2>1. mode # "vmm" => map = m
    BY <1>4
  <2> DEFINE h == host(l)
  <2>2. h = [i \in DOMAIN order |-> Weights(l, order[i])]
    OBVIOUS
  <2>3. hot[l] = InitCache(l, m, h, ranking, mode)
    BY <1>6
  <2> HIDE DEF h, host
  <2> QED
    BY <1>2, <1>4, <2>1, <2>2, <2>3, FirstCache
<1>8. DOMAIN stage.rows = 1 .. StageCapacity
  BY <1>4
<1>9. hot = [l \in Layers |-> hot[l]]
  BY <1>4
<1> HIDE DEF n
<1>10. ASSUME NEW e \in Experts, m[e] >= 0, NEW l
       PROVE  m[e] \in 0 .. n - 1 /\ m[e] + 1 \in DOMAIN order /\ host(l)[m[e] + 1] = Weights(l, e)
  BY <1>5, <1>10
<1>11. \A e \in Experts : m[e] \in 0 .. n - 1 \/ m[e] = -1
  BY <1>5
<1>12. CASE mode = "vmm"
  <2>1. \A e \in Experts : map[e] = IF m[e] = -1 THEN -1 ELSE Position(moved, m[e])
    BY <1>4, <1>12 DEF Renumbered, None
  <2>2. \A x \in 0 .. n - 1 : /\ Position(moved, x) \in 0 .. n - 1
                              /\ moved[Position(moved, x) + 1] = x
    <3>1. moved \in Seq(0 .. n - 1) /\ Range(moved) = 0 .. n - 1 /\ IsInjective(moved)
      BY <1>3 DEF Enumerates
    <3> QED
      BY <1>3, <3>1, PositionFacts
  <2>3. \A e \in Experts : map[e] \in 0 .. n - 1 \/ map[e] = -1
    BY <1>11, <2>1, <2>2
  <2>4. map \in [Experts -> -1 .. NumExperts - 1]
    <3>1. map = [e \in Experts |-> Renumbered(m[e], moved)]
      BY <1>4, <1>12
    <3>2. \A e \in Experts : map[e] \in -1 .. NumExperts - 1
      BY <1>5, <2>3, ExpertsFinite
    <3> QED
      BY <3>1, <3>2
  <2>5. ASSUME NEW l \in Layers, NEW e \in Experts, map[e] >= 0
        PROVE  rows[l][map[e] + 1] = Weights(l, e)
    <3>1. m[e] \in 0 .. n - 1 /\ map[e] = Position(moved, m[e])
      BY <1>11, <2>1, <2>5
    <3>2. map[e] \in 0 .. n - 1 /\ moved[map[e] + 1] = m[e]
      BY <2>2, <3>1
    <3>3. rows[l] = Permuted(host(l), moved)
      BY <1>4, <1>12
    <3>4. map[e] + 1 \in DOMAIN moved
      <4>1. DOMAIN moved = 1 .. n
        BY <1>3 DEF Enumerates
      <4> QED
        BY <1>5, <3>2, <4>1
    <3> HIDE DEF host
    <3>5. rows[l][map[e] + 1] = host(l)[m[e] + 1]
      BY <3>2, <3>3, <3>4 DEF Permuted
    <3> QED
      BY <1>10, <3>1, <3>5
  <2> QED
    BY <1>4, <1>7, <1>8, <1>9, <2>4, <2>5 DEF ExpertsInv, HostInv
<1>13. CASE mode # "vmm"
  <2>1. map = m /\ \A l \in Layers : rows[l] = host(l)
    BY <1>4, <1>13
  <2>2. map \in [Experts -> -1 .. NumExperts - 1]
    BY <1>5, <2>1, ExpertsFinite
  <2> HIDE DEF host
  <2>3. HostInv
    BY <1>10, <2>1 DEF HostInv
  <2> QED
    BY <1>4, <1>7, <1>8, <1>9, <2>2, <2>3 DEF ExpertsInv
<1> QED
  BY <1>4, <1>12, <1>13

\* The quotient and the remainder of a place in n groups of k.
LEMMA Quotient ==
    ASSUME NEW n \in Nat, NEW k \in Nat \ {0}, NEW i \in 1 .. n * k
    PROVE  (i - 1) \div k + 1 \in 1 .. n /\ ((i - 1) % k) + 1 \in 1 .. k
<1> DEFINE d == (i - 1) \div k
           r == (i - 1) % k
<1>1. n * k \in Nat /\ i \in Nat /\ 1 <= i /\ i <= n * k
  OBVIOUS
<1>2. d \in Int /\ r \in 0 .. k - 1 /\ i - 1 = k * d + r
  BY <1>1
<1> HIDE DEF d, r
<1>3. 0 <= d
  <2>1. ASSUME d <= -1 PROVE FALSE
    <3>1. k * d <= k * (-1)
      BY <1>2, <2>1
    <3>2. k * (-1) = -k
      OBVIOUS
    <3> QED
      BY <1>1, <1>2, <3>1, <3>2
  <2> QED
    BY <1>2, <2>1
<1>4. d < n
  <2>1. ASSUME d >= n PROVE FALSE
    <3>1. k * d >= k * n
      BY <1>2, <2>1
    <3>2. k * n = n * k
      OBVIOUS
    <3> QED
      BY <1>1, <1>2, <3>1, <3>2
  <2> QED
    BY <1>2, <2>1
<1> QED
  BY <1>2, <1>3, <1>4 DEF d, r

\* The experts of a batch.
LEMMA BatchFacts ==
    ASSUME ExpertsAssumption, NEW batch \in BatchIds
    PROVE  batch \in Seq(Experts \union {None})
<1>0. PICK n \in Batches :
          batch \in {[i \in 1 .. n * TopK |-> b[(i - 1) \div TopK + 1][((i - 1) % TopK) + 1]] :
                        b \in [1 .. n -> TokenIds]}
  BY DEF BatchIds
<1>1. PICK b \in [1 .. n -> TokenIds] :
          batch = [i \in 1 .. n * TopK |-> b[(i - 1) \div TopK + 1][((i - 1) % TopK) + 1]]
  BY <1>0
<1>2. n \in Nat /\ TopK \in Nat \ {0}
  BY ExpertsFinite DEF ExpertsAssumption
<1>3. \A t \in TokenIds : t \in [1 .. TopK -> Experts \union {None}]
  BY DEF TokenIds
<1>4. ASSUME NEW i \in 1 .. n * TopK
      PROVE  (i - 1) \div TopK + 1 \in 1 .. n /\ ((i - 1) % TopK) + 1 \in 1 .. TopK
  BY <1>2, <1>4, Quotient
<1>5. \A i \in 1 .. n * TopK : batch[i] \in Experts \union {None}
  <2>1. ASSUME NEW i \in 1 .. n * TopK PROVE batch[i] \in Experts \union {None}
    <3> DEFINE x == (i - 1) \div TopK + 1
               y == ((i - 1) % TopK) + 1
    <3>1. batch[i] = b[x][y]
      BY <1>1
    <3>2. x \in 1 .. n /\ y \in 1 .. TopK
      BY <1>4
    <3> HIDE DEF x, y
    <3> QED
      BY <1>3, <3>1, <3>2
  <2> QED
    BY <2>1
<1>6. n * TopK \in Nat
  BY <1>2
<1> QED
  BY <1>1, <1>5, <1>6

-----------------------------------------------------------------------------
(* The steps that replace no expert.                                       *)

\* What a layer computes: for each place, its row if the expert is local.
RightOut(l, batch, o) ==
    /\ DOMAIN o = DOMAIN batch
    /\ \A i \in DOMAIN batch :
          o[i] = IF batch[i] # None /\ map[batch[i]] >= 0 THEN <<Weights(l, batch[i])>> ELSE <<>>

\* A kernel over rows that are right for the experts the map has, when those are the
\* local ones.
LEMMA KernelRight ==
    ASSUME NEW l, NEW batch \in Seq(Experts \union {None}), NEW m, NEW r,
           \A i \in DOMAIN batch : batch[i] # None =>
              /\ m[batch[i]] >= 0 <=> map[batch[i]] >= 0
              /\ m[batch[i]] >= 0 => r[m[batch[i]] + 1] = Weights(l, batch[i])
    PROVE  RightOut(l, batch, Kernel(batch, m, r))
  BY DEF RightOut, Kernel

\* The property of a step that computed a batch.
LEMMA EachOnceOf ==
    ASSUME NEW l, NEW batch, ids' = [layer |-> l, experts |-> batch], map' = map,
           RightOut(l, batch, out')
    PROVE  EachExpertOnce'
  BY DEF RightOut, EachExpertOnce

\* The host rows alone.
LEMMA PlainStep ==
    ASSUME ExpertsAssumption, ExpertsInv, NEW l \in Layers, NEW batch \in BatchIds,
           ApplyPlain(l, batch)
    PROVE  EachExpertOnce'
<1>1. batch \in Seq(Experts \union {None})
  BY BatchFacts
<1>2. \A i \in DOMAIN batch : batch[i] # None => batch[i] \in Experts
  BY <1>1
<1>3. RightOut(l, batch, Kernel(batch, map, rows[l]))
  BY <1>1, <1>2, KernelRight DEF ExpertsInv, HostInv
<1> QED
  BY <1>3, EachOnceOf DEF ApplyPlain

\* The copies and the other rows.
LEMMA SplitStep ==
    ASSUME ExpertsAssumption, ExpertsInv, NEW l \in Layers, NEW batch \in BatchIds,
           ApplySplit(l, batch)
    PROVE  EachExpertOnce'
<1> DEFINE c == hot[l]
           a == Kernel(batch, c.cold, rows[l])
           b == Kernel(batch, c.map, c.rows)
<1>1. batch \in Seq(Experts \union {None})
  BY BatchFacts
<1>2. \A i \in DOMAIN batch : batch[i] # None => batch[i] \in Experts
  BY <1>1
<1>3. CacheOf(l, c, mode, map) /\ mode = "split" /\ out' = Both(a, b) /\ map' = map
      /\ ids' = [layer |-> l, experts |-> batch]
  BY DEF ExpertsInv, ApplySplit
<1> HIDE DEF c
<1>4. /\ c.map \in [Experts -> -1 .. Len(c.slots) - 1] /\ Len(c.slots) \in Nat
      /\ \A e \in Experts : c.map[e] >= 0 => c.slots[c.map[e] + 1] = e
      /\ \A s \in 1 .. Len(c.slots) : c.rows[s] = Weights(l, c.slots[s])
      /\ \A e \in Experts : c.cold[e] = IF c.map[e] >= 0 THEN -1 ELSE map[e]
      /\ \A s \in 1 .. Len(c.slots) : map[c.slots[s]] >= 0
  BY <1>3 DEF CacheOf, Agree, None
<1>5. ASSUME NEW i \in DOMAIN batch
      PROVE  Both(a, b)[i] = IF batch[i] # None /\ map[batch[i]] >= 0
                             THEN <<Weights(l, batch[i])>> ELSE <<>>
  <2>1. /\ Both(a, b)[i] = a[i] \o b[i]
        /\ a[i] = IF batch[i] # None /\ c.cold[batch[i]] >= 0
                  THEN <<rows[l][c.cold[batch[i]] + 1]>> ELSE <<>>
        /\ b[i] = IF batch[i] # None /\ c.map[batch[i]] >= 0
                  THEN <<c.rows[c.map[batch[i]] + 1]>> ELSE <<>>
    BY DEF Both, Kernel
  <2> HIDE DEF a, b
  <2>2. CASE batch[i] = None
    BY <2>1, <2>2
  <2>3. CASE batch[i] # None
    <3> DEFINE e == batch[i]
    <3>1. e \in Experts
      BY <1>2, <2>3
    <3>2. CASE c.map[e] >= 0
      <4>1. c.map[e] + 1 \in 1 .. Len(c.slots) /\ c.slots[c.map[e] + 1] = e
        BY <1>4, <3>1, <3>2
      <4>2. c.rows[c.map[e] + 1] = Weights(l, e) /\ map[e] >= 0 /\ c.cold[e] = -1
        BY <1>4, <3>1, <3>2, <4>1
      <4>3. a[i] = <<>> /\ b[i] = <<Weights(l, e)>>
        BY <2>1, <2>3, <3>2, <4>2
      <4>4. <<>> \o <<Weights(l, e)>> = <<Weights(l, e)>>
        BY DEF Weights
      <4> QED
        BY <2>1, <2>3, <4>2, <4>3, <4>4
    <3>3. CASE ~ (c.map[e] >= 0)
      <4>1. c.cold[e] = map[e]
        BY <1>4, <3>1, <3>3
      <4>2. b[i] = <<>>
        BY <2>1, <3>3
      <4>3. map[e] >= 0 => a[i] = <<Weights(l, e)>>
        BY <2>1, <2>3, <3>1, <4>1 DEF ExpertsInv, HostInv
      <4>4. ~ (map[e] >= 0) => a[i] = <<>>
        BY <2>1, <4>1
      <4>5. <<Weights(l, e)>> \o <<>> = <<Weights(l, e)>> /\ <<>> \o <<>> = <<>>
        BY DEF Weights
      <4> QED
        BY <2>1, <2>3, <4>2, <4>3, <4>4, <4>5
    <3> QED
      BY <3>2, <3>3
  <2> QED
    BY <2>2, <2>3
<1>6. DOMAIN Both(a, b) = DOMAIN batch
  BY DEF Both, Kernel
<1>7. RightOut(l, batch, Both(a, b))
  BY <1>5, <1>6 DEF RightOut
<1> QED
  BY <1>3, <1>7, EachOnceOf

\* The rows of the batch in the stage.
LEMMA StageStep ==
    ASSUME ExpertsAssumption, ExpertsInv, NEW l \in Layers, NEW batch \in BatchIds,
           ApplyStage(l, batch)
    PROVE  EachExpertOnce' /\ DOMAIN stage'.rows = 1 .. StageCapacity
<1> DEFINE c == hot[l]
           R(i) == IF i \in DOMAIN batch /\ batch[i] # None /\ map[batch[i]] >= 0
                   THEN Gathered(l, batch[i]) ELSE stage.rows[i]
           r == [i \in DOMAIN stage.rows |-> R(i)]
<1>1. batch \in Seq(Experts \union {None}) /\ DOMAIN batch = 1 .. Len(batch) /\ Len(batch) \in Nat
  BY BatchFacts
<1>2. \A i \in DOMAIN batch : batch[i] # None => batch[i] \in Experts
  BY <1>1
<1>3. PICK m \in StageMaps(batch) : stage' = [map |-> m, rows |-> r] /\ out' = Kernel(batch, m, r)
  BY DEF ApplyStage
<1>4. /\ CacheOf(l, c, mode, map) /\ mode = "stage" /\ map' = map /\ FitsStage(batch)
      /\ ids' = [layer |-> l, experts |-> batch] /\ DOMAIN stage.rows = 1 .. StageCapacity
  BY DEF ExpertsInv, ApplyStage
<1> HIDE DEF c
<1>5. /\ c.map \in [Experts -> -1 .. Len(c.slots) - 1] /\ Len(c.slots) \in Nat
      /\ \A e \in Experts : c.map[e] >= 0 => c.slots[c.map[e] + 1] = e
      /\ \A s \in 1 .. Len(c.slots) : c.rows[s] = Weights(l, c.slots[s])
  BY <1>4 DEF CacheOf, Agree
<1>6. \A e \in Experts : map[e] >= 0 => Gathered(l, e) = Weights(l, e)
  <2> SUFFICES ASSUME NEW e \in Experts, map[e] >= 0 PROVE Gathered(l, e) = Weights(l, e)
    OBVIOUS
  <2>1. Gathered(l, e) = IF c.map[e] >= 0 THEN c.rows[c.map[e] + 1] ELSE rows[l][map[e] + 1]
    BY DEF Gathered, c
  <2>2. CASE c.map[e] >= 0
    <3>1. c.map[e] + 1 \in 1 .. Len(c.slots) /\ c.slots[c.map[e] + 1] = e
      BY <1>5, <2>2
    <3> QED
      BY <1>5, <2>1, <2>2, <3>1
  <2>3. CASE ~ (c.map[e] >= 0)
    BY <2>1, <2>3 DEF ExpertsInv, HostInv
  <2> QED
    BY <2>2, <2>3
<1>7. /\ m \in [Experts -> {None} \union {i - 1 : i \in DOMAIN batch}]
      /\ \A e \in Experts : IF e \in {x \in Range(batch) \ {None} : map[x] >= 0}
                            THEN m[e] # None /\ batch[m[e] + 1] = e ELSE m[e] = None
  BY DEF StageMaps
<1>8. ASSUME NEW i \in DOMAIN batch, batch[i] # None
      PROVE  /\ m[batch[i]] >= 0 <=> map[batch[i]] >= 0
             /\ m[batch[i]] >= 0 => r[m[batch[i]] + 1] = Weights(l, batch[i])
  <2> DEFINE e == batch[i]
  <2>1. e \in Experts /\ e \in Range(batch) \ {None}
    BY <1>2, <1>8 DEF Range
  <2> HIDE DEF e
  <2>2. CASE map[e] >= 0
    <3>1. m[e] # None /\ batch[m[e] + 1] = e
      BY <1>7, <2>1, <2>2
    <3>2. PICK j \in DOMAIN batch : m[e] = j - 1
      BY <1>7, <2>1, <3>1
    <3>3. j \in 1 .. Len(batch) /\ m[e] + 1 = j /\ m[e] >= 0 /\ batch[j] = e
      BY <1>1, <3>1, <3>2
    <3>4. j \in DOMAIN stage.rows
      BY <1>1, <1>4, <3>3, ExpertsFinite DEF FitsStage
    <3>5. r[j] = Gathered(l, e)
      BY <2>1, <2>2, <3>3, <3>4
    <3> QED
      BY <1>6, <2>1, <2>2, <3>3, <3>5 DEF e
  <2>3. CASE ~ (map[e] >= 0)
    <3>1. m[e] = -1
      BY <1>7, <2>1, <2>3 DEF None
    <3> QED
      BY <2>3, <3>1 DEF e
  <2> QED
    BY <2>2, <2>3
<1>9. DOMAIN r = 1 .. StageCapacity
  BY <1>4
<1> HIDE DEF r
<1>10. RightOut(l, batch, Kernel(batch, m, r))
  BY <1>1, <1>8, KernelRight
<1> QED
  BY <1>3, <1>4, <1>9, <1>10, EachOnceOf

-----------------------------------------------------------------------------
(* The pass that replaces experts.                                         *)

\* The state of a pass over the batch after i requests, started with the cache c: the
\* experts of the batch that are in slots are kept, a local expert that was asked for is
\* in a slot, and a slot holds what the last miss put there.
LoopInv(c, batch, i, u) ==
    LET n == Len(c.slots) IN
    /\ u = [slots |-> u.slots, map |-> u.map, cold |-> u.cold, ages |-> u.ages,
            clock |-> u.clock, kept |-> u.kept, taken |-> u.taken, misses |-> u.misses]
    /\ u.slots \in Seq(Experts) /\ Len(u.slots) = n /\ Agree(u.slots, u.map)
    /\ u.cold = c.cold /\ u.clock = c.clock /\ u.ages \in [1 .. n -> Nat]
    /\ u.kept = {s \in 1 .. n : u.slots[s] \in Range(batch)}
    /\ u.taken \subseteq {batch[k] : k \in 1 .. i}
    /\ \A s \in 1 .. n : c.cold[u.slots[s]] >= 0
    /\ \A k \in 1 .. i : batch[k] # None /\ c.cold[batch[k]] >= 0 => u.map[batch[k]] >= 0
    /\ u.misses \in Seq(Int \X Int) /\ Len(u.misses) = i
    /\ \A k \in 1 .. i : \/ u.misses[k] = <<-1, -1>>
                         \/ \E s \in u.kept : u.misses[k] = <<c.cold[u.slots[s]], s>>
    /\ \A s \in 1 .. n : (\A k \in 1 .. i : u.misses[k][2] # s) => u.slots[s] = c.slots[s]

\* A batch has no more experts than places.
LEMMA RangeSmall ==
    ASSUME NEW S, NEW s \in Seq(S)
    PROVE  IsFiniteSet(Range(s)) /\ Cardinality(Range(s)) <= Len(s)
           /\ Cardinality(Range(s)) \in Nat
<1>1. DOMAIN s = 1 .. Len(s) /\ Len(s) \in Nat
  OBVIOUS
<1>2. s \in Surjection(1 .. Len(s), Range(s))
  <2>1. \A i \in 1 .. Len(s) : s[i] \in Range(s)
    BY <1>1 DEF Range
  <2>2. s \in [1 .. Len(s) -> Range(s)]
    BY <1>1, <2>1
  <2>3. \A y \in Range(s) : \E i \in 1 .. Len(s) : s[i] = y
    BY <1>1 DEF Range
  <2> QED
    BY <2>2, <2>3 DEF Surjection
<1>3. IsFiniteSet(1 .. Len(s)) /\ Cardinality(1 .. Len(s)) = Len(s)
  <2>1. 1 \in Int /\ Len(s) \in Int
    BY <1>1
  <2>2. /\ IsFiniteSet(1 .. Len(s))
        /\ Cardinality(1 .. Len(s)) = IF 1 > Len(s) THEN 0 ELSE Len(s) - 1 + 1
    BY <2>1, FS_Interval
  <2> QED
    BY <1>1, <2>2
<1>4. IsFiniteSet(Range(s)) /\ Cardinality(Range(s)) <= Cardinality(1 .. Len(s))
  BY <1>2, <1>3, FS_Surjection
<1> QED
  BY <1>3, <1>4, FS_CardinalityType

\* A slot is left for an expert of the batch that has none, and the one chosen is left.
LEMMA VictimFree ==
    ASSUME NEW n \in Nat, NEW slots \in [1 .. n -> Experts],
           NEW batch \in Seq(Experts \union {None}), Len(batch) <= n,
           \A s, t \in 1 .. n : slots[s] = slots[t] => s = t,
           NEW e \in Range(batch), \A s \in 1 .. n : slots[s] # e,
           NEW u, u.slots = slots, u.ages \in [1 .. n -> Nat],
           NEW kept, \A s \in 1 .. n : s \in kept <=> slots[s] \in Range(batch)
    PROVE  Victim(u, kept) \in (1 .. n) \ kept
<1> DEFINE open == (1 .. n) \ kept
           oldest == {s \in open : \A t \in open : u.ages[s] <= u.ages[t]}
<1>1. open # {}
  <2> SUFFICES ASSUME \A s \in 1 .. n : slots[s] \in Range(batch) PROVE FALSE
    OBVIOUS
  <2> DEFINE T == Range(batch) \ {e}
  <2>1. IsFiniteSet(Range(batch)) /\ Cardinality(Range(batch)) <= Len(batch)
        /\ Cardinality(Range(batch)) \in Nat
    BY RangeSmall
  <2>2. IsFiniteSet(T) /\ Cardinality(T) = Cardinality(Range(batch)) - 1
    BY <2>1, FS_RemoveElement
  <2>3. slots \in [1 .. n -> T]
    OBVIOUS
  <2> HIDE DEF T
  <2>4. slots \in Injection(1 .. n, T)
    <3>1. \A s, t \in 1 .. n : slots[s] = slots[t] => s = t
      OBVIOUS
    <3>2. IsInjective(slots)
      BY <2>3, <3>1 DEF IsInjective
    <3> QED
      BY <2>3, <3>1, <3>2 DEF Injection
  <2>5. Cardinality(1 .. n) <= Cardinality(T)
    BY <2>2, <2>4, FS_Injection
  <2>6. Cardinality(1 .. n) = n
    <3>1. 1 \in Int /\ n \in Int
      OBVIOUS
    <3>2. Cardinality(1 .. n) = IF 1 > n THEN 0 ELSE n - 1 + 1
      BY <3>1, FS_Interval
    <3> QED
      BY <3>2
  <2>7. Len(batch) \in Nat
    OBVIOUS
  <2> QED
    BY <2>1, <2>2, <2>5, <2>6, <2>7
<1>2. oldest # {} /\ oldest \subseteq open /\ open \subseteq 1 .. n
  <2> DEFINE A == {u.ages[s] : s \in open}
  <2>1. A \in SUBSET Nat /\ A # {}
    BY <1>1
  <2>2. PICK a \in A : \A k \in A : a <= k
    <3> HIDE DEF A
    <3> QED
      BY <2>1, LeastOf
  <2>3. PICK s \in open : u.ages[s] = a
    OBVIOUS
  <2>4. s \in oldest
    BY <2>2, <2>3
  <2> QED
    BY <2>4
<1>3. \E s \in oldest : \A t \in oldest : s <= t
  <2>1. oldest \in SUBSET Nat
    BY <1>2
  <2> HIDE DEF oldest
  <2> QED
    BY <1>2, <2>1, LeastOf
<1>4. (CHOOSE s \in oldest : \A t \in oldest : s <= t) \in oldest
  <2> HIDE DEF oldest
  <2> QED
    BY <1>3
<1>5. DOMAIN u.slots = 1 .. n
  OBVIOUS
<1>6. Victim(u, kept) = CHOOSE s \in oldest : \A t \in oldest : s <= t
  BY <1>1, <1>5 DEF Victim
<1> HIDE DEF oldest, open
<1>7. Victim(u, kept) \in open
  BY <1>2, <1>4, <1>6
<1> QED
  BY <1>7 DEF open

\* A record with six fields replaced.
LEMMA Replaced ==
    ASSUME NEW u, NEW a, NEW b, NEW c, NEW d, NEW f, NEW g,
           u = [slots |-> u.slots, map |-> u.map, cold |-> u.cold, ages |-> u.ages,
                clock |-> u.clock, kept |-> u.kept, taken |-> u.taken, misses |-> u.misses]
    PROVE  [u EXCEPT !.map = a, !.slots = b, !.ages = c, !.kept = d, !.taken = f, !.misses = g]
              = [slots |-> b, map |-> a, cold |-> u.cold, ages |-> c,
                 clock |-> u.clock, kept |-> d, taken |-> f, misses |-> g]
<1>1. PICK u1 : u1 = [u EXCEPT !.map = a]
  OBVIOUS
<1>2. u1 = [slots |-> u.slots, map |-> a, cold |-> u.cold, ages |-> u.ages,
            clock |-> u.clock, kept |-> u.kept, taken |-> u.taken, misses |-> u.misses]
  BY <1>1
<1>3. PICK u2 : u2 = [u1 EXCEPT !.slots = b]
  OBVIOUS
<1>4. u2 = [slots |-> b, map |-> a, cold |-> u.cold, ages |-> u.ages,
            clock |-> u.clock, kept |-> u.kept, taken |-> u.taken, misses |-> u.misses]
  BY <1>3, <1>2
<1>5. PICK u3 : u3 = [u2 EXCEPT !.ages = c]
  OBVIOUS
<1>6. u3 = [slots |-> b, map |-> a, cold |-> u.cold, ages |-> c,
            clock |-> u.clock, kept |-> u.kept, taken |-> u.taken, misses |-> u.misses]
  BY <1>5, <1>4
<1>7. PICK u4 : u4 = [u3 EXCEPT !.kept = d]
  OBVIOUS
<1>8. u4 = [slots |-> b, map |-> a, cold |-> u.cold, ages |-> c,
            clock |-> u.clock, kept |-> d, taken |-> u.taken, misses |-> u.misses]
  BY <1>7, <1>6
<1>9. PICK u5 : u5 = [u4 EXCEPT !.taken = f]
  OBVIOUS
<1>10. u5 = [slots |-> b, map |-> a, cold |-> u.cold, ages |-> c,
             clock |-> u.clock, kept |-> d, taken |-> f, misses |-> u.misses]
  BY <1>9, <1>8
<1>11. PICK u6 : u6 = [u5 EXCEPT !.misses = g]
  OBVIOUS
<1>12. u6 = [slots |-> b, map |-> a, cold |-> u.cold, ages |-> c,
             clock |-> u.clock, kept |-> d, taken |-> f, misses |-> g]
  BY <1>11, <1>10
<1>13. [u EXCEPT !.map = a, !.slots = b, !.ages = c, !.kept = d, !.taken = f, !.misses = g]
           = u6
  BY <1>1, <1>3, <1>5, <1>7, <1>9, <1>11
<1> QED
  BY <1>12, <1>13

\* What a request leaves, field by field.
Requested(u, batch, i, visible) ==
    LET e == batch[i]
        repeat == \E k \in 1 .. i - 1 : batch[k] = e
        local == e # None /\ u.cold[e] >= 0
        isHit == local /\ u.map[e] >= 0 /\ (visible \/ e \notin u.taken)
        isMiss == local /\ ~isHit /\ ~repeat
        victim == Victim(u, u.kept)
        slot == IF isHit THEN u.map[e] + 1 ELSE victim
        ages == IF isHit \/ isMiss THEN [u.ages EXCEPT ![slot] = u.clock + i] ELSE u.ages
    IN  IF isMiss
        THEN [slots |-> [u.slots EXCEPT ![victim] = e],
              map |-> Evict(u.map, u.slots[victim], e, victim),
              cold |-> u.cold, ages |-> ages, clock |-> u.clock,
              kept |-> u.kept \union {victim}, taken |-> u.taken \union {e},
              misses |-> Append(u.misses, <<u.cold[e], victim>>)]
        ELSE [slots |-> u.slots, map |-> u.map, cold |-> u.cold, ages |-> ages,
              clock |-> u.clock, kept |-> u.kept, taken |-> u.taken,
              misses |-> Append(u.misses, <<-1, -1>>)]

\* The fields after a request.
LEMMA RequestFields ==
    ASSUME NEW u, NEW batch, NEW i, NEW visible,
           u = [slots |-> u.slots, map |-> u.map, cold |-> u.cold, ages |-> u.ages,
                clock |-> u.clock, kept |-> u.kept, taken |-> u.taken, misses |-> u.misses]
    PROVE  Request(u, batch, i, visible) = Requested(u, batch, i, visible)
<1> DEFINE e == batch[i]
           repeat == \E k \in 1 .. i - 1 : batch[k] = e
           local == e # None /\ u.cold[e] >= 0
           isHit == local /\ u.map[e] >= 0 /\ (visible \/ e \notin u.taken)
           isMiss == local /\ ~isHit /\ ~repeat
           victim == Victim(u, u.kept)
           slot == IF isHit THEN u.map[e] + 1 ELSE victim
           v == Request(u, batch, i, visible)
<1>1. v = [u EXCEPT
            !.map   = IF isMiss THEN Evict(@, u.slots[victim], e, victim) ELSE @,
            !.slots = IF isMiss THEN [@ EXCEPT ![victim] = e] ELSE @,
            !.ages  = IF isHit \/ isMiss THEN [@ EXCEPT ![slot] = u.clock + i] ELSE @,
            !.kept  = IF isMiss THEN @ \union {victim} ELSE @,
            !.taken = IF isMiss THEN @ \union {e} ELSE @,
            !.misses = Append(@, IF isMiss THEN <<u.cold[e], victim>> ELSE <<None, None>>)]
  BY DEF Request
<1> DEFINE m == IF isMiss THEN Evict(u.map, u.slots[victim], e, victim) ELSE u.map
           s == IF isMiss THEN [u.slots EXCEPT ![victim] = e] ELSE u.slots
           ages == IF isHit \/ isMiss THEN [u.ages EXCEPT ![slot] = u.clock + i] ELSE u.ages
           kept == IF isMiss THEN u.kept \union {victim} ELSE u.kept
           taken == IF isMiss THEN u.taken \union {e} ELSE u.taken
           misses == Append(u.misses, IF isMiss THEN <<u.cold[e], victim>> ELSE <<-1, -1>>)
<1>2. v = [u EXCEPT !.map = m, !.slots = s, !.ages = ages, !.kept = kept, !.taken = taken,
                    !.misses = misses]
  BY <1>1 DEF None
<1> HIDE DEF m, s, ages, kept, taken, misses, v
<1>3. v = [slots |-> s, map |-> m, cold |-> u.cold, ages |-> ages, clock |-> u.clock,
           kept |-> kept, taken |-> taken, misses |-> misses]
  BY <1>2, Replaced
<1> HIDE DEF isHit, isMiss, victim, slot, e
<1> DEFINE missed == [slots |-> [u.slots EXCEPT ![victim] = e],
                      map |-> Evict(u.map, u.slots[victim], e, victim),
                      cold |-> u.cold, ages |-> ages, clock |-> u.clock,
                      kept |-> u.kept \union {victim}, taken |-> u.taken \union {e},
                      misses |-> Append(u.misses, <<u.cold[e], victim>>)]
           other == [slots |-> u.slots, map |-> u.map, cold |-> u.cold, ages |-> ages,
                     clock |-> u.clock, kept |-> u.kept, taken |-> u.taken,
                     misses |-> Append(u.misses, <<-1, -1>>)]
<1>4. ASSUME isMiss PROVE v = missed
  BY <1>3, <1>4 DEF m, s, kept, taken, misses
<1>5. ASSUME ~isMiss PROVE v = other
  BY <1>3, <1>5 DEF m, s, kept, taken, misses
<1> HIDE DEF missed, other
<1>6. v = IF isMiss THEN missed ELSE other
  BY <1>4, <1>5
<1> QED
  BY <1>6, Zenon DEF Requested, isHit, isMiss, victim, slot, e, v, ages, missed, other

\* What the lemmas on the pass over a batch are given.
PassOf(c, batch) ==
    /\ Len(c.slots) \in Nat /\ c.clock \in Nat /\ \A e \in Experts : c.cold[e] \in Int
    /\ batch \in Seq(Experts \union {None}) /\ Len(batch) <= Len(c.slots)

\* The misses after one more request.
LEMMA MissesAppend ==
    ASSUME NEW ms \in Seq(Int \X Int), NEW x \in Int \X Int, NEW i \in Nat \ {0}, Len(ms) = i - 1
    PROVE  /\ Append(ms, x) \in Seq(Int \X Int) /\ Len(Append(ms, x)) = i
           /\ \A k \in 1 .. i - 1 : Append(ms, x)[k] = ms[k]
           /\ Append(ms, x)[i] = x
  OBVIOUS

\* The map says where each slot is, so the experts in slots differ.
LEMMA AgreeFacts ==
    ASSUME NEW slots \in Seq(Experts), NEW m, Agree(slots, m)
    PROVE  /\ Len(slots) \in Nat /\ slots \in [1 .. Len(slots) -> Experts]
           /\ \A s, t \in 1 .. Len(slots) : slots[s] = slots[t] => s = t
<1>1. Len(slots) \in Nat /\ slots \in [1 .. Len(slots) -> Experts]
  OBVIOUS
<1>2. ASSUME NEW s \in 1 .. Len(slots), NEW t \in 1 .. Len(slots), slots[s] = slots[t]
      PROVE  s = t
  <2>1. m[slots[s]] = s - 1 /\ m[slots[t]] = t - 1
    BY DEF Agree
  <2> QED
    BY <1>1, <1>2, <2>1
<1> QED
  BY <1>1, <1>2

\* No slot has the expert.
Without(slots, e) == \A s \in 1 .. Len(slots) : slots[s] # e

\* The slots when one has another expert.
Taken(slots, v, e) == [slots EXCEPT ![v] = e]

\* The expert of a miss takes the slot of an expert that is not in the batch.
LEMMA AgreeEvict ==
    ASSUME NEW slots \in Seq(Experts), NEW m, Agree(slots, m),
           NEW e \in Experts, NEW v \in 1 .. Len(slots), Without(slots, e),
           NEW ns, ns = Taken(slots, v, e), NEW nm, nm = Evict(m, slots[v], e, v)
    PROVE  /\ ns \in Seq(Experts) /\ Len(ns) = Len(slots) /\ Agree(ns, nm)
           /\ ns[v] = e /\ \A s \in 1 .. Len(slots) : s # v => ns[s] = slots[s]
           /\ nm[e] = v - 1 /\ \A x \in Experts : x # e /\ x # slots[v] => nm[x] = m[x]
<1> DEFINE n == Len(slots)
<1>1. /\ n \in Nat /\ slots \in [1 .. n -> Experts]
      /\ \A s, t \in 1 .. n : slots[s] = slots[t] => s = t
  BY AgreeFacts
<1>2. /\ m \in [Experts -> -1 .. n - 1]
      /\ \A x \in Experts : m[x] >= 0 => slots[m[x] + 1] = x
      /\ \A s \in 1 .. n : m[slots[s]] = s - 1
  BY DEF Agree
<1>3. slots[v] \in Experts /\ v \in 1 .. n /\ DOMAIN slots = 1 .. n
      /\ \A s \in 1 .. n : slots[s] # e
  BY <1>1 DEF Without
<1>4. /\ ns \in Seq(Experts) /\ Len(ns) = n /\ ns[v] = e /\ ns \in [1 .. n -> Experts]
      /\ \A s \in 1 .. n : s # v => ns[s] = slots[s]
  BY <1>1, <1>3 DEF Taken
<1>5. nm = [x \in Experts |-> IF x = e THEN v - 1 ELSE IF x = slots[v] THEN -1 ELSE m[x]]
  BY <1>2, <1>3 DEF Evict, None
<1> HIDE DEF n
<1>6. nm \in [Experts -> -1 .. n - 1]
  BY <1>1, <1>2, <1>3, <1>5
<1>7. ASSUME NEW x \in Experts, nm[x] >= 0 PROVE ns[nm[x] + 1] = x
  <2>1. CASE x = e
    BY <1>3, <1>4, <1>5, <2>1
  <2>2. CASE x # e
    <3>1. x # slots[v] /\ nm[x] = m[x] /\ m[x] >= 0
      BY <1>5, <1>7, <2>2
    <3>2. m[x] + 1 \in 1 .. n /\ slots[m[x] + 1] = x
      BY <1>1, <1>2, <3>1
    <3> QED
      BY <1>4, <3>1, <3>2
  <2> QED
    BY <2>1, <2>2
<1>8. ASSUME NEW s \in 1 .. n PROVE nm[ns[s]] = s - 1
  <2>1. CASE s = v
    BY <1>4, <1>5, <2>1
  <2>2. CASE s # v
    <3>1. ns[s] = slots[s] /\ slots[s] \in Experts /\ slots[s] # slots[v] /\ slots[s] # e
      BY <1>1, <1>3, <1>4, <2>2 DEF n
    <3> QED
      BY <1>2, <1>5, <3>1
  <2> QED
    BY <2>1, <2>2
<1>9. Agree(ns, nm)
  BY <1>4, <1>6, <1>7, <1>8 DEF Agree
<1> QED
  BY <1>4, <1>5, <1>9 DEF n

\* A hit, or a request that changes no slot.
LEMMA OtherRequest ==
    ASSUME NEW c, NEW batch, PassOf(c, batch), NEW i \in 1 .. Len(batch), NEW u,
           LoopInv(c, batch, i - 1, u), NEW ages \in [1 .. Len(c.slots) -> Nat],
           batch[i] # None /\ c.cold[batch[i]] >= 0 =>
              u.map[batch[i]] >= 0 \/ \E k \in 1 .. i - 1 : batch[k] = batch[i]
    PROVE  LoopInv(c, batch, i,
              [slots |-> u.slots, map |-> u.map, cold |-> u.cold, ages |-> ages,
               clock |-> u.clock, kept |-> u.kept, taken |-> u.taken,
               misses |-> Append(u.misses, <<-1, -1>>)])
<1> DEFINE n == Len(c.slots)
           misses == Append(u.misses, <<-1, -1>>)
           w == [slots |-> u.slots, map |-> u.map, cold |-> u.cold, ages |-> ages,
                 clock |-> u.clock, kept |-> u.kept, taken |-> u.taken, misses |-> misses]
<1>1. i \in Nat \ {0} /\ n \in Nat /\ Len(batch) \in Nat
  BY DEF PassOf
<1>2. /\ u.slots \in Seq(Experts) /\ Len(u.slots) = n /\ Agree(u.slots, u.map)
      /\ u.cold = c.cold /\ u.clock = c.clock
      /\ u.kept = {s \in 1 .. n : u.slots[s] \in Range(batch)}
      /\ u.taken \subseteq {batch[k] : k \in 1 .. i - 1}
      /\ \A s \in 1 .. n : c.cold[u.slots[s]] >= 0
      /\ \A k \in 1 .. i - 1 : batch[k] # None /\ c.cold[batch[k]] >= 0 => u.map[batch[k]] >= 0
      /\ u.misses \in Seq(Int \X Int) /\ Len(u.misses) = i - 1
      /\ \A k \in 1 .. i - 1 : \/ u.misses[k] = <<-1, -1>>
                               \/ \E s \in u.kept : u.misses[k] = <<c.cold[u.slots[s]], s>>
      /\ \A s \in 1 .. n :
            (\A k \in 1 .. i - 1 : u.misses[k][2] # s) => u.slots[s] = c.slots[s]
  BY DEF LoopInv
<1>3. /\ misses \in Seq(Int \X Int) /\ Len(misses) = i
      /\ \A k \in 1 .. i - 1 : misses[k] = u.misses[k]
      /\ misses[i] = <<-1, -1>>
  <2>1. <<-1, -1>> \in Int \X Int
    OBVIOUS
  <2>2. u.misses \in Seq(Int \X Int) /\ Len(u.misses) = i - 1
    BY <1>2
  <2> QED
    BY <1>1, <2>1, <2>2, MissesAppend
<1> HIDE DEF misses
<1>4. /\ w.slots = u.slots /\ w.map = u.map /\ w.cold = u.cold /\ w.ages = ages
      /\ w.clock = u.clock /\ w.kept = u.kept /\ w.taken = u.taken /\ w.misses = misses
      /\ w = [slots |-> w.slots, map |-> w.map, cold |-> w.cold, ages |-> w.ages,
              clock |-> w.clock, kept |-> w.kept, taken |-> w.taken, misses |-> w.misses]
  OBVIOUS
<1>5. \A k \in 1 .. i : k = i \/ k \in 1 .. i - 1
  BY <1>1
<1>6. \A k \in 1 .. i - 1 : k \in 1 .. i
  BY <1>1
<1> HIDE DEF w, n
<1>7. w.taken \subseteq {batch[k] : k \in 1 .. i}
  BY <1>2, <1>4, <1>6
<1>8. \A k \in 1 .. i : batch[k] # None /\ c.cold[batch[k]] >= 0 => w.map[batch[k]] >= 0
  BY <1>2, <1>4, <1>5
<1>9. ASSUME NEW k \in 1 .. i
      PROVE  \/ w.misses[k] = <<-1, -1>>
             \/ \E s \in w.kept : w.misses[k] = <<c.cold[w.slots[s]], s>>
  <2>1. CASE k = i
    BY <1>3, <1>4, <2>1
  <2>2. CASE k \in 1 .. i - 1
    <3>1. w.misses[k] = u.misses[k]
      BY <1>3, <1>4, <2>2
    <3> QED
      BY <1>2, <1>4, <2>2, <3>1
  <2> QED
    BY <1>5, <2>1, <2>2
<1>10. ASSUME NEW s \in 1 .. n, \A k \in 1 .. i : w.misses[k][2] # s
       PROVE  w.slots[s] = c.slots[s]
  <2>1. \A k \in 1 .. i - 1 : u.misses[k][2] # s
    BY <1>3, <1>4, <1>6, <1>10
  <2> QED
    BY <1>2, <1>4, <2>1
<1>11. LoopInv(c, batch, i, w)
  BY <1>2, <1>3, <1>4, <1>7, <1>8, <1>9, <1>10 DEF LoopInv, n
<1> QED
  BY <1>11 DEF w, misses

\* A miss.
LEMMA MissRequest ==
    ASSUME ExpertsAssumption, NEW c, NEW batch, PassOf(c, batch), NEW i \in 1 .. Len(batch),
           NEW u, LoopInv(c, batch, i - 1, u), NEW ages \in [1 .. Len(c.slots) -> Nat],
           batch[i] # None, c.cold[batch[i]] >= 0,
           \A s \in 1 .. Len(c.slots) : u.slots[s] # batch[i]
    PROVE  LET victim == Victim(u, u.kept)
               e == batch[i]
           IN  LoopInv(c, batch, i,
                  [slots |-> [u.slots EXCEPT ![victim] = e],
                   map |-> Evict(u.map, u.slots[victim], e, victim),
                   cold |-> u.cold, ages |-> ages, clock |-> u.clock,
                   kept |-> u.kept \union {victim}, taken |-> u.taken \union {e},
                   misses |-> Append(u.misses, <<u.cold[e], victim>>)])
<1> DEFINE n == Len(c.slots)
           victim == Victim(u, u.kept)
           e == batch[i]
           ns == [u.slots EXCEPT ![victim] = e]
           nm == Evict(u.map, u.slots[victim], e, victim)
           misses == Append(u.misses, <<u.cold[e], victim>>)
           w == [slots |-> ns, map |-> nm, cold |-> u.cold, ages |-> ages, clock |-> u.clock,
                 kept |-> u.kept \union {victim}, taken |-> u.taken \union {e}, misses |-> misses]
<1>1. /\ i \in Nat \ {0} /\ n \in Nat /\ Len(batch) \in Nat /\ Len(batch) <= n
      /\ DOMAIN batch = 1 .. Len(batch) /\ batch \in Seq(Experts \union {None})
      /\ \A x \in Experts : c.cold[x] \in Int
  BY DEF PassOf
<1>2. /\ u.slots \in Seq(Experts) /\ Len(u.slots) = n /\ Agree(u.slots, u.map)
      /\ u.cold = c.cold /\ u.clock = c.clock /\ u.ages \in [1 .. n -> Nat]
      /\ u.kept = {s \in 1 .. n : u.slots[s] \in Range(batch)}
      /\ u.taken \subseteq {batch[k] : k \in 1 .. i - 1}
      /\ \A s \in 1 .. n : c.cold[u.slots[s]] >= 0
      /\ \A k \in 1 .. i - 1 : batch[k] # None /\ c.cold[batch[k]] >= 0 => u.map[batch[k]] >= 0
      /\ u.misses \in Seq(Int \X Int) /\ Len(u.misses) = i - 1
      /\ \A k \in 1 .. i - 1 : \/ u.misses[k] = <<-1, -1>>
                               \/ \E s \in u.kept : u.misses[k] = <<c.cold[u.slots[s]], s>>
      /\ \A s \in 1 .. n :
            (\A k \in 1 .. i - 1 : u.misses[k][2] # s) => u.slots[s] = c.slots[s]
  BY DEF LoopInv
<1>3. e \in Experts /\ e \in Range(batch) /\ \A k \in 1 .. i : batch[k] \in Range(batch)
  <2>1. \A k \in 1 .. i : k \in DOMAIN batch
    BY <1>1
  <2> QED
    BY <1>1, <2>1 DEF Range
<1> HIDE DEF e
<1>4. c.cold[e] >= 0 /\ \A s \in 1 .. n : u.slots[s] # e
  BY DEF e
<1>5. victim \in 1 .. n /\ victim \notin u.kept
  <2>1. u.slots \in [1 .. n -> Experts] /\ \A s, t \in 1 .. n : u.slots[s] = u.slots[t] => s = t
    BY <1>2, AgreeFacts
  <2> HIDE DEF n
  <2> DEFINE slots == u.slots
             kept == u.kept
  <2>2. /\ slots \in [1 .. n -> Experts] /\ Len(batch) <= n
        /\ \A s, t \in 1 .. n : slots[s] = slots[t] => s = t
        /\ \A s \in 1 .. n : slots[s] # e
        /\ \A s \in 1 .. n : s \in kept <=> slots[s] \in Range(batch)
        /\ u.slots = slots /\ u.ages \in [1 .. n -> Nat]
    BY <1>1, <1>2, <1>4, <2>1
  <2> HIDE DEF slots, kept
  <2>3. Victim(u, kept) \in (1 .. n) \ kept
    BY <1>1, <1>3, <2>2, VictimFree
  <2> QED
    BY <2>3 DEF kept
<1> HIDE DEF victim
<1>6. /\ ns \in Seq(Experts) /\ Len(ns) = n /\ Agree(ns, nm)
      /\ ns[victim] = e /\ \A s \in 1 .. n : s # victim => ns[s] = u.slots[s]
      /\ nm[e] = victim - 1
      /\ \A x \in Experts : x # e /\ x # u.slots[victim] => nm[x] = u.map[x]
  <2> DEFINE slots == u.slots
             m == u.map
  <2>1. /\ slots \in Seq(Experts) /\ Agree(slots, m) /\ n = Len(slots)
        /\ victim \in 1 .. Len(slots) /\ Without(slots, e)
    BY <1>2, <1>4, <1>5 DEF Without
  <2>2. ns = Taken(slots, victim, e) /\ nm = Evict(m, slots[victim], e, victim)
    BY DEF Taken
  <2>3. slots = u.slots /\ m = u.map
    OBVIOUS
  <2> HIDE DEF slots, m, n, ns, nm
  <2>4. /\ ns \in Seq(Experts) /\ Len(ns) = Len(slots) /\ Agree(ns, nm)
        /\ ns[victim] = e /\ \A s \in 1 .. Len(slots) : s # victim => ns[s] = slots[s]
        /\ nm[e] = victim - 1 /\ \A x \in Experts : x # e /\ x # slots[victim] => nm[x] = m[x]
    BY <1>3, <2>1, <2>2, AgreeEvict
  <2> QED
    BY <2>1, <2>3, <2>4
<1>7. u.slots[victim] \notin Range(batch)
  BY <1>2, <1>5
<1>8. /\ misses \in Seq(Int \X Int) /\ Len(misses) = i
      /\ \A k \in 1 .. i - 1 : misses[k] = u.misses[k]
      /\ misses[i] = <<c.cold[e], victim>>
  <2>1. <<u.cold[e], victim>> \in Int \X Int
    BY <1>1, <1>2, <1>3, <1>5
  <2> QED
    BY <1>1, <1>2, <2>1, MissesAppend
<1> HIDE DEF misses, ns, nm
<1>9. /\ w.slots = ns /\ w.map = nm /\ w.cold = c.cold /\ w.ages = ages /\ w.clock = c.clock
      /\ w.kept = u.kept \union {victim} /\ w.taken = u.taken \union {e} /\ w.misses = misses
      /\ w = [slots |-> w.slots, map |-> w.map, cold |-> w.cold, ages |-> w.ages,
              clock |-> w.clock, kept |-> w.kept, taken |-> w.taken, misses |-> w.misses]
  BY <1>2
<1>10. \A k \in 1 .. i : k = i \/ k \in 1 .. i - 1
  BY <1>1
<1>11. \A k \in 1 .. i - 1 : k \in 1 .. i
  BY <1>1
<1>12. i \in 1 .. i
  BY <1>1
<1> HIDE DEF w, n
<1>13. w.taken \subseteq {batch[k] : k \in 1 .. i}
  BY <1>2, <1>9, <1>11, <1>12 DEF e
<1>14. ASSUME NEW k \in 1 .. i, batch[k] # None, c.cold[batch[k]] >= 0
       PROVE  w.map[batch[k]] >= 0
  <2>1. CASE batch[k] = e
    BY <1>5, <1>6, <1>9, <2>1
  <2>2. CASE batch[k] # e
    <3>1. k \in 1 .. i - 1
      BY <1>10, <2>2 DEF e
    <3>2. batch[k] \in Experts
      BY <1>1, <1>14
    <3>3. batch[k] # u.slots[victim]
      BY <1>3, <1>7
    <3> QED
      BY <1>2, <1>6, <1>9, <1>14, <2>2, <3>1, <3>2, <3>3
  <2> QED
    BY <2>1, <2>2
<1>15. w.kept = {s \in 1 .. n : w.slots[s] \in Range(batch)}
  <2>1. \A s \in 1 .. n : w.slots[s] \in Range(batch) <=> s \in u.kept \/ s = victim
    BY <1>2, <1>3, <1>6, <1>9
  <2> QED
    BY <1>2, <1>5, <1>9, <2>1
<1>16. \A s \in 1 .. n : c.cold[w.slots[s]] >= 0
  BY <1>2, <1>4, <1>6, <1>9
<1>17. ASSUME NEW k \in 1 .. i
       PROVE  \/ w.misses[k] = <<-1, -1>>
              \/ \E s \in w.kept : w.misses[k] = <<c.cold[w.slots[s]], s>>
  <2>1. CASE k = i
    BY <1>6, <1>8, <1>9, <2>1
  <2>2. CASE k \in 1 .. i - 1
    <3>1. CASE u.misses[k] = <<-1, -1>>
      BY <1>8, <1>9, <2>2, <3>1
    <3>2. ASSUME NEW s \in u.kept, u.misses[k] = <<c.cold[u.slots[s]], s>>
          PROVE  s \in w.kept /\ w.misses[k] = <<c.cold[w.slots[s]], s>>
      <4>1. s \in 1 .. n /\ s # victim
        BY <1>2, <1>5
      <4> QED
        BY <1>6, <1>8, <1>9, <2>2, <3>2, <4>1
    <3> QED
      BY <1>2, <2>2, <3>1, <3>2
  <2> QED
    BY <1>10, <2>1, <2>2
<1>18. ASSUME NEW s \in 1 .. n, \A k \in 1 .. i : w.misses[k][2] # s
       PROVE  w.slots[s] = c.slots[s]
  <2>1. s # victim
    BY <1>8, <1>9, <1>12, <1>18
  <2>2. \A k \in 1 .. i - 1 : u.misses[k][2] # s
    BY <1>8, <1>9, <1>11, <1>18
  <2> QED
    BY <1>2, <1>6, <1>9, <2>1, <2>2
<1>19. LoopInv(c, batch, i, w)
  BY <1>6, <1>8, <1>9, <1>13, <1>14, <1>15, <1>16, <1>17, <1>18 DEF LoopInv, n
<1> QED
  BY <1>19 DEF w, misses, ns, nm, victim, e

\* A request keeps the invariant of the pass.
LEMMA RequestStep ==
    ASSUME ExpertsAssumption, NEW c, NEW batch, PassOf(c, batch), NEW i \in 1 .. Len(batch),
           NEW u, NEW visible, LoopInv(c, batch, i - 1, u)
    PROVE  LoopInv(c, batch, i, Request(u, batch, i, visible))
<1> DEFINE n == Len(c.slots)
           e == batch[i]
           repeat == \E k \in 1 .. i - 1 : batch[k] = e
           local == e # None /\ u.cold[e] >= 0
           isHit == local /\ u.map[e] >= 0 /\ (visible \/ e \notin u.taken)
           isMiss == local /\ ~isHit /\ ~repeat
           victim == Victim(u, u.kept)
           slot == IF isHit THEN u.map[e] + 1 ELSE victim
           ages == IF isHit \/ isMiss THEN [u.ages EXCEPT ![slot] = u.clock + i] ELSE u.ages
           missed == [slots |-> [u.slots EXCEPT ![victim] = e],
                      map |-> Evict(u.map, u.slots[victim], e, victim),
                      cold |-> u.cold, ages |-> ages, clock |-> u.clock,
                      kept |-> u.kept \union {victim}, taken |-> u.taken \union {e},
                      misses |-> Append(u.misses, <<u.cold[e], victim>>)]
           other == [slots |-> u.slots, map |-> u.map, cold |-> u.cold, ages |-> ages,
                     clock |-> u.clock, kept |-> u.kept, taken |-> u.taken,
                     misses |-> Append(u.misses, <<-1, -1>>)]
<1>1. u = [slots |-> u.slots, map |-> u.map, cold |-> u.cold, ages |-> u.ages,
           clock |-> u.clock, kept |-> u.kept, taken |-> u.taken, misses |-> u.misses]
  BY DEF LoopInv
<1>2. Request(u, batch, i, visible) = IF isMiss THEN missed ELSE other
  <2>1. Requested(u, batch, i, visible) = IF isMiss THEN missed ELSE other
    BY Zenon DEF Requested
  <2> QED
    BY <1>1, <2>1, RequestFields
<1>3. /\ u.slots \in Seq(Experts) /\ Len(u.slots) = n /\ Agree(u.slots, u.map)
      /\ u.cold = c.cold /\ u.clock = c.clock /\ u.ages \in [1 .. n -> Nat]
      /\ u.taken \subseteq {batch[k] : k \in 1 .. i - 1}
  BY DEF LoopInv
<1>4. i \in Nat /\ n \in Nat /\ u.clock + i \in Nat
  BY <1>3 DEF PassOf
<1>5. ages \in [1 .. n -> Nat]
  <2> DEFINE x == u.clock + i
  <2>1. x \in Nat
    BY <1>4
  <2>2. ages = IF isHit \/ isMiss THEN [u.ages EXCEPT ![slot] = x] ELSE u.ages
    OBVIOUS
  <2> HIDE DEF isHit, isMiss, slot, ages, x
  <2> QED
    BY <1>3, <2>1, <2>2
<1>6. e \in Range(batch) /\ (e # None => e \in Experts)
  <2>1. i \in DOMAIN batch /\ batch \in Seq(Experts \union {None})
    BY DEF PassOf
  <2> QED
    BY <2>1 DEF Range
<1> HIDE DEF ages, victim, slot
<1>7. CASE isMiss
  <2>1. e # None /\ e \in Experts /\ c.cold[e] >= 0 /\ ~repeat
    BY <1>3, <1>6, <1>7
  <2>2. ASSUME NEW s \in 1 .. n, u.slots[s] = e PROVE FALSE
    <3>1. u.map[e] = s - 1
      BY <1>3, <2>2 DEF Agree
    <3>2. u.map[e] >= 0
      BY <1>4, <3>1
    <3>3. e \in u.taken
      BY <1>7, <3>2
    <3> QED
      BY <1>3, <2>1, <3>3
  <2>3. LoopInv(c, batch, i, missed)
    <3> HIDE DEF n
    <3> QED
      BY <1>5, <2>1, <2>2, MissRequest DEF victim, n
  <2> QED
    BY <1>2, <1>7, <2>3
<1>8. CASE ~isMiss
  <2>1. e # None /\ c.cold[e] >= 0 => u.map[e] >= 0 \/ repeat
    BY <1>3, <1>8
  <2>2. LoopInv(c, batch, i, other)
    BY <1>5, <2>1, OtherRequest
  <2> QED
    BY <1>2, <1>8, <2>2
<1> QED
  BY <1>7, <1>8

\* The states before and after the first n requests.
Pass(f, start, batch, visible, n) ==
    f = [i \in 0 .. n |-> IF i = 0 THEN start ELSE Request(f[i - 1], batch, i, visible)]

\* The state after each request is defined by the state before it.
LEMMA PassExists ==
    ASSUME NEW batch, NEW visible, NEW start, NEW n \in Nat
    PROVE  \E f : Pass(f, start, batch, visible, n)
<1> DEFINE T == {k \in Nat : \E f : f = [i \in 0 .. k |-> IF i = 0 THEN start
                                            ELSE Request(f[i - 1], batch, i, visible)]}
<1>1. 0 \in T
  <2>1. \A i \in 0 .. 0 : i = 0
    OBVIOUS
  <2> DEFINE f == [i \in 0 .. 0 |-> start]
  <2>2. f = [i \in 0 .. 0 |-> IF i = 0 THEN start ELSE Request(f[i - 1], batch, i, visible)]
    BY <2>1
  <2> QED
    BY <2>2
<1>2. ASSUME NEW k \in T PROVE k + 1 \in T
  <2>1. PICK f : f = [i \in 0 .. k |-> IF i = 0 THEN start
                                      ELSE Request(f[i - 1], batch, i, visible)]
    OBVIOUS
  <2> DEFINE g == [i \in 0 .. k + 1 |-> IF i \in 0 .. k THEN f[i]
                                        ELSE Request(f[k], batch, i, visible)]
             h == [i \in 0 .. k + 1 |-> IF i = 0 THEN start
                                        ELSE Request(g[i - 1], batch, i, visible)]
  <2>2. k \in Nat
    OBVIOUS
  <2>3. ASSUME NEW i \in 0 .. k + 1 PROVE g[i] = h[i]
    <3>1. CASE i = 0
      <4>1. i \in 0 .. k
        BY <2>2, <3>1
      <4> QED
        BY <2>1, <3>1, <4>1
    <3>2. CASE i \in 1 .. k
      <4>1. i \in 0 .. k /\ i # 0 /\ i - 1 \in 0 .. k /\ i - 1 \in 0 .. k + 1
        BY <2>2, <3>2
      <4>2. g[i] = f[i] /\ g[i - 1] = f[i - 1]
        BY <4>1
      <4>3. f[i] = Request(f[i - 1], batch, i, visible)
        BY <2>1, <4>1
      <4>4. h[i] = Request(g[i - 1], batch, i, visible)
        BY <4>1
      <4> QED
        BY <4>2, <4>3, <4>4
    <3>3. CASE i = k + 1
      <4>1. i \notin 0 .. k /\ i # 0 /\ i - 1 = k /\ k \in 0 .. k /\ k \in 0 .. k + 1
        BY <2>2, <3>3
      <4>2. g[i] = Request(f[k], batch, i, visible) /\ g[k] = f[k]
        BY <4>1
      <4>3. h[i] = Request(g[i - 1], batch, i, visible)
        BY <4>1
      <4> QED
        BY <4>1, <4>2, <4>3
    <3> QED
      BY <2>2, <3>1, <3>2, <3>3
  <2>4. g = h
    <3>1. /\ g = [i \in 0 .. k + 1 |-> g[i]] /\ h = [i \in 0 .. k + 1 |-> h[i]]
      OBVIOUS
    <3> HIDE DEF g, h
    <3> QED
      BY <2>3, <3>1, Zenon
  <2>5. \E x : x = [i \in 0 .. k + 1 |-> IF i = 0 THEN start
                                          ELSE Request(x[i - 1], batch, i, visible)]
    <3>1. g = [i \in 0 .. k + 1 |-> IF i = 0 THEN start
                                    ELSE Request(g[i - 1], batch, i, visible)]
      <4> HIDE DEF g
      <4> QED
        BY <2>4
    <3> HIDE DEF g
    <3> QED
      BY <3>1
  <2> QED
    BY <2>2, <2>5
<1>3. T = Nat
  <2>1. T \in SUBSET Nat
    OBVIOUS
  <2> HIDE DEF T
  <2> QED
    BY <1>1, <1>2, <2>1, AllNaturals
<1> QED
  BY <1>3 DEF Pass

\* The pass over a whole batch.
LEMMA PassInv ==
    ASSUME ExpertsAssumption, NEW c, NEW batch, PassOf(c, batch), NEW visible,
           Agree(c.slots, c.map), c.slots \in Seq(Experts), c.ages \in [1 .. Len(c.slots) -> Nat],
           \A s \in 1 .. Len(c.slots) : c.cold[c.slots[s]] >= 0
    PROVE  LoopInv(c, batch, Len(batch), Updated(c, batch, visible))
<1> DEFINE N == Len(batch)
           start == [slots |-> c.slots, map |-> c.map, cold |-> c.cold, ages |-> c.ages,
                     clock |-> c.clock,
                     kept |-> Protected(c.slots, batch), taken |-> {}, misses |-> <<>>]
           after == CHOOSE f : f = [i \in 0 .. N |-> IF i = 0 THEN start
                                       ELSE Request(f[i - 1], batch, i, visible)]
<1>1. N \in Nat
  BY DEF PassOf
<1>2. Updated(c, batch, visible) = after[N]
  BY DEF Updated
<1>3. after = [i \in 0 .. N |-> IF i = 0 THEN start
                                ELSE Request(after[i - 1], batch, i, visible)]
  <2> HIDE DEF start, N
  <2>1. \E f : Pass(f, start, batch, visible, N)
    BY <1>1, PassExists
  <2>2. after = CHOOSE f : Pass(f, start, batch, visible, N)
    BY Zenon DEF Pass
  <2> HIDE DEF after
  <2>3. Pass(after, start, batch, visible, N)
    BY <2>1, <2>2, Zenon
  <2> QED
    BY <2>3, Zenon DEF Pass
<1>4. LoopInv(c, batch, 0, start)
  <2>1. \A k \in 1 .. 0 : FALSE
    OBVIOUS
  <2>2. start.kept = {s \in 1 .. Len(c.slots) : start.slots[s] \in Range(batch)}
    BY DEF Protected
  <2>3. /\ start.slots = c.slots /\ start.map = c.map /\ start.cold = c.cold /\ start.ages = c.ages
        /\ start.clock = c.clock /\ start.taken = {} /\ start.misses = <<>>
        /\ start = [slots |-> start.slots, map |-> start.map, cold |-> start.cold,
                    ages |-> start.ages, clock |-> start.clock, kept |-> start.kept,
                    taken |-> start.taken, misses |-> start.misses]
    OBVIOUS
  <2>4. <<>> \in Seq(Int \X Int) /\ Len(<<>>) = 0
    OBVIOUS
  <2> HIDE DEF start
  <2> QED
    BY <2>1, <2>2, <2>3, <2>4 DEF LoopInv
<1> HIDE DEF start, after
<1> DEFINE T == {k \in Nat : k <= N => LoopInv(c, batch, k, after[k])}
<1>5. 0 \in T
  <2>1. after[0] = start
    BY <1>1, <1>3
  <2> QED
    BY <1>4, <2>1
<1>6. ASSUME NEW k \in T PROVE k + 1 \in T
  <2> SUFFICES ASSUME k + 1 <= N PROVE LoopInv(c, batch, k + 1, after[k + 1])
    OBVIOUS
  <2>1. k \in Nat /\ k <= N /\ LoopInv(c, batch, k, after[k])
    BY <1>1
  <2>2. k + 1 \in 1 .. N /\ k + 1 \in 0 .. N /\ k + 1 # 0 /\ (k + 1) - 1 = k
    BY <1>1, <2>1
  <2>3. after[k + 1] = Request(after[k], batch, k + 1, visible)
    BY <1>3, <2>2
  <2> QED
    BY <2>1, <2>2, <2>3, RequestStep
<1>7. T = Nat
  <2>1. T \in SUBSET Nat
    OBVIOUS
  <2> HIDE DEF T
  <2> QED
    BY <1>5, <1>6, <2>1, AllNaturals
<1>8. LoopInv(c, batch, N, after[N])
  BY <1>1, <1>7
<1> QED
  BY <1>2, <1>8

\* The copies after the missed rows are fetched.
LEMMA FetchedRight ==
    ASSUME ExpertsAssumption, ExpertsInv, NEW l \in Layers, mode = "lru",
           NEW c, CacheOf(l, c, mode, map), NEW batch, Len(batch) \in Nat,
           NEW u, LoopInv(c, batch, Len(batch), u)
    PROVE  LET r == Fetched(l, c.rows, u.misses) IN
           /\ DOMAIN r = 1 .. Len(c.slots)
           /\ \A s \in 1 .. Len(c.slots) : r[s] = Weights(l, u.slots[s])
<1> DEFINE n == Len(c.slots)
           N == Len(batch)
           r == Fetched(l, c.rows, u.misses)
<1>1. /\ u.misses \in Seq(Int \X Int) /\ Len(u.misses) = N
      /\ \A s \in 1 .. n : c.cold[u.slots[s]] >= 0
      /\ u.slots \in Seq(Experts) /\ Len(u.slots) = n /\ u.kept \subseteq 1 .. n
      /\ \A k \in 1 .. N : \/ u.misses[k] = <<-1, -1>>
                           \/ \E s \in u.kept : u.misses[k] = <<c.cold[u.slots[s]], s>>
      /\ \A s \in 1 .. n : (\A k \in 1 .. N : u.misses[k][2] # s) => u.slots[s] = c.slots[s]
  BY DEF LoopInv
<1>2. /\ c.slots \in Seq(Experts) /\ DOMAIN c.rows = 1 .. n
      /\ \A s \in 1 .. n : c.rows[s] = Weights(l, c.slots[s])
      /\ \A e \in Experts : c.cold[e] = map[e]
  BY DEF CacheOf
<1>3. DOMAIN u.misses = 1 .. N /\ n \in Nat /\ \A s \in 1 .. n : u.slots[s] \in Experts
  BY <1>1, <1>2
<1>4. DOMAIN r = 1 .. n
  BY <1>2 DEF Fetched
<1>5. ASSUME NEW s \in 1 .. n PROVE r[s] = Weights(l, u.slots[s])
  <2> DEFINE j == CHOOSE i \in DOMAIN u.misses : u.misses[i][2] = s
  <2>1. r[s] = IF \E i \in DOMAIN u.misses : u.misses[i][2] = s
               THEN rows[l][u.misses[j][1] + 1] ELSE c.rows[s]
    BY <1>2 DEF Fetched
  <2> HIDE DEF r
  <2>2. CASE \E i \in DOMAIN u.misses : u.misses[i][2] = s
    <3>1. j \in 1 .. N /\ u.misses[j][2] = s
      BY <1>3, <2>2
    <3> HIDE DEF j
    <3>2. u.misses[j] # <<-1, -1>>
      BY <1>3, <3>1
    <3>3. u.misses[j] = <<c.cold[u.slots[s]], s>>
      <4>1. PICK t \in u.kept : u.misses[j] = <<c.cold[u.slots[t]], t>>
        BY <1>1, <3>1, <3>2
      <4>2. t = s
        BY <3>1, <4>1
      <4> QED
        BY <4>1, <4>2
    <3>4. u.slots[s] \in Experts /\ map[u.slots[s]] >= 0 /\ u.misses[j][1] = map[u.slots[s]]
      BY <1>1, <1>2, <1>3, <3>3
    <3> QED
      BY <2>1, <2>2, <3>4 DEF ExpertsInv, HostInv
  <2>3. CASE ~ \E i \in DOMAIN u.misses : u.misses[i][2] = s
    BY <1>1, <1>2, <1>3, <2>1, <2>3
  <2> QED
    BY <2>2, <2>3
<1> QED
  BY <1>4, <1>5

\* A cache that is replaced by use.
LEMMA LruStep ==
    ASSUME ExpertsAssumption, ExpertsInv, NEW l \in Layers, NEW batch \in BatchIds,
           ApplyLru(l, batch)
    PROVE  EachExpertOnce' /\ \E c : hot' = [hot EXCEPT ![l] = c] /\ CacheOf(l, c, mode, map)
<1> DEFINE c == hot[l]
           n == Len(c.slots)
           N == Len(batch)
           New(u) == [slots |-> u.slots, rows |-> Fetched(l, hot[l].rows, u.misses),
                      map |-> u.map, cold |-> u.cold, ages |-> u.ages,
                      clock |-> u.clock + Len(batch)]
<1>1. PICK visible \in BOOLEAN :
          LET d == New(Updated(c, batch, visible))
          IN  hot' = [hot EXCEPT ![l] = d] /\ out' = Kernel(batch, d.map, d.rows)
  BY DEF ApplyLru
<1> DEFINE u == Updated(c, batch, visible)
           d == New(u)
<1>2. hot' = [hot EXCEPT ![l] = d] /\ out' = Kernel(batch, d.map, d.rows)
  BY <1>1
<1>3. /\ d.slots = u.slots /\ d.rows = Fetched(l, c.rows, u.misses) /\ d.map = u.map
      /\ d.cold = u.cold /\ d.ages = u.ages /\ d.clock = u.clock + N
  OBVIOUS
<1>4. batch \in Seq(Experts \union {None}) /\ N \in Nat /\ DOMAIN batch = 1 .. N
  BY BatchFacts
<1>5. /\ CacheOf(l, c, mode, map) /\ mode = "lru" /\ map' = map /\ FitsLru(l, batch)
      /\ ids' = [layer |-> l, experts |-> batch] /\ map \in [Experts -> -1 .. NumExperts - 1]
  BY DEF ExpertsInv, ApplyLru
<1>6. /\ c.slots \in Seq(Experts) /\ n <= Capacity /\ Agree(c.slots, c.map)
      /\ c.ages \in [1 .. n -> Nat] /\ c.clock \in Nat /\ n \in Nat
      /\ \A e \in Experts : c.cold[e] = map[e]
      /\ \A s \in 1 .. n : map[c.slots[s]] >= 0
  BY <1>5 DEF CacheOf
<1>7. N <= n
  BY <1>5 DEF FitsLru
<1> HIDE DEF u, d, New, c
<1>8. PassOf(c, batch)
  <2>1. \A e \in Experts : c.cold[e] \in Int
    BY <1>5, <1>6, ExpertsFinite
  <2> QED
    BY <1>4, <1>6, <1>7, <2>1 DEF PassOf
<1>9. LoopInv(c, batch, N, u)
  <2>1. \A s \in 1 .. n : c.cold[c.slots[s]] >= 0
    <3>1. \A s \in 1 .. n : c.slots[s] \in Experts
      BY <1>6
    <3> QED
      BY <1>6, <3>1
  <2> QED
    BY <1>6, <1>8, <2>1, PassInv DEF u
<1>10. /\ DOMAIN d.rows = 1 .. n
       /\ \A s \in 1 .. n : d.rows[s] = Weights(l, u.slots[s])
  <2> HIDE DEF n, N
  <2> QED
    BY <1>3, <1>4, <1>5, <1>9, FetchedRight DEF n, N
<1>11. /\ u.slots \in Seq(Experts) /\ Len(u.slots) = n /\ Agree(u.slots, u.map)
       /\ u.cold = c.cold /\ u.clock = c.clock /\ u.ages \in [1 .. n -> Nat]
       /\ \A s \in 1 .. n : c.cold[u.slots[s]] >= 0
       /\ \A k \in 1 .. N : batch[k] # None /\ c.cold[batch[k]] >= 0 => u.map[batch[k]] >= 0
  BY <1>9 DEF LoopInv
<1> HIDE DEF n, N
<1>12. \A s \in 1 .. n : u.slots[s] \in Experts /\ map[u.slots[s]] >= 0
  <2>1. \A s \in 1 .. n : u.slots[s] \in Experts
    BY <1>11
  <2>2. \A s \in 1 .. n : c.cold[u.slots[s]] = map[u.slots[s]]
    BY <1>6, <2>1
  <2> QED
    BY <1>11, <2>1, <2>2
<1>13. CacheOf(l, d, mode, map)
  <2>1. d.clock \in Nat
    BY <1>3, <1>4, <1>6, <1>11
  <2>2. \A e \in Experts : d.cold[e] = map[e]
    BY <1>3, <1>6, <1>11
  <2> QED
    BY <1>3, <1>5, <1>6, <1>10, <1>11, <1>12, <2>1, <2>2 DEF CacheOf
<1>14. ASSUME NEW i \in DOMAIN batch, batch[i] # None
       PROVE  /\ d.map[batch[i]] >= 0 <=> map[batch[i]] >= 0
              /\ d.map[batch[i]] >= 0 => d.rows[d.map[batch[i]] + 1] = Weights(l, batch[i])
  <2> DEFINE e == batch[i]
  <2>1. e \in Experts
    BY <1>4, <1>14
  <2>2. map[e] >= 0 => d.map[e] >= 0
    BY <1>3, <1>4, <1>6, <1>11, <1>14, <2>1
  <2> HIDE DEF e
  <2>3. ASSUME d.map[e] >= 0 PROVE map[e] >= 0 /\ d.rows[d.map[e] + 1] = Weights(l, e)
    <3>1. u.map[e] + 1 \in 1 .. n /\ u.slots[u.map[e] + 1] = e
      <4>1. /\ u.map \in [Experts -> -1 .. n - 1]
            /\ \A x \in Experts : u.map[x] >= 0 => u.slots[u.map[x] + 1] = x
        BY <1>11 DEF Agree
      <4>2. n \in Nat /\ u.map[e] >= 0 /\ u.map[e] \in -1 .. n - 1
        BY <1>3, <1>6, <2>1, <2>3, <4>1 DEF n
      <4> QED
        BY <2>1, <4>1, <4>2
    <3> QED
      BY <1>3, <1>10, <1>12, <3>1
  <2> QED
    BY <2>2, <2>3 DEF e
<1>15. RightOut(l, batch, Kernel(batch, d.map, d.rows))
  BY <1>4, <1>14, KernelRight
<1> QED
  BY <1>2, <1>5, <1>13, <1>15, EachOnceOf

-----------------------------------------------------------------------------
(* The theorems.                                                           *)

\* The invariant of the module with the property of the outputs.
FullInv == ExpertsInv /\ EachExpertOnce

\* A step that changes no cache keeps the invariant.
LEMMA SameCaches ==
    ASSUME ExpertsInv, UNCHANGED <<mode, map, rows, hot>>, DOMAIN stage'.rows = 1 .. StageCapacity
    PROVE  ExpertsInv'
  BY DEF ExpertsInv, HostInv

\* A step of a layer with a cache that is replaced by use keeps the invariant.
LEMMA OneCache ==
    ASSUME ExpertsInv, UNCHANGED <<mode, map, rows, stage>>, NEW l \in Layers,
           NEW c, hot' = [hot EXCEPT ![l] = c], CacheOf(l, c, mode, map)
    PROVE  ExpertsInv'
<1>1. /\ mode \in Modes /\ map \in [Experts -> -1 .. NumExperts - 1]
      /\ DOMAIN stage.rows = 1 .. StageCapacity
      /\ hot = [k \in Layers |-> hot[k]] /\ \A k \in Layers : CacheOf(k, hot[k], mode, map)
      /\ HostInv
  BY DEF ExpertsInv
<1>2. DOMAIN hot = Layers
  BY <1>1
<1>3. hot' = [k \in Layers |-> IF k = l THEN c ELSE hot[k]]
  BY <1>2
<1>4. hot' = [k \in Layers |-> hot'[k]] /\ \A k \in Layers : hot'[k] = IF k = l THEN c ELSE hot[k]
  BY <1>3
<1>5. \A k \in Layers : CacheOf(k, hot'[k], mode', map')
  BY <1>1, <1>4
<1>6. HostInv'
  BY <1>1 DEF HostInv
<1> QED
  BY <1>1, <1>4, <1>5, <1>6 DEF ExpertsInv

\* A step keeps the invariant.
LEMMA NextInv == ASSUME ExpertsAssumption, FullInv, [Next]_vars PROVE FullInv'
<1>1. ExpertsInv /\ EachExpertOnce /\ DOMAIN stage.rows = 1 .. StageCapacity
  BY DEF FullInv, ExpertsInv
<1>2. CASE UNCHANGED vars
  <2>1. ExpertsInv'
    BY <1>1, <1>2, SameCaches DEF vars
  <2>2. EachExpertOnce'
    BY <1>1, <1>2 DEF vars, EachExpertOnce
  <2> QED
    BY <2>1, <2>2 DEF FullInv
<1>3. CASE Return
  <2>1. ExpertsInv'
    BY <1>1, <1>3, SameCaches DEF Return
  <2>2. EachExpertOnce'
    BY <1>3 DEF Return, EachExpertOnce
  <2> QED
    BY <2>1, <2>2 DEF FullInv
<1>4. ASSUME NEW l \in Layers, NEW batch \in BatchIds, ApplyPlain(l, batch) PROVE FullInv'
  <2>1. ExpertsInv'
    BY <1>1, <1>4, SameCaches DEF ApplyPlain
  <2> QED
    BY <1>1, <1>4, <2>1, PlainStep DEF FullInv
<1>5. ASSUME NEW l \in Layers, NEW batch \in BatchIds, ApplySplit(l, batch) PROVE FullInv'
  <2>1. ExpertsInv'
    BY <1>1, <1>5, SameCaches DEF ApplySplit
  <2> QED
    BY <1>1, <1>5, <2>1, SplitStep DEF FullInv
<1>6. ASSUME NEW l \in Layers, NEW batch \in BatchIds, ApplyStage(l, batch) PROVE FullInv'
  <2>1. EachExpertOnce' /\ DOMAIN stage'.rows = 1 .. StageCapacity
    BY <1>1, <1>6, StageStep
  <2>2. UNCHANGED <<mode, map, rows, hot>>
    BY <1>6 DEF ApplyStage
  <2>3. ExpertsInv'
    BY <1>1, <2>1, <2>2, SameCaches
  <2> QED
    BY <2>1, <2>3 DEF FullInv
<1>7. ASSUME NEW l \in Layers, NEW batch \in BatchIds, ApplyLru(l, batch) PROVE FullInv'
  <2>1. EachExpertOnce' /\ \E c : hot' = [hot EXCEPT ![l] = c] /\ CacheOf(l, c, mode, map)
    BY <1>1, <1>7, LruStep
  <2>2. UNCHANGED <<mode, map, rows, stage>>
    BY <1>7 DEF ApplyLru
  <2>3. PICK c : hot' = [hot EXCEPT ![l] = c] /\ CacheOf(l, c, mode, map)
    BY <2>1
  <2>4. ExpertsInv'
    BY <1>1, <2>2, <2>3, OneCache
  <2> QED
    BY <2>1, <2>4 DEF FullInv
<1> QED
  BY <1>2, <1>3, <1>4, <1>5, <1>6, <1>7 DEF Next

\* The invariant implies the type invariant and the property of the maps.
LEMMA InvFacts == ASSUME ExpertsAssumption, ExpertsInv PROVE TypeOK /\ SlotsMatchMap
<1>1. ASSUME NEW l \in Layers
      PROVE  LET c == hot[l]
             IN  /\ c.map \in [Experts -> -1 .. Len(c.slots) - 1] /\ Len(c.slots) \in Nat
                 /\ Len(c.slots) <= Capacity /\ c.clock \in Nat
                 /\ DOMAIN c.slots = 1 .. Len(c.slots)
                 /\ \A e \in Experts : c.map[e] >= 0 => c.slots[c.map[e] + 1] = e
                 /\ \A s \in 1 .. Len(c.slots) : c.map[c.slots[s]] = s - 1
                 /\ \A s \in 1 .. Len(c.slots) : c.rows[s] = Weights(l, c.slots[s])
  BY <1>1 DEF ExpertsInv, CacheOf, Agree
<1>2. ASSUME NEW l \in Layers PROVE hot[l].map \in [Experts -> -1 .. Capacity - 1]
  <2> DEFINE n == Len(hot[l].slots)
  <2>1. hot[l].map \in [Experts -> -1 .. n - 1] /\ n \in Nat /\ n <= Capacity
    BY <1>1
  <2> HIDE DEF n
  <2>2. -1 .. n - 1 \subseteq -1 .. Capacity - 1
    BY <2>1, ExpertsFinite
  <2> QED
    BY <2>1, <2>2
<1>3. TypeOK
  BY <1>1, <1>2 DEF ExpertsInv, TypeOK
<1>4. ASSUME NEW l \in Layers, NEW e \in Experts, hot[l].map[e] # None
      PROVE  hot[l].slots[hot[l].map[e] + 1] = e
  <2>1. hot[l].map[e] \in -1 .. Len(hot[l].slots) - 1 /\ Len(hot[l].slots) \in Nat
    BY <1>1
  <2>2. hot[l].map[e] >= 0
    BY <1>4, <2>1 DEF None
  <2> QED
    BY <1>1, <2>2
<1> QED
  BY <1>1, <1>3, <1>4 DEF SlotsMatchMap

\* The invariant holds in every state of a behaviour.
LEMMA ExpertsSafe == ASSUME ExpertsAssumption PROVE Spec => []FullInv
<1>1. Init => FullInv
  BY InitInv DEF FullInv, EachExpertOnce
<1>2. FullInv /\ [Next]_vars => FullInv'
  BY NextInv
<1> QED
  BY <1>1, <1>2, PTL DEF Spec

\* The maps and the caches have their types.
THEOREM ExpertsTypes == ASSUME ExpertsAssumption PROVE Spec => []TypeOK
<1>1. FullInv => TypeOK
  BY InvFacts DEF FullInv
<1> QED
  BY <1>1, ExpertsSafe, PTL

\* Every expert of this rank that a token is routed to contributes once, with its own
\* weights, however many experts, ranks, slots and tokens there are.
THEOREM EachOnce == ASSUME ExpertsAssumption PROVE Spec => []EachExpertOnce
<1>1. FullInv => EachExpertOnce
  BY DEF FullInv
<1> QED
  BY <1>1, ExpertsSafe, PTL

\* In a cache that is replaced by use the map, the slots and the copies agree.
THEOREM MapsMatch == ASSUME ExpertsAssumption PROVE Spec => []SlotsMatchMap
<1>1. FullInv => SlotsMatchMap
  BY InvFacts DEF FullInv
<1> QED
  BY <1>1, ExpertsSafe, PTL

-----------------------------------------------------------------------------
(* The loader of quantized experts (ExpertWeights), for any number of      *)
(* experts: WrittenOfExpert and WrittenOfAll say what the entries of the   *)
(* mapping write of a tensor of one expert and of one of all of them.      *)

CONSTANTS Hidden, Channels, PackFactor, Tile, NumLogical, GroupSizes

\* The loading of a layer.
Loader == INSTANCE ExpertWeights WITH H <- Hidden, I <- Channels, P <- PackFactor

\* The part of a tensor that a shard is read from.
PartOf(c, s) == IF c.layout = "separate" \/ s = "w2" THEN s ELSE "w13"

\* The half of w13 that it is.
HalfIn(c, s) == IF PartOf(c, s) = "w13" THEN IF s = "w1" THEN 0 ELSE 1 ELSE 0

\* What is written for a shard of a physical expert.
TheWrite(c, p, s) ==
    [t |-> [expert |-> IF c.layout = "fused" THEN Loader!AllExperts ELSE p % NumLogical,
            part |-> PartOf(c, s)],
     w |-> [into |-> p, shard |-> s, from |-> p % NumLogical, half |-> HalfIn(c, s)]]

\* All that is written for a layer.
Written(c) ==
    UNION {{[t |-> t, w |-> w] : w \in Loader!Writes(c, t)} : t \in Loader!CkptTensors(c)}

\* A physical expert and the expert of the checkpoint that it is a copy of.
LEMMA PhysicalExperts ==
    ASSUME NumLogical \in Nat \ {0}, NEW c \in Loader!Configs, NEW p \in Loader!Physical(c)
    PROVE  p \in Nat /\ p % NumLogical \in 0 .. NumLogical - 1
<1>1. c.redundant \in {0, 1}
  BY DEF Loader!Configs
<1>2. p \in Nat
  BY <1>1 DEF Loader!Physical
<1> QED
  BY <1>2

\* The parts and shards of the entries for one expert.
LEMMA PairsOf ==
    ASSUME NEW e \in {<<"w13", "w1">>, <<"w13", "w3">>} \cup {<<w, w>> : w \in Loader!Shards}
    PROVE  /\ e[2] \in Loader!Shards
           /\ e[1] = "w13" \/ e[1] = e[2]
           /\ e[1] = "w13" => e[2] # "w2"
  BY DEF Loader!Shards

\* What is written of a tensor of one expert: to each physical expert that is a copy of it,
\* the shards that are read from its part.
LEMMA WrittenOfExpert ==
    ASSUME NumLogical \in Nat \ {0}, NEW c \in Loader!Configs, c.layout # "fused",
           NEW t \in Loader!CkptTensors(c), NEW w
    PROVE  w \in Loader!Writes(c, t) <=>
             \E p \in Loader!Physical(c), s \in Loader!Shards :
                 /\ t.expert = p % NumLogical /\ t.part = PartOf(c, s)
                 /\ w = [into |-> p, shard |-> s, from |-> t.expert, half |-> HalfIn(c, s)]
<1>1. t.expert \in 0 .. NumLogical - 1 /\ t.expert # Loader!AllExperts
      /\ t.part \in IF c.layout = "separate" THEN Loader!Shards ELSE {"w13", "w2"}
  BY DEF Loader!CkptTensors, Loader!AllExperts
<1>2. c.layout \in {"separate", "per_expert"}
  BY DEF Loader!Configs
<1> DEFINE Out(e) == [into |-> e.index, shard |-> e.shard, from |-> t.expert,
                      half |-> IF t.part = "w13" THEN Loader!HalfOf(e) ELSE 0]
<1>3. w \in Loader!Writes(c, t) <=>
        \E e \in Loader!ExpertMapping(c) : e.expert = t.expert /\ e.part = t.part /\ w = Out(e)
  BY <1>1 DEF Loader!Writes
<1>4. ASSUME NEW e \in Loader!ExpertMapping(c), e.expert = t.expert, e.part = t.part, w = Out(e)
      PROVE  \E p \in Loader!Physical(c), s \in Loader!Shards :
                 /\ t.expert = p % NumLogical /\ t.part = PartOf(c, s)
                 /\ w = [into |-> p, shard |-> s, from |-> t.expert, half |-> HalfIn(c, s)]
  <2>1. PICK p \in Loader!Physical(c),
             d \in {<<"w13", "w1">>, <<"w13", "w3">>} \cup {<<x, x>> : x \in Loader!Shards} :
            e = [expert |-> p % NumLogical, part |-> d[1], shard |-> d[2], index |-> p]
    BY <1>1, <1>4 DEF Loader!ExpertMapping
  <2>2. d[2] \in Loader!Shards /\ (d[1] = "w13" \/ d[1] = d[2]) /\ (d[1] = "w13" => d[2] # "w2")
    BY PairsOf
  <2>3. t.part = d[1] /\ t.expert = p % NumLogical /\ e.shard = d[2] /\ e.index = p
    BY <1>4, <2>1
  <2>4. d[1] = PartOf(c, d[2])
    BY <1>1, <1>2, <2>2, <2>3 DEF PartOf, Loader!Shards
  <2>5. t.part = "w13" => Loader!HalfOf(e) = IF d[2] = "w1" THEN 0 ELSE 1
    BY <1>1, <1>4, <2>3 DEF Loader!HalfOf
  <2>6. w = [into |-> p, shard |-> d[2], from |-> t.expert, half |-> HalfIn(c, d[2])]
    BY <1>4, <2>3, <2>4, <2>5 DEF HalfIn
  <2> QED
    BY <2>2, <2>3, <2>4, <2>6
<1>5. ASSUME NEW p \in Loader!Physical(c), NEW s \in Loader!Shards,
             t.expert = p % NumLogical, t.part = PartOf(c, s),
             w = [into |-> p, shard |-> s, from |-> t.expert, half |-> HalfIn(c, s)]
      PROVE  \E e \in Loader!ExpertMapping(c) :
                 e.expert = t.expert /\ e.part = t.part /\ w = Out(e)
  <2> DEFINE d == <<PartOf(c, s), s>>
             e == [expert |-> p % NumLogical, part |-> d[1], shard |-> d[2], index |-> p]
  <2>1. d \in {<<"w13", "w1">>, <<"w13", "w3">>} \cup {<<x, x>> : x \in Loader!Shards}
    BY DEF PartOf, Loader!Shards
  <2>2. e \in Loader!ExpertMapping(c)
    <3> DEFINE Pairs == {<<"w13", "w1">>, <<"w13", "w3">>} \cup {<<x, x>> : x \in Loader!Shards}
               All == {[expert |-> o % NumLogical, part |-> x[1], shard |-> x[2], index |-> o] :
                          o \in Loader!Physical(c), x \in Pairs}
    <3>1. All \subseteq Loader!ExpertMapping(c)
      BY DEF Loader!ExpertMapping
    <3>2. d \in Pairs
      BY <2>1
    <3> HIDE DEF d, Pairs
    <3>3. e \in All
      BY <3>2
    <3> HIDE DEF All, e
    <3> QED
      BY <3>1, <3>3
  <2>3. e.expert = t.expert /\ e.part = t.part /\ e.shard = s /\ e.index = p
    BY <1>5
  <2>4. w = Out(e)
    BY <1>1, <1>5, <2>3 DEF Loader!HalfOf, HalfIn
  <2> QED
    BY <2>2, <2>3, <2>4
<1> QED
  BY <1>3, <1>4, <1>5

\* What is written of a tensor of all experts.
LEMMA WrittenOfAll ==
    ASSUME NumLogical \in Nat \ {0}, NEW c \in Loader!Configs, c.layout = "fused",
           NEW t \in Loader!CkptTensors(c), NEW w
    PROVE  w \in Loader!Writes(c, t) <=>
             \E p \in 0 .. NumLogical - 1, s \in Loader!Shards :
                 /\ t.part = PartOf(c, s)
                 /\ w = [into |-> p, shard |-> s, from |-> p, half |-> HalfIn(c, s)]
<1>1. t.expert = Loader!AllExperts /\ t.part \in {"w13", "w2"}
  BY DEF Loader!CkptTensors
<1> DEFINE Out(e, x) == [into |-> x, shard |-> e.shard, from |-> x,
                         half |-> IF t.part = "w13" THEN Loader!HalfOf(e) ELSE 0]
<1>2. w \in Loader!Writes(c, t) <=>
        \E e \in Loader!ExpertMapping(c), x \in 0 .. NumLogical - 1 :
            e.expert = Loader!AllExperts /\ e.part = t.part /\ w = Out(e, x)
  BY <1>1 DEF Loader!Writes
<1>3. \A p \in Loader!Physical(c) : p % NumLogical # Loader!AllExperts
  BY PhysicalExperts DEF Loader!AllExperts
<1> DEFINE Entry(s) == [expert |-> Loader!AllExperts, part |-> PartOf(c, s), shard |-> s,
                        index |-> HalfIn(c, s)]
<1>4. \A s \in Loader!Shards : Entry(s) \in Loader!ExpertMapping(c)
  BY DEF Loader!ExpertMapping, PartOf, HalfIn, Loader!Shards
<1>5. ASSUME NEW e \in Loader!ExpertMapping(c), e.expert = Loader!AllExperts
      PROVE  \E s \in Loader!Shards : e = Entry(s)
  <2>1. e \in {[expert |-> Loader!AllExperts, part |-> "w13", shard |-> "w1", index |-> 0],
               [expert |-> Loader!AllExperts, part |-> "w13", shard |-> "w3", index |-> 1],
               [expert |-> Loader!AllExperts, part |-> "w2",  shard |-> "w2", index |-> 0]}
    BY <1>3, <1>5 DEF Loader!ExpertMapping
  <2>2. Entry("w1") = [expert |-> Loader!AllExperts, part |-> "w13", shard |-> "w1", index |-> 0]
    BY DEF PartOf, HalfIn
  <2>3. Entry("w3") = [expert |-> Loader!AllExperts, part |-> "w13", shard |-> "w3", index |-> 1]
    BY DEF PartOf, HalfIn
  <2>4. Entry("w2") = [expert |-> Loader!AllExperts, part |-> "w2", shard |-> "w2", index |-> 0]
    BY DEF PartOf, HalfIn
  <2> QED
    BY <2>1, <2>2, <2>3, <2>4 DEF Loader!Shards
<1>6. ASSUME NEW s \in Loader!Shards, NEW x
      PROVE  t.part = PartOf(c, s) =>
                Out(Entry(s), x) = [into |-> x, shard |-> s, from |-> x, half |-> HalfIn(c, s)]
  BY DEF Loader!HalfOf, HalfIn
<1>7. \A s \in Loader!Shards : Entry(s).part = PartOf(c, s) /\ Entry(s).expert = Loader!AllExperts
  OBVIOUS
<1> HIDE DEF Out, Entry
<1> QED
  BY <1>2, <1>4, <1>5, <1>6, <1>7

\* A fused tensor fills no redundant copy.
LEMMA CopiesUnfilled ==
    ASSUME NumLogical \in Nat \ {0}, NEW c \in Loader!Configs, c.layout = "fused",
           NEW p, p \notin 0 .. NumLogical - 1
    PROVE  {x \in Written(c) : x.w.into = p} = {}
<1> SUFFICES ASSUME NEW x \in Written(c), x.w.into = p PROVE FALSE
  OBVIOUS
<1>1. PICK t \in Loader!CkptTensors(c) : \E w \in Loader!Writes(c, t) : x = [t |-> t, w |-> w]
  BY DEF Written
<1>2. PICK w \in Loader!Writes(c, t) : x = [t |-> t, w |-> w]
  BY <1>1
<1>3. PICK o \in 0 .. NumLogical - 1, h \in Loader!Shards :
          w = [into |-> o, shard |-> h, from |-> o, half |-> HalfIn(c, h)]
  BY WrittenOfAll
<1>4. w.into = o /\ w.into = p
  BY <1>2, <1>3
<1> QED
  BY <1>4

\* For any number of experts, redundant copies and layout of the checkpoint, each matrix of a
\* physical expert is written once, from the expert it is a copy of, and w1 and w3 are not
\* confused; a fused tensor writes nothing into a redundant copy.
THEOREM PartsLoaded ==
    ASSUME NumLogical \in Nat \ {0}, NEW c \in Loader!Configs
    PROVE  Loader!EveryPartLoaded(c)
<1> SUFFICES ASSUME NEW p \in Loader!Physical(c), NEW s \in Loader!Shards
             PROVE  LET here == {x \in Written(c) : x.w.into = p /\ x.w.shard = s}
                    IN  /\ Loader!Cardinality(here) =
                              IF c.layout = "fused" /\ p >= NumLogical THEN 0 ELSE 1
                        /\ \A x \in here :
                              /\ x.w.from = p % NumLogical
                              /\ x.t.part = "w13" => x.w.half = IF s = "w1" THEN 0 ELSE 1
  BY DEF Loader!EveryPartLoaded, Written
<1> DEFINE here == {x \in Written(c) : x.w.into = p /\ x.w.shard = s}
           it == TheWrite(c, p, s)
<1>0. ASSUME NEW S PROVE Loader!Cardinality(S) = Cardinality(S)
  BY Zenon DEF Loader!Cardinality, Cardinality
<1>1. p \in Nat /\ p % NumLogical \in 0 .. NumLogical - 1
  BY PhysicalExperts
<1>10. CASE c.layout = "fused" /\ p >= NumLogical
  <2>1. here = {}
    <3>1. p \notin 0 .. NumLogical - 1
      BY <1>1, <1>10
    <3>2. {x \in Written(c) : x.w.into = p} = {}
      BY <1>10, <3>1, CopiesUnfilled
    <3> QED
      BY <3>2
  <2>2. Loader!Cardinality(here) = 0
    <3> HIDE DEF here
    <3> QED
      BY <1>0, <2>1, FS_EmptySet
  <2> QED
    BY <1>10, <2>1, <2>2
<1> SUFFICES ASSUME ~(c.layout = "fused" /\ p >= NumLogical)
             PROVE  /\ Loader!Cardinality(here) = 1
                    /\ \A x \in here :
                          /\ x.w.from = p % NumLogical
                          /\ x.t.part = "w13" => x.w.half = IF s = "w1" THEN 0 ELSE 1
  BY <1>10
<1>2. c.layout = "fused" => p \in 0 .. NumLogical - 1 /\ p % NumLogical = p
  BY <1>1
<1>3. it.t \in Loader!CkptTensors(c)
  <2>1. it.t = [expert |-> IF c.layout = "fused" THEN Loader!AllExperts ELSE p % NumLogical,
                part |-> PartOf(c, s)]
    BY DEF TheWrite
  <2>2. PartOf(c, s) \in IF c.layout = "separate" THEN Loader!Shards ELSE {"w13", "w2"}
    BY DEF PartOf
  <2> QED
    BY <1>1, <2>1, <2>2 DEF Loader!CkptTensors
<1>4. it.w \in Loader!Writes(c, it.t)
  <2>1. it.t.part = PartOf(c, s)
        /\ it.t.expert = IF c.layout = "fused" THEN Loader!AllExperts ELSE p % NumLogical
    BY DEF TheWrite
  <2>2. it.w = [into |-> p, shard |-> s, from |-> p % NumLogical, half |-> HalfIn(c, s)]
    BY DEF TheWrite
  <2> HIDE DEF it
  <2>3. CASE c.layout = "fused"
    BY <1>2, <1>3, <2>1, <2>2, <2>3, WrittenOfAll
  <2>4. CASE c.layout # "fused"
    BY <1>3, <2>1, <2>2, <2>4, WrittenOfExpert
  <2> QED
    BY <2>3, <2>4
<1>5. it \in here
  <2>1. it = [t |-> it.t, w |-> it.w] /\ it.w.into = p /\ it.w.shard = s
    BY DEF TheWrite
  <2> HIDE DEF it
  <2> QED
    BY <1>3, <1>4, <2>1 DEF Written
<1>6. ASSUME NEW x \in here PROVE x = it
  <2>0. PICK t \in Loader!CkptTensors(c) : \E w \in Loader!Writes(c, t) : x = [t |-> t, w |-> w]
    BY DEF Written
  <2>1. PICK w \in Loader!Writes(c, t) : x = [t |-> t, w |-> w]
    BY <2>0
  <2>2. w.into = p /\ w.shard = s
    BY <2>1, <1>6
  <2>3. t = [expert |-> t.expert, part |-> t.part]
    BY DEF Loader!CkptTensors
  <2>4. CASE c.layout = "fused"
    <3>1. PICK o \in 0 .. NumLogical - 1, h \in Loader!Shards :
              /\ t.part = PartOf(c, h)
              /\ w = [into |-> o, shard |-> h, from |-> o, half |-> HalfIn(c, h)]
      BY <2>4, WrittenOfAll
    <3>2. o = p /\ h = s
      BY <2>2, <3>1
    <3>3. t.expert = Loader!AllExperts
      BY <2>4 DEF Loader!CkptTensors
    <3> QED
      BY <1>2, <2>1, <2>3, <2>4, <3>1, <3>2, <3>3 DEF TheWrite
  <2>5. CASE c.layout # "fused"
    <3>1. PICK o \in Loader!Physical(c), h \in Loader!Shards :
              /\ t.expert = o % NumLogical /\ t.part = PartOf(c, h)
              /\ w = [into |-> o, shard |-> h, from |-> t.expert, half |-> HalfIn(c, h)]
      BY <2>5, WrittenOfExpert
    <3>2. o = p /\ h = s
      BY <2>2, <3>1
    <3> QED
      BY <2>1, <2>3, <2>5, <3>1, <3>2 DEF TheWrite
  <2> QED
    BY <2>4, <2>5
<1>7. here = {it}
  BY <1>5, <1>6
<1>8. Loader!Cardinality(here) = 1
  <2> HIDE DEF here, it
  <2>1. Cardinality(here) = 1
    BY <1>7, FS_Singleton
  <2> QED
    BY <1>0, <2>1
<1>9. /\ it.w.from = p % NumLogical
      /\ it.t.part = "w13" => it.w.half = IF s = "w1" THEN 0 ELSE 1
  BY DEF TheWrite, HalfIn
<1> QED
  <2> HIDE DEF it
  <2> QED
    BY <1>7, <1>8, <1>9
=============================================================================

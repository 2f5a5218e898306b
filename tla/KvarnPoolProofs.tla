-------------------------- MODULE KvarnPoolProofs --------------------------
(***************************************************************************)
(* The KVarN pool: no slot is lost or handed out twice, a sink that the    *)
(* batch uses keeps its slot, a pool of the size that is configured for a  *)
(* few requests is never exhausted, and attention reads the tokens of the  *)
(* request.  For any number of requests, blocks and slots, any batch and   *)
(* any drafts.                                                             *)
(***************************************************************************)
EXTENDS KvarnPool, FiniteSetTheorems, WellFoundedInduction, TLAPS

\* A retired sink is a complete sink that has a slot.
RetiredAreSinks == \A b \in Range(retired) : b \in held /\ b \in sinks /\ Complete(b)

\* The types the slots depend on.
SlotTypes ==
    /\ table \in [Reqs -> Seq(Blocks)] /\ len \in [Reqs -> Int] /\ acc \in [Reqs -> Int]
    /\ held \subseteq Blocks /\ freeSlots \in Int /\ retired \in Seq(Blocks)

\* A kernel runs with the sinks of the batch in their slots.
SlotInv ==
    /\ SlotTypes
    /\ RetiredAreSinks
    /\ SlotsAccounted
    /\ pc \in {"store", "attend"} => \A b \in FirstBlocks \cap sinks : b \in held \ Range(retired)

\* A sequence over a set has its elements in the set.
LEMMA ElementsOfSeq == ASSUME NEW S, NEW s \in Seq(S) PROVE Range(s) \subseteq S
<1> SUFFICES ASSUME NEW x \in Range(s) PROVE x \in S
  OBVIOUS
<1>1. PICK i \in DOMAIN s : x = s[i]
  BY DEF Range
<1> QED
  BY <1>1

\* SetToSeqs returns sequences of the elements of the set.
LEMMA SeqsOfSet ==
    ASSUME NEW S, IsFiniteSet(S), NEW s \in SetToSeqs(S)
    PROVE  s \in Seq(S) /\ Range(s) \subseteq S
<1>1. Cardinality(S) \in Nat
  BY FS_CardinalityType
<1>2. s \in [1 .. Cardinality(S) -> S]
  BY DEF SetToSeqs
<1>3. s \in Seq(S)
  BY <1>1, <1>2
<1> QED
  BY <1>3, ElementsOfSeq

\* What is kept of a dictionary are its keys but those that were removed.
LEMMA KeptFacts ==
    ASSUME NEW old \in Seq(Blocks), NEW gone, NEW s \in Kept(old, gone), IsFiniteSet(Blocks)
    PROVE  s \in Seq(Blocks) /\ Range(s) \subseteq Range(old) \ gone
<1>1. Range(old) \subseteq Blocks
  BY ElementsOfSeq
<1>2. IsFiniteSet(Range(old) \ gone)
  BY <1>1, FS_Subset
<1>3. s \in SetToSeqs(Range(old) \ gone)
  BY DEF Kept
<1>4. s \in Seq(Range(old) \ gone) /\ Range(s) \subseteq Range(old) \ gone
  BY <1>2, <1>3, SeqsOfSet
<1>5. s \in Seq(Blocks)
  BY <1>1, <1>4
<1> QED
  BY <1>4, <1>5

\* Elements of a concatenation.
LEMMA RangeOfConcat ==
    ASSUME NEW S, NEW s \in Seq(S), NEW t \in Seq(S)
    PROVE  s \o t \in Seq(S) /\ Range(s \o t) \subseteq Range(s) \union Range(t)
<1>1. s \o t \in Seq(S)
  OBVIOUS
<1>2. ASSUME NEW i \in DOMAIN (s \o t) PROVE (s \o t)[i] \in Range(s) \union Range(t)
  <2>1. CASE i \in 1 .. Len(s)
    BY <1>2, <2>1 DEF Range
  <2>2. CASE i \notin 1 .. Len(s)
    <3>1. i - Len(s) \in 1 .. Len(t) /\ (s \o t)[i] = t[i - Len(s)]
      BY <1>2, <2>2
    <3> QED
      BY <3>1 DEF Range
  <2> QED
    BY <2>1, <2>2
<1> QED
  BY <1>1, <1>2 DEF Range

\* The size of a union of disjoint sets.
LEMMA DisjointUnion ==
    ASSUME NEW A, NEW B, IsFiniteSet(A), IsFiniteSet(B), A \cap B = {}
    PROVE  /\ IsFiniteSet(A \union B)
           /\ Cardinality(A \union B) = Cardinality(A) + Cardinality(B)
           /\ Cardinality(A) \in Nat /\ Cardinality(B) \in Nat
<1>1. Cardinality(A \union B) = Cardinality(A) + Cardinality(B) - Cardinality(A \cap B)
  BY FS_Union
<1>2. Cardinality(A) \in Nat /\ Cardinality(B) \in Nat /\ Cardinality(A \cap B) = 0
  BY FS_EmptySet, FS_CardinalityType
<1>3. IsFiniteSet(A \union B)
  BY FS_Union
<1> QED
  BY <1>1, <1>2, <1>3

\* The size of a set after some elements are taken out and others put in.
LEMMA Exchange ==
    ASSUME NEW S, NEW A, NEW N, IsFiniteSet(S), IsFiniteSet(N), A \subseteq S,
           (S \ A) \cap N = {}
    PROVE  Cardinality((S \ A) \union N) = Cardinality(S) - Cardinality(A) + Cardinality(N)
<1>1. IsFiniteSet(A) /\ IsFiniteSet(S \ A)
  BY FS_Subset
<1>2. Cardinality(S \ A) = Cardinality(S) - Cardinality(A)
  <2>1. S \cap A = A
    OBVIOUS
  <2>2. Cardinality(S \ A) = Cardinality(S) - Cardinality(S \cap A)
    BY FS_Difference
  <2> QED
    BY <2>1, <2>2
<1>4. Cardinality((S \ A) \union N) = Cardinality(S \ A) + Cardinality(N)
  BY <1>1, DisjointUnion
<1>5. Cardinality(S) \in Nat /\ Cardinality(A) \in Nat /\ Cardinality(N) \in Nat
  BY <1>1, FS_CardinalityType
<1> QED
  BY <1>2, <1>4, <1>5
-----------------------------------------------------------------------------
\* The initial state.
LEMMA SlotInit == ASSUME KvarnAssumption PROVE Init => SlotInv
<1> SUFFICES ASSUME Init PROVE SlotInv
  OBVIOUS
<1>1. Range(retired) = {}
  BY DEF Init, Range
<1>2. Cardinality(held) = 0
  BY FS_EmptySet DEF Init
<1>3. SlotTypes
  BY DEF Init, SlotTypes, KvarnAssumption
<1>4. RetiredAreSinks
  BY <1>1 DEF RetiredAreSinks
<1>5. SlotsAccounted
  BY <1>2 DEF Init, SlotsAccounted, KvarnAssumption
<1> QED
  BY <1>3, <1>4, <1>5 DEF SlotInv, Init

\* Steps that leave the slots and the dictionaries alone.
LEMMA SlotFrame ==
    ASSUME SlotInv, SlotTypes', UNCHANGED allocVars, pc' \notin {"store", "attend"} \/
             (pc \in {"store", "attend"} /\ UNCHANGED <<table, q>>)
    PROVE  SlotInv'
<1>1. RetiredAreSinks'
  BY DEF SlotInv, RetiredAreSinks, allocVars, Complete
<1>2. SlotsAccounted'
  BY DEF SlotInv, SlotsAccounted, allocVars
<1>3. CASE pc' \notin {"store", "attend"}
  BY <1>1, <1>2, <1>3 DEF SlotInv
<1>4. CASE pc \in {"store", "attend"} /\ UNCHANGED <<table, q>>
  <2>1. FirstBlocks' = FirstBlocks
    BY <1>4 DEF FirstBlocks, Scheduled, Running, BlockAt
  <2> QED
    BY <1>1, <1>2, <1>4, <2>1 DEF SlotInv, allocVars
<1> QED
  BY <1>3, <1>4

\* The engine hands out blocks of the group only.
LEMMA EngineStep ==
    ASSUME KvarnAssumption, SlotInv, NEW r \in Reqs,
           Admit(r) \/ PlacePrefill(r) \/ PlaceVerify(r) \/ Leave(r)
    PROVE  SlotInv'
<1>1. pc' = pc /\ pc = "schedule" /\ UNCHANGED allocVars
  BY DEF Admit, PlacePrefill, PlaceVerify, Place, Leave
<1>2. FreeBlocks \subseteq Blocks
  BY DEF FreeBlocks
<1>3. SlotTypes'
  <2>1. CASE Admit(r)
    <3>1. \E c \in Chains, h \in 0 .. (MaxLen - Drafts - 1) \div G :
             \E bs \in CacheHits(c, h), first \in FreeBlocks :
                 /\ HitsUnsettled \/ Range(bs) \cap Unsettled = {}
                 /\ first \notin Range(bs)
                 /\ chain' = [chain EXCEPT ![r] = c]
                 /\ len' = [len EXCEPT ![r] = h * G]
                 /\ table' = [table EXCEPT ![r] = Append(bs, first)]
                 /\ label' = [label EXCEPT ![first] = <<>>]
      BY <2>1 DEF Admit
    <3>2. PICK c \in Chains, h \in 0 .. (MaxLen - Drafts - 1) \div G :
             \E bs \in CacheHits(c, h), first \in FreeBlocks :
                 /\ HitsUnsettled \/ Range(bs) \cap Unsettled = {}
                 /\ first \notin Range(bs)
                 /\ chain' = [chain EXCEPT ![r] = c]
                 /\ len' = [len EXCEPT ![r] = h * G]
                 /\ table' = [table EXCEPT ![r] = Append(bs, first)]
                 /\ label' = [label EXCEPT ![first] = <<>>]
      BY <3>1
    <3>3. PICK bs \in CacheHits(c, h), first \in FreeBlocks :
                 /\ len' = [len EXCEPT ![r] = h * G]
                 /\ table' = [table EXCEPT ![r] = Append(bs, first)]
      BY <3>2, Zenon
    <3>4. h \in Nat /\ G \in Nat
      BY DEF KvarnAssumption
    <3>5. bs \in Seq(Blocks)
      BY <3>4 DEF CacheHits
    <3>6. Append(bs, first) \in Seq(Blocks) /\ h * G \in Int
      BY <1>2, <3>4, <3>5
    <3> QED
      BY <1>1, <2>1, <3>3, <3>6 DEF SlotInv, SlotTypes, allocVars, Admit
  <2>2. ASSUME NEW n \in Int, NEW sure, NEW kept \in Int, Place(r, n, sure, kept)
        PROVE  SlotTypes'
    <3> DEFINE last == (len[r] + n + Drafts - 1) \div G
               need == last + 1 - Len(table[r])
               m == IF need > 0 THEN need ELSE 0
    <3>1. PICK new \in [1 .. m -> FreeBlocks] : table' = [table EXCEPT ![r] = table[r] \o new]
      BY <2>2 DEF Place
    <3>2. len[r] \in Int /\ table[r] \in Seq(Blocks) /\ Drafts \in Int /\ G \in Nat \ {0}
      BY DEF SlotInv, SlotTypes, KvarnAssumption
    <3>3. m \in Nat
      <4>1. last \in Int
        BY <3>2
      <4>2. Len(table[r]) \in Nat
        BY <3>2
      <4> HIDE DEF last
      <4>3. need \in Int
        BY <4>1, <4>2
      <4> HIDE DEF need
      <4> QED
        BY <4>3
    <3> HIDE DEF m
    <3>4. new \in Seq(Blocks)
      BY <1>2, <3>3
    <3>5. table[r] \o new \in Seq(Blocks)
      BY <3>2, <3>4
    <3> QED
      BY <1>1, <2>2, <3>1, <3>5 DEF SlotInv, SlotTypes, allocVars, Place
  <2>3. CASE PlacePrefill(r)
    BY <2>2, <2>3 DEF PlacePrefill, KvarnAssumption
  <2>4. CASE PlaceVerify(r)
    BY <2>2, <2>4 DEF PlaceVerify, KvarnAssumption
  <2>5. CASE Leave(r)
    BY <1>1, <2>5 DEF SlotInv, SlotTypes, allocVars, Leave
  <2> QED
    BY <2>1, <2>3, <2>4, <2>5
<1> QED
  BY <1>1, <1>3, SlotFrame

\* Dispatch, Store, Draft and Accept.
LEMMA PassStep ==
    ASSUME SlotInv, Dispatch \/ Store \/ Draft \/ Accept
    PROVE  SlotInv'
<1>1. SlotTypes'
  <2>1. CASE Accept
    BY <2>1 DEF SlotInv, SlotTypes, allocVars, Accept
  <2>2. CASE Dispatch \/ Store \/ Draft
    BY <2>2 DEF SlotInv, SlotTypes, allocVars, engineVars, Dispatch, Store, Draft
  <2> QED
    BY <2>1, <2>2
<1>2. UNCHANGED allocVars
  BY DEF Dispatch, Store, Draft, Accept
<1>3. CASE Store
  BY <1>1, <1>2, <1>3, SlotFrame DEF Store, engineVars
<1>4. CASE Dispatch \/ Draft \/ Accept
  BY <1>1, <1>2, <1>4, SlotFrame DEF Dispatch, Draft, Accept
<1> QED
  BY <1>3, <1>4

\* Build: the slots that are given up are counted once each, because a block
\* that is flushed is no retired sink and is not given up as partial.
LEMMA BuildStep == ASSUME KvarnAssumption, SlotInv, Build PROVE SlotInv'
<1> DEFINE written == WrittenBlocks
           marked  == SinksMarked(written)
           needed  == Needed(written, marked)
           current == marked \ Relabelled(needed)
           walked  == IF pass = 0 THEN UNION {WalkBack(r, current) : r \in Scheduled} ELSE {}
           unused  == IF pass = 0 THEN held \ (needed \union walked) ELSE {}
           retire  == {b \in unused : Complete(b) /\ b \in current}
           flush   == walked \union {b \in unused : Complete(b) /\ b \notin current}
           drop    == {b \in unused : ~Complete(b)}
           free    == freeSlots + SlotsGiven(flush, drop)
           fresh   == needed \ (held \ flush)
<1>1. PICK kept \in Kept(retired, needed), newest \in SetToSeqs(retire \ Range(retired)) :
         LET old     == kept \o newest
             evicted == Evicted(Cardinality(fresh) - free, old)
             gone    == flush \union drop \union evicted
             left    == free + Cardinality(evicted) - Cardinality(fresh)
         IN  /\ pc' = IF left < 0 THEN "exhausted" ELSE "store"
             /\ held' = (held \ gone) \union fresh
             /\ freeSlots' = left
             /\ tile' = [b \in Blocks |->
                           IF b \in flush \union evicted THEN pool[b]
                           ELSE IF b \in fresh THEN Empty ELSE tile[b]]
             /\ pool' = [b \in Blocks |->
                           IF b \in gone \union fresh THEN Empty ELSE pool[b]]
             /\ sinks' = current \ (drop \union evicted)
             /\ retired' \in Kept(old, evicted)
             /\ fill' = [b \in Blocks |-> IF b \in gone THEN 0
                                          ELSE IF b \in written THEN FillOf(b) ELSE fill[b]]
  BY DEF Build
<1> DEFINE old     == kept \o newest
           evicted == Evicted(Cardinality(fresh) - free, old)
           gone    == flush \union drop \union evicted
<1>2. /\ held' = (held \ gone) \union fresh
      /\ freeSlots' = free + Cardinality(evicted) - Cardinality(fresh)
      /\ sinks' = current \ (drop \union evicted)
      /\ retired' \in Kept(old, evicted)
      /\ fill' = [b \in Blocks |-> IF b \in gone THEN 0
                                   ELSE IF b \in written THEN FillOf(b) ELSE fill[b]]
  BY <1>1
<1>3. UNCHANGED <<pass, table, len, q, acc>>
  BY DEF Build, engineVars
<1>4. IsFiniteSet(Blocks) /\ held \subseteq Blocks /\ IsFiniteSet(held)
  BY FS_Subset DEF KvarnAssumption, SlotInv, SlotTypes
<1>5. written \subseteq Blocks /\ FirstBlocks \subseteq Blocks
  <2>1. ASSUME NEW r \in Scheduled PROVE table[r] \in Seq(Blocks) /\ table[r] # <<>>
    BY DEF Scheduled, Running, SlotInv, SlotTypes
  <2>2. ASSUME NEW r \in Scheduled, NEW k \in 0 .. Len(table[r]) - 1 PROVE BlockAt(r, k) \in Blocks
    BY <2>1 DEF BlockAt
  <2>3. written \subseteq Blocks
    BY <2>2 DEF WrittenBlocks, Written
  <2>4. ASSUME NEW r \in Scheduled PROVE BlockAt(r, 0) \in Blocks
    BY <2>1, <2>2
  <2> QED
    BY <2>3, <2>4 DEF FirstBlocks
<1>6. /\ needed \subseteq Blocks /\ written \subseteq needed
      /\ FirstBlocks \cap current \subseteq needed
  BY <1>5 DEF Needed
<1>7. Relabelled(needed) \subseteq needed /\ sinks \ needed \subseteq current
  BY DEF Relabelled, SinksMarked
<1>8. walked \subseteq held \ current
  BY DEF WalkBack
<1>9. Range(kept) \subseteq Range(retired) \ needed /\ kept \in Seq(Blocks)
  BY <1>4, KeptFacts DEF SlotInv, SlotTypes
<1> HIDE DEF written, marked, needed, current, walked
<1>10. /\ flush \subseteq held /\ drop \subseteq held /\ retire \subseteq held
       /\ flush \cap drop = {} /\ unused \cap (needed \union walked) = {}
       /\ (flush \union drop) \cap retire = {}
  BY <1>8
<1>11. Range(newest) \subseteq retire /\ newest \in Seq(Blocks)
  <2>1. retire \ Range(retired) \subseteq Blocks
    BY <1>4, <1>10
  <2>2. IsFiniteSet(retire \ Range(retired))
    BY <1>4, <2>1, FS_Subset
  <2>3. newest \in Seq(retire \ Range(retired)) /\ Range(newest) \subseteq retire \ Range(retired)
    BY <2>2, SeqsOfSet
  <2> HIDE DEF retire
  <2> QED
    BY <2>1, <2>3
<1>12. old \in Seq(Blocks) /\ Range(old) \subseteq Range(kept) \union Range(newest)
  BY <1>9, <1>11, RangeOfConcat
<1>13. \A b \in Range(old) : /\ b \in held /\ b \in current /\ Complete(b)
                             /\ b \notin needed /\ b \notin flush /\ b \notin drop
  <2>1. ASSUME NEW b \in Range(kept)
        PROVE  /\ b \in held /\ b \in current /\ Complete(b) /\ b \notin needed
    BY <1>7, <1>9 DEF SlotInv, RetiredAreSinks
  <2>2. ASSUME NEW b \in Range(newest)
        PROVE  /\ b \in held /\ b \in current /\ Complete(b) /\ b \notin needed
    BY <1>10, <1>11
  <2>3. ASSUME NEW b, b \in current, Complete(b) PROVE b \notin flush /\ b \notin drop
    BY <1>8, <2>3
  <2> QED
    BY <1>12, <2>1, <2>2, <2>3
<1> HIDE DEF old, unused, retire, flush, drop
<1>14. evicted \subseteq Range(old)
  BY <1>12 DEF Evicted, Range
<1>15. retired' \in Seq(Blocks) /\ Range(retired') \subseteq Range(old) \ evicted
  BY <1>2, <1>4, <1>12, KeptFacts
<1> HIDE DEF evicted
<1>16. SlotsAccounted'
  <2>1. fresh \subseteq Blocks /\ IsFiniteSet(fresh)
    BY <1>4, <1>6, FS_Subset
  <2>2. fresh \cap (held \ gone) = {}
    BY <1>13, <1>14
  <2>3. evicted \subseteq held /\ (flush \union drop) \cap evicted = {}
    BY <1>13, <1>14
  <2>4. IsFiniteSet(flush) /\ IsFiniteSet(drop) /\ IsFiniteSet(evicted)
    BY <1>4, <1>10, <2>3, FS_Subset
  <2>5. /\ Cardinality(gone) = Cardinality(flush) + Cardinality(drop) + Cardinality(evicted)
        /\ Cardinality(flush) \in Nat /\ Cardinality(drop) \in Nat
        /\ Cardinality(evicted) \in Nat
    <3>1. /\ IsFiniteSet(flush \union drop)
          /\ Cardinality(flush \union drop) = Cardinality(flush) + Cardinality(drop)
          /\ Cardinality(flush) \in Nat /\ Cardinality(drop) \in Nat
      BY <1>10, <2>4, DisjointUnion
    <3>2. /\ Cardinality((flush \union drop) \union evicted)
                = Cardinality(flush \union drop) + Cardinality(evicted)
          /\ Cardinality(evicted) \in Nat
      BY <2>3, <2>4, <3>1, DisjointUnion
    <3> QED
      BY <3>1, <3>2
  <2>6. gone \subseteq held /\ (held \ gone) \cap fresh = {}
    BY <1>10, <2>2, <2>3
  <2>7. Cardinality(held) \in Nat /\ Cardinality(fresh) \in Nat
    BY <1>4, <2>1, FS_CardinalityType
  <2> HIDE DEF fresh, gone
  <2>8. Cardinality(held') = Cardinality(held) - Cardinality(gone) + Cardinality(fresh)
    BY <1>2, <1>4, <2>1, <2>6, Exchange
  <2>9. freeSlots \in Int /\ PoolSlots \in Nat /\ freeSlots + Cardinality(held) = PoolSlots
    BY DEF SlotInv, SlotTypes, SlotsAccounted, KvarnAssumption
  <2> QED
    BY <1>2, <2>5, <2>7, <2>8, <2>9 DEF SlotsAccounted, SlotsGiven
<1>17. SlotTypes'
  <2>1. held' \subseteq Blocks
    BY <1>2, <1>4, <1>6
  <2>2. Cardinality(held') \in Nat
    BY <1>4, <2>1, FS_Subset, FS_CardinalityType
  <2>3. freeSlots' \in Int
    <3>1. IsFiniteSet(flush) /\ IsFiniteSet(drop) /\ IsFiniteSet(evicted) /\ IsFiniteSet(fresh)
      BY <1>4, <1>6, <1>10, <1>13, <1>14, FS_Subset
    <3>2. /\ Cardinality(flush) \in Nat /\ Cardinality(drop) \in Nat
          /\ Cardinality(evicted) \in Nat /\ Cardinality(fresh) \in Nat
      BY <3>1, FS_CardinalityType
    <3> HIDE DEF fresh
    <3> QED
      BY <1>2, <3>2 DEF SlotsGiven, SlotInv, SlotTypes
  <2> QED
    BY <1>3, <1>15, <2>1, <2>3 DEF SlotInv, SlotTypes
<1>18. RetiredAreSinks'
  <2> SUFFICES ASSUME NEW b \in Range(retired') PROVE b \in held' /\ b \in sinks' /\ Complete(b)'
    BY DEF RetiredAreSinks
  <2>1. b \in Range(old) /\ b \notin gone /\ b \in Blocks /\ b \notin written
    BY <1>4, <1>6, <1>13, <1>15
  <2>2. fill'[b] = fill[b]
    BY <1>2, <2>1
  <2>3. b \in held' /\ b \in sinks'
    BY <1>2, <1>13, <2>1
  <2> QED
    BY <1>13, <2>1, <2>2, <2>3 DEF Complete
<1>19. \A b \in FirstBlocks' \cap sinks' : b \in held' \ Range(retired')
  <2>1. FirstBlocks' = FirstBlocks
    BY <1>3 DEF FirstBlocks, Scheduled, Running, BlockAt
  <2> SUFFICES ASSUME NEW b \in FirstBlocks, b \in sinks' PROVE b \in held' \ Range(retired')
    BY <2>1
  <2>2. b \in needed /\ b \notin drop /\ b \notin evicted
    BY <1>2, <1>6
  <2>3. b \in held'
    BY <1>2, <2>2
  <2> QED
    BY <1>13, <1>15, <2>2, <2>3
<1> QED
  BY <1>16, <1>17, <1>18, <1>19 DEF SlotInv

\* Every step preserves the invariant.
LEMMA SlotStep == ASSUME KvarnAssumption PROVE SlotInv /\ [Next]_vars => SlotInv'
<1> SUFFICES ASSUME SlotInv, [Next]_vars PROVE SlotInv'
  OBVIOUS
<1>1. CASE UNCHANGED vars
  <2>1. SlotTypes' /\ UNCHANGED allocVars /\ UNCHANGED <<table, q, pc>>
    BY <1>1 DEF vars, engineVars, allocVars, SlotInv, SlotTypes
  <2> QED
    BY <2>1, SlotFrame
<1> QED
  BY <1>1, EngineStep, PassStep, BuildStep DEF Next

\* The invariant holds in every state.
THEOREM SlotInvariant == ASSUME KvarnAssumption PROVE KSpec => []SlotInv
<1> QED
  BY SlotInit, SlotStep, PTL DEF KSpec

\* No slot of the pool is lost and none is handed out twice, whatever is
\* flushed, retired, evicted and allocated in one build (kvarn_attn.py:863-1012).
THEOREM SlotsNeverLost == ASSUME KvarnAssumption PROVE KSpec => []SlotsAccounted
<1>1. SlotInv => SlotsAccounted
  BY DEF SlotInv
<1> QED
  BY <1>1, SlotInvariant, PTL

\* The first block of a scheduled request that is a sink has its slot, and is
\* not among the retired that an allocation may evict (kvarn_attn.py:835-862).
THEOREM SinksStay == ASSUME KvarnAssumption PROVE KSpec => []LiveSinkKept
<1>1. SlotInv => LiveSinkKept
  BY DEF SlotInv, LiveSinkKept
<1> QED
  BY <1>1, SlotInvariant, PTL
-----------------------------------------------------------------------------
(* Sums over requests.                                                     *)

\* A set of natural numbers with zero and the successor of each has all of them.
LEMMA AllNaturals ==
    ASSUME NEW T \in SUBSET Nat, 0 \in T, \A n \in T : n + 1 \in T
    PROVE  T = Nat
<1> SUFFICES ASSUME Nat \ T # {} PROVE FALSE
  OBVIOUS
<1>1. PICK m \in Nat \ T : \A k \in Nat \ T : <<k, m>> \notin OpToRel(<, Nat)
  BY NatLessThanWellFounded, WFMin
<1>2. \A k \in Nat \ T : ~ (k < m)
  BY <1>1 DEF OpToRel
<1>3. m \in Nat /\ m # 0
  OBVIOUS
<1>4. m - 1 \in Nat /\ m - 1 < m /\ (m - 1) + 1 = m
  BY <1>3
<1>5. m - 1 \in T
  BY <1>2, <1>4
<1> QED
  BY <1>4, <1>5

\* g is the sum of f over each subset of S, taken in the order that CHOOSE gives.
IsSum(S, f, g) ==
    g = [s \in SUBSET S |->
            IF s = {} THEN 0 ELSE LET x == CHOOSE x \in s : TRUE IN f[x] + g[s \ {x}]]

\* There is such a function, so the fold of the model is one.
LEMMA SumExists ==
    ASSUME NEW S, IsFiniteSet(S), NEW f \in [S -> Nat]
    PROVE  \E g \in [SUBSET S -> Nat] : IsSum(S, f, g) /\ FoldFunction(+, 0, f) = g[S]
<1> DEFINE First(s) == CHOOSE x \in s : TRUE
           Next1(g) == [s \in SUBSET S |->
                           IF s = {} THEN 0 ELSE f[First(s)] + g[s \ {First(s)}]]
           UpTo(n, g) == \A s \in SUBSET S : Cardinality(s) <= n => g[s] = Next1(g)[s]
           T == {n \in Nat : \E g \in [SUBSET S -> Nat] : UpTo(n, g)}
<1>1. ASSUME NEW s \in SUBSET S
      PROVE  /\ IsFiniteSet(s) /\ Cardinality(s) \in Nat
             /\ s # {} => First(s) \in s /\ First(s) \in S
                          /\ Cardinality(s \ {First(s)}) = Cardinality(s) - 1
             /\ Cardinality(s) = 0 <=> s = {}
  <2>1. IsFiniteSet(s)
    BY FS_Subset
  <2>2. s # {} => First(s) \in s
    OBVIOUS
  <2> HIDE DEF First
  <2> QED
    BY <2>1, <2>2, FS_CardinalityType, FS_RemoveElement, FS_EmptySet
<1>2. ASSUME NEW g \in [SUBSET S -> Nat] PROVE Next1(g) \in [SUBSET S -> Nat]
  <2>1. ASSUME NEW s \in SUBSET S, s # {} PROVE f[First(s)] + g[s \ {First(s)}] \in Nat
    <3>1. First(s) \in S /\ s \ {First(s)} \in SUBSET S
      BY <1>1, <2>1
    <3> HIDE DEF First
    <3> QED
      BY <3>1
  <2> HIDE DEF First
  <2> QED
    BY <2>1
<1>3. 0 \in T
  <2> DEFINE g == [s \in SUBSET S |-> 0]
  <2>1. UpTo(0, g)
    <3> HIDE DEF First
    <3> SUFFICES ASSUME NEW s \in SUBSET S, Cardinality(s) <= 0 PROVE g[s] = Next1(g)[s]
      OBVIOUS
    <3>0. Cardinality(s) \in Nat /\ (Cardinality(s) = 0 <=> s = {})
      BY FS_Subset, FS_CardinalityType, FS_EmptySet
    <3>1. s = {}
      BY <3>0
    <3> QED
      BY <3>1
  <2>2. g \in [SUBSET S -> Nat]
    OBVIOUS
  <2> QED
    BY <2>1, <2>2
<1>4. ASSUME NEW n \in T PROVE n + 1 \in T
  <2>1. PICK g \in [SUBSET S -> Nat] : UpTo(n, g)
    OBVIOUS
  <2>2. PICK h \in [SUBSET S -> Nat] : h = Next1(g)
    BY <1>2
  <2>3. ASSUME NEW s \in SUBSET S, Cardinality(s) <= n + 1 PROVE h[s] = Next1(h)[s]
    <3>1. CASE s = {}
      BY <2>2, <3>1
    <3>2. CASE s # {}
      <4>1. s \ {First(s)} \in SUBSET S /\ Cardinality(s \ {First(s)}) <= n
        BY <1>1, <2>3, <3>2
      <4>2. g[s \ {First(s)}] = h[s \ {First(s)}]
        BY <2>1, <2>2, <4>1
      <4> HIDE DEF First
      <4> QED
        BY <2>2, <3>2, <4>2
    <3> QED
      BY <3>1, <3>2
  <2>4. UpTo(n + 1, h)
    BY <2>3
  <2> HIDE DEF UpTo
  <2> QED
    BY <2>4
<1>5. Cardinality(S) \in T
  <2>1. T \in SUBSET Nat
    OBVIOUS
  <2> HIDE DEF T
  <2> QED
    BY <1>3, <1>4, <2>1, AllNaturals, FS_CardinalityType
<1>6. PICK g \in [SUBSET S -> Nat] : UpTo(Cardinality(S), g)
  BY <1>5
<1>7. IsSum(S, f, g)
  <2>1. ASSUME NEW s \in SUBSET S PROVE Cardinality(s) <= Cardinality(S)
    BY FS_Subset
  <2>2. g = Next1(g)
    BY <1>2, <1>6, <2>1
  <2> QED
    BY <2>2 DEF IsSum
<1>8. ASSUME NEW h, IsSum(S, f, h) PROVE h = g
  <2> DEFINE U == {n \in Nat : \A s \in SUBSET S : Cardinality(s) = n => h[s] = g[s]}
  <2>1. h = Next1(h) /\ g = Next1(g)
    BY <1>7, <1>8 DEF IsSum
  <2>2. 0 \in U
    BY <1>1, <2>1
  <2>3. ASSUME NEW n \in U PROVE n + 1 \in U
    <3> SUFFICES ASSUME NEW s \in SUBSET S, Cardinality(s) = n + 1 PROVE h[s] = g[s]
      OBVIOUS
    <3>1. s # {} /\ s \ {First(s)} \in SUBSET S /\ Cardinality(s \ {First(s)}) = n
      BY <1>1
    <3>2. h[s \ {First(s)}] = g[s \ {First(s)}]
      BY <3>1
    <3>3. h[s] = f[First(s)] + h[s \ {First(s)}] /\ g[s] = f[First(s)] + g[s \ {First(s)}]
      BY <2>1, <3>1
    <3> QED
      BY <3>2, <3>3
  <2>4. U = Nat
    <3> HIDE DEF U
    <3> QED
      BY <2>2, <2>3, AllNaturals DEF U
  <2>5. ASSUME NEW s \in SUBSET S PROVE h[s] = g[s]
    BY <1>1, <2>4
  <2>6. h = [s \in SUBSET S |-> h[s]] /\ g = [s \in SUBSET S |-> g[s]]
    <3> HIDE DEF First
    <3> QED
      BY <2>1
  <2> QED
    BY <2>5, <2>6
<1>9. FoldFunction(+, 0, f) = (CHOOSE h : IsSum(S, f, h))[S]
  <2>1. DOMAIN f = S
    OBVIOUS
  <2>2. FoldFunction(+, 0, f) = (CHOOSE h : IsSum(DOMAIN f, f, h))[DOMAIN f]
    BY Zenon DEF FoldFunction, FoldFunctionOnSet, MapThenFoldSet, IsSum
  <2> QED
    BY <2>1, <2>2
<1>10. (CHOOSE h : IsSum(S, f, h)) = g
  <2>1. IsSum(S, f, CHOOSE h : IsSum(S, f, h))
    BY <1>7
  <2> QED
    BY <1>8, <2>1
<1> QED
  BY <1>7, <1>9, <1>10

\* A sum may be begun with any of its terms.
Additive(S, f, g) ==
    g[{}] = 0 /\ \A s \in SUBSET S : \A x \in s : g[s] = f[x] + g[s \ {x}]

\* The sum over a set is any of its terms and the sum over the others.
LEMMA SumTerm ==
    ASSUME NEW S, IsFiniteSet(S), NEW f \in [S -> Nat], NEW g \in [SUBSET S -> Nat],
           IsSum(S, f, g)
    PROVE  Additive(S, f, g)
<1> DEFINE First(s) == CHOOSE x \in s : TRUE
           T == {n \in Nat : \A s \in SUBSET S : Cardinality(s) = n =>
                                \A x \in s : g[s] = f[x] + g[s \ {x}]}
<1>1. /\ g[{}] = 0
      /\ \A s \in SUBSET S : s # {} => /\ First(s) \in s
                                       /\ g[s] = f[First(s)] + g[s \ {First(s)}]
  BY DEF IsSum
<1> HIDE DEF First
<1>2. ASSUME NEW s \in SUBSET S
      PROVE  /\ IsFiniteSet(s) /\ Cardinality(s) \in Nat
             /\ \A x \in s : Cardinality(s \ {x}) = Cardinality(s) - 1
             /\ Cardinality(s) = 0 <=> s = {}
  BY FS_Subset, FS_CardinalityType, FS_RemoveElement, FS_EmptySet
<1>3. 0 \in T
  BY <1>2
<1>4. ASSUME NEW n \in T PROVE n + 1 \in T
  <2> SUFFICES ASSUME NEW s \in SUBSET S, Cardinality(s) = n + 1, NEW x \in s
               PROVE  g[s] = f[x] + g[s \ {x}]
    OBVIOUS
  <2>1. PICK c \in s : g[s] = f[c] + g[s \ {c}]
    BY <1>1
  <2>2. CASE c = x
    BY <2>1, <2>2
  <2>3. CASE c # x
    <3>1. /\ s \ {c} \in SUBSET S /\ x \in s \ {c} /\ Cardinality(s \ {c}) = n
          /\ s \ {x} \in SUBSET S /\ c \in s \ {x} /\ Cardinality(s \ {x}) = n
      BY <1>2, <2>3
    <3>2. /\ g[s \ {c}] = f[x] + g[(s \ {c}) \ {x}]
          /\ g[s \ {x}] = f[c] + g[(s \ {x}) \ {c}]
      BY <3>1
    <3> DEFINE v == g[(s \ {c}) \ {x}]
    <3>3. (s \ {c}) \ {x} = (s \ {x}) \ {c}
      OBVIOUS
    <3>4. (s \ {c}) \ {x} \in SUBSET S /\ x \in S /\ c \in S
      OBVIOUS
    <3>5. g[(s \ {c}) \ {x}] \in Nat /\ f[x] \in Nat /\ f[c] \in Nat
      BY <3>4
    <3>6. g[s \ {c}] = f[x] + v /\ g[s \ {x}] = f[c] + v /\ v \in Nat
      BY <3>2, <3>3, <3>5
    <3> HIDE DEF v
    <3>7. g[s] = f[c] + (f[x] + v)
      BY <2>1, <3>6
    <3>8. f[c] + (f[x] + v) = f[x] + (f[c] + v)
      BY <3>5, <3>6
    <3> QED
      BY <3>6, <3>7, <3>8
  <2> QED
    BY <2>2, <2>3
<1>5. T = Nat
  <2> HIDE DEF T
  <2> QED
    BY <1>3, <1>4, AllNaturals DEF T
<1> QED
  BY <1>1, <1>2, <1>5 DEF Additive

\* The fold of the model is a sum, in whatever order it is taken.
LEMMA FoldIsSum ==
    ASSUME NEW S, IsFiniteSet(S), NEW f \in [S -> Nat]
    PROVE  \E g \in [SUBSET S -> Nat] : Additive(S, f, g) /\ FoldFunction(+, 0, f) = g[S]
<1>1. PICK g \in [SUBSET S -> Nat] : IsSum(S, f, g) /\ FoldFunction(+, 0, f) = g[S]
  BY SumExists
<1>2. Additive(S, f, g)
  BY <1>1, SumTerm
<1> QED
  BY <1>1, <1>2

\* Nothing adds up to nothing.
LEMMA SumZero ==
    ASSUME NEW S, IsFiniteSet(S)
    PROVE  FoldFunction(+, 0, [x \in S |-> 0]) = 0
<1> DEFINE z == [x \in S |-> 0]
<1>1. PICK g \in [SUBSET S -> Nat] : Additive(S, z, g) /\ FoldFunction(+, 0, z) = g[S]
  <2> z \in [S -> Nat]
    OBVIOUS
  <2> HIDE DEF z
  <2> QED
    BY FoldIsSum
<1>2. g[{}] = 0 /\ \A s \in SUBSET S : \A x \in s : g[s] = z[x] + g[s \ {x}]
  BY <1>1 DEF Additive
<1> DEFINE T == {n \in Nat : \A s \in SUBSET S : Cardinality(s) = n => g[s] = 0}
<1>3. ASSUME NEW s \in SUBSET S
      PROVE  /\ Cardinality(s) \in Nat /\ \A x \in s : Cardinality(s \ {x}) = Cardinality(s) - 1
             /\ Cardinality(s) = 0 <=> s = {}
  BY FS_Subset, FS_CardinalityType, FS_RemoveElement, FS_EmptySet
<1>4. 0 \in T
  BY <1>2, <1>3
<1>5. ASSUME NEW n \in T PROVE n + 1 \in T
  <2> SUFFICES ASSUME NEW s \in SUBSET S, Cardinality(s) = n + 1 PROVE g[s] = 0
    OBVIOUS
  <2>1. PICK x \in s : TRUE
    BY <1>3
  <2>2. g[s \ {x}] = 0
    BY <1>3
  <2>3. z[x] = 0
    OBVIOUS
  <2> QED
    BY <1>2, <2>2, <2>3
<1>6. T = Nat
  <2>1. T \in SUBSET Nat
    OBVIOUS
  <2> HIDE DEF T
  <2> QED
    BY <1>4, <1>5, <2>1, AllNaturals
<1> QED
  BY <1>1, <1>3, <1>6

\* A sum of which one term, that was zero, changes.
LEMMA SumChange ==
    ASSUME NEW S, IsFiniteSet(S), NEW f \in [S -> Nat], NEW r \in S, f[r] = 0, NEW n \in Nat
    PROVE  FoldFunction(+, 0, [f EXCEPT ![r] = n]) = FoldFunction(+, 0, f) + n
<1>1. PICK h \in [S -> Nat] : h = [f EXCEPT ![r] = n]
  OBVIOUS
<1>2. PICK g \in [SUBSET S -> Nat] : Additive(S, f, g) /\ FoldFunction(+, 0, f) = g[S]
  BY FoldIsSum
<1>3. PICK k \in [SUBSET S -> Nat] : Additive(S, h, k) /\ FoldFunction(+, 0, h) = k[S]
  BY FoldIsSum
<1>4. g[{}] = 0 /\ \A s \in SUBSET S : \A x \in s : g[s] = f[x] + g[s \ {x}]
  BY <1>2 DEF Additive
<1>5. k[{}] = 0 /\ \A s \in SUBSET S : \A x \in s : k[s] = h[x] + k[s \ {x}]
  BY <1>3 DEF Additive
<1> DEFINE T == {m \in Nat : \A s \in SUBSET S : Cardinality(s) = m /\ r \notin s => g[s] = k[s]}
<1>6. ASSUME NEW s \in SUBSET S
      PROVE  /\ Cardinality(s) \in Nat /\ \A x \in s : Cardinality(s \ {x}) = Cardinality(s) - 1
             /\ Cardinality(s) = 0 <=> s = {}
  BY FS_Subset, FS_CardinalityType, FS_RemoveElement, FS_EmptySet
<1>7. 0 \in T
  BY <1>4, <1>5, <1>6
<1>8. ASSUME NEW m \in T PROVE m + 1 \in T
  <2> SUFFICES ASSUME NEW s \in SUBSET S, Cardinality(s) = m + 1, r \notin s PROVE g[s] = k[s]
    OBVIOUS
  <2>1. PICK x \in s : TRUE
    BY <1>6
  <2>2. g[s \ {x}] = k[s \ {x}]
    BY <1>6
  <2>3. h[x] = f[x]
    BY <1>1
  <2>4. g[s] = f[x] + g[s \ {x}] /\ k[s] = h[x] + k[s \ {x}]
    BY <1>4, <1>5
  <2> QED
    BY <2>2, <2>3, <2>4
<1>9. T = Nat
  <2>1. T \in SUBSET Nat
    OBVIOUS
  <2> HIDE DEF T
  <2> QED
    BY <1>7, <1>8, <2>1, AllNaturals
<1>10. g[S \ {r}] = k[S \ {r}] /\ g[S \ {r}] \in Nat
  BY <1>6, <1>9
<1>11. g[S] = f[r] + g[S \ {r}] /\ k[S] = h[r] + k[S \ {r}] /\ h[r] = n
  BY <1>1, <1>4, <1>5
<1>12. k[S] = g[S] + n
  BY <1>10, <1>11
<1> QED
  BY <1>1, <1>2, <1>3, <1>12

\* Sets of which each is bounded by a value of f: the size of their union, by the sum.
LEMMA UnionBound ==
    ASSUME NEW S, IsFiniteSet(S), NEW f \in [S -> Nat], NEW B, IsFiniteSet(B),
           NEW N \in [S -> SUBSET B], NEW w \in Nat, NEW c \in Nat,
           \A r \in S : w * Cardinality(N[r]) <= f[r] + c
    PROVE  w * Cardinality(UNION {N[r] : r \in S}) <= FoldFunction(+, 0, f) + Cardinality(S) * c
<1>1. PICK g \in [SUBSET S -> Nat] : Additive(S, f, g) /\ FoldFunction(+, 0, f) = g[S]
  BY FoldIsSum
<1>2. g[{}] = 0 /\ \A s \in SUBSET S : \A x \in s : g[s] = f[x] + g[s \ {x}]
  BY <1>1 DEF Additive
<1> DEFINE U(s) == UNION {N[r] : r \in s}
           T == {n \in Nat : \A s \in SUBSET S : Cardinality(s) = n =>
                                w * Cardinality(U(s)) <= g[s] + n * c}
<1>3. ASSUME NEW s \in SUBSET S
      PROVE  /\ Cardinality(s) \in Nat /\ \A x \in s : Cardinality(s \ {x}) = Cardinality(s) - 1
             /\ Cardinality(s) = 0 <=> s = {}
             /\ U(s) \subseteq B /\ IsFiniteSet(U(s)) /\ Cardinality(U(s)) \in Nat
  <2>1. U(s) \subseteq B
    OBVIOUS
  <2> HIDE DEF U
  <2> QED
    BY <2>1, FS_Subset, FS_CardinalityType, FS_RemoveElement, FS_EmptySet
<1>4. 0 \in T
  <2>1. U({}) = {}
    OBVIOUS
  <2>2. Cardinality(U({})) = 0
    BY <2>1, FS_EmptySet
  <2> HIDE DEF U
  <2> SUFFICES ASSUME NEW s \in SUBSET S, Cardinality(s) = 0
               PROVE  w * Cardinality(U(s)) <= g[s] + 0 * c
    OBVIOUS
  <2>3. s = {}
    BY <1>3
  <2> QED
    BY <1>2, <2>2, <2>3
<1>5. ASSUME NEW n \in T PROVE n + 1 \in T
  <2> SUFFICES ASSUME NEW s \in SUBSET S, Cardinality(s) = n + 1
               PROVE  w * Cardinality(U(s)) <= g[s] + (n + 1) * c
    OBVIOUS
  <2>0. \A x \in s : U(s) = U(s \ {x}) \union N[x]
    OBVIOUS
  <2> HIDE DEF U
  <2>1. PICK x \in s : TRUE
    BY <1>3
  <2>2. U(s) = U(s \ {x}) \union N[x]
    BY <2>0
  <2>3. s \ {x} \in SUBSET S /\ Cardinality(s \ {x}) = n
    BY <1>3
  <2>4. w * Cardinality(U(s \ {x})) <= g[s \ {x}] + n * c
    BY <2>3
  <2>5. IsFiniteSet(N[x]) /\ Cardinality(N[x]) \in Nat
    BY FS_Subset, FS_CardinalityType
  <2>6. Cardinality(U(s)) <= Cardinality(U(s \ {x})) + Cardinality(N[x])
    <3>1. U(s \ {x}) \cap N[x] \subseteq N[x]
      OBVIOUS
    <3>2. Cardinality(U(s \ {x}) \cap N[x]) \in Nat
      BY <2>5, <3>1, FS_Subset, FS_CardinalityType
    <3>3. Cardinality(U(s \ {x}) \union N[x])
            = Cardinality(U(s \ {x})) + Cardinality(N[x]) - Cardinality(U(s \ {x}) \cap N[x])
      BY <1>3, <2>3, <2>5, FS_Union
    <3> QED
      BY <1>3, <2>2, <2>3, <2>5, <3>2, <3>3
  <2>7. w * Cardinality(N[x]) <= f[x] + c /\ f[x] \in Nat
    OBVIOUS
  <2>8. g[s] = f[x] + g[s \ {x}] /\ g[s \ {x}] \in Nat
    BY <1>2, <2>3
  <2>9. \A i, j, k \in Nat : i <= j + k => w * i <= w * j + w * k
    OBVIOUS
  <2>10. w * Cardinality(U(s)) <= w * Cardinality(U(s \ {x})) + w * Cardinality(N[x])
    BY <1>3, <2>3, <2>5, <2>6, <2>9
  <2>11. (n + 1) * c = n * c + c /\ n * c \in Nat
    OBVIOUS
  <2>12. /\ w * Cardinality(U(s)) \in Nat /\ w * Cardinality(U(s \ {x})) \in Nat
         /\ w * Cardinality(N[x]) \in Nat
    BY <1>3, <2>3, <2>5
  <2> QED
    BY <2>4, <2>7, <2>8, <2>10, <2>11, <2>12
<1>6. T = Nat
  <2>1. T \in SUBSET Nat
    OBVIOUS
  <2> HIDE DEF T
  <2> QED
    BY <1>4, <1>5, <2>1, AllNaturals
<1>7. Cardinality(S) \in Nat /\ S \in SUBSET S
  BY FS_CardinalityType
<1> QED
  BY <1>1, <1>6, <1>7
-----------------------------------------------------------------------------
(* Division of tokens into blocks.                                        *)

\* Division.
LEMMA Division ==
    ASSUME NEW a \in Nat, NEW g \in Nat \ {0}
    PROVE  a \div g \in Nat /\ g * (a \div g) <= a /\ a < g * (a \div g) + g
  OBVIOUS

\* Division of any integer.
LEMMA DivisionOfInt ==
    ASSUME NEW a \in Int, NEW g \in Nat \ {0}
    PROVE  a \div g \in Int /\ g * (a \div g) <= a /\ (a < 0 => a \div g < 0)
<1>1. a \div g \in Int /\ g * (a \div g) <= a
  OBVIOUS
<1>2. a < 0 => a \div g < 0
  BY SMTT(20)
<1> QED
  BY <1>1, <1>2

\* Tokens that fill k blocks make up k blocks at least.
LEMMA DivisionAbove ==
    ASSUME NEW a \in Nat, NEW g \in Nat \ {0}, NEW k \in Nat, g * k <= a
    PROVE  k <= a \div g
  OBVIOUS
-----------------------------------------------------------------------------
(* Types.                                                                  *)

\* The blocks that hold a request of the largest length.
MaxBlocks == (MaxLen + G - 1) \div G

\* What the engine keeps of the requests: a table has no more blocks than the largest
\* request needs, and a step no more tokens than its budget.
EngineTypes ==
    /\ chain \in [Reqs -> Chains \union {NoChain}] /\ table \in [Reqs -> Seq(Blocks)]
    /\ len \in [Reqs -> 0 .. MaxLen] /\ q \in [Reqs -> 0 .. Budget] /\ acc \in [Reqs -> 0 .. Budget]
    /\ label \in [Blocks -> {<<>>} \union (Chains \X (0 .. MaxLen))]
    /\ \A r \in Reqs :
          /\ table[r] # <<>> => chain[r] \in Chains
          /\ acc[r] <= q[r] /\ Len(table[r]) <= MaxBlocks /\ len[r] <= G * Len(table[r])
          /\ q[r] > 0 => /\ table[r] # <<>> /\ len[r] + q[r] + Drafts <= MaxLen
                        /\ len[r] + q[r] + Drafts <= G * Len(table[r])
    /\ TokensPlaced \in 0 .. Budget

\* What is kept of the blocks.
DataTypes ==
    /\ fill \in [Blocks -> 0 .. G] /\ sinks \subseteq Blocks
    /\ pool \in [Blocks -> Contents] /\ tile \in [Blocks -> Contents]

\* The types of all variables but those of the slots, which SlotInv has.
TypeInv ==
    /\ pc \in {"schedule", "build", "store", "attend", "exhausted"} /\ pass \in 0 .. Drafts
    /\ EngineTypes /\ DataTypes

\* The constants are numbers.
LEMMA Numbers ==
    ASSUME KvarnAssumption
    PROVE  /\ IsFiniteSet(Reqs) /\ IsFiniteSet(Blocks) /\ G \in Nat \ {0} /\ Budget \in Nat \ {0}
           /\ Spec \in Nat /\ Drafts \in Nat /\ PoolSlots \in Nat /\ MaxLen \in Nat
           /\ MaxBlocks \in Nat
<1>1. /\ IsFiniteSet(Reqs) /\ IsFiniteSet(Blocks) /\ G \in Nat \ {0} /\ Budget \in Nat \ {0}
      /\ Spec \in Nat /\ Drafts \in Nat /\ PoolSlots \in Nat /\ MaxLen \in Nat
  BY DEF KvarnAssumption
<1>2. MaxLen + G - 1 \in Nat
  BY <1>1
<1> QED
  BY <1>1, <1>2, Division DEF MaxBlocks

\* A block that starts before the largest length is one of the MaxBlocks.
LEMMA BlockBound ==
    ASSUME KvarnAssumption, NEW h \in Nat, G * h < MaxLen PROVE h + 1 <= MaxBlocks
<1>1. MaxLen + G - 1 \in Nat /\ h + 1 \in Nat
  BY Numbers
<1>2. G * (h + 1) = G * h + G /\ G * h \in Nat
  BY Numbers
<1>3. G * (h + 1) <= MaxLen + G - 1
  BY <1>2, Numbers
<1> QED
  BY <1>1, <1>3, Numbers, DivisionAbove DEF MaxBlocks

\* A block has a token at least.
LEMMA BlocksBelowLength == ASSUME KvarnAssumption PROVE MaxBlocks <= MaxLen
<1>1. MaxLen + G - 1 \in Nat
  BY Numbers
<1>2. G * MaxBlocks <= MaxLen + G - 1
  BY <1>1, Numbers, Division DEF MaxBlocks
<1>3. SUFFICES ASSUME MaxBlocks >= MaxLen + 1 PROVE FALSE
  BY Numbers
<1>4. PICK d \in Nat : MaxBlocks = MaxLen + 1 + d
  <2>1. MaxBlocks - (MaxLen + 1) \in Nat /\ MaxBlocks = MaxLen + 1 + (MaxBlocks - (MaxLen + 1))
    BY <1>3, Numbers
  <2> QED
    BY <2>1
<1>5. PICK e \in Nat : G = e + 1
  <2>1. G - 1 \in Nat /\ G = (G - 1) + 1
    BY Numbers
  <2> QED
    BY <2>1
<1>6. G * MaxBlocks = G * MaxLen + G + G * d /\ G * d \in Nat
  BY <1>4, Numbers
<1>7. G * MaxLen = e * MaxLen + MaxLen /\ e * MaxLen \in Nat
  BY <1>5, Numbers
<1> QED
  BY <1>2, <1>6, <1>7, Numbers

\* Rows that no one wrote are contents of a block.
LEMMA EmptyIsContents == Empty \in Contents
  BY DEF Empty, Contents

\* The types hold in the initial state.
LEMMA TypeInit == ASSUME KvarnAssumption PROVE Init => TypeInv
<1> SUFFICES ASSUME Init PROVE TypeInv
  OBVIOUS
<1>1. TokensPlaced = 0
  BY Numbers, SumZero, Zenon DEF Init, TokensPlaced, Total
<1>2. DataTypes
  BY Numbers, EmptyIsContents DEF Init, DataTypes
<1>3. EngineTypes
  BY <1>1, Numbers DEF Init, EngineTypes
<1> QED
  BY <1>2, <1>3, Numbers DEF Init, TypeInv

\* A request that is admitted has blocks for its hits and one more.
LEMMA TypeAdmit ==
    ASSUME KvarnAssumption, TypeInv, NEW r \in Reqs, Admit(r) PROVE EngineTypes'
<1>1. UNCHANGED <<q, acc>> /\ r \notin Running
  BY DEF Admit
<1>2. PICK c \in Chains, h \in 0 .. (MaxLen - Drafts - 1) \div G :
         \E bs \in CacheHits(c, h), first \in FreeBlocks :
             /\ chain' = [chain EXCEPT ![r] = c]
             /\ len'   = [len EXCEPT ![r] = h * G]
             /\ table' = [table EXCEPT ![r] = Append(bs, first)]
             /\ label' = [label EXCEPT ![first] = <<>>]
  BY Zenon DEF Admit
<1>3. PICK bs \in CacheHits(c, h), first \in FreeBlocks :
             /\ chain' = [chain EXCEPT ![r] = c]
             /\ len'   = [len EXCEPT ![r] = h * G]
             /\ table' = [table EXCEPT ![r] = Append(bs, first)]
             /\ label' = [label EXCEPT ![first] = <<>>]
  BY <1>2
<1>4. h \in Nat /\ h * G <= MaxLen - Drafts - 1 /\ h * G \in Nat
  <2>1. MaxLen - Drafts - 1 >= 0
    <3>1. SUFFICES ASSUME MaxLen - Drafts - 1 < 0 PROVE FALSE
      BY Numbers
    <3>2. (MaxLen - Drafts - 1) \div G < 0 /\ (MaxLen - Drafts - 1) \div G \in Int
      BY <3>1, Numbers, DivisionOfInt
    <3> QED
      BY <3>2, Numbers
  <2> DEFINE a == MaxLen - Drafts - 1
  <2>2. a \in Nat
    BY <2>1, Numbers
  <2>3. a \div G \in Nat /\ G * (a \div G) <= a
    BY <2>2, Numbers, Division
  <2> DEFINE d == a \div G
  <2>4. h \in Nat /\ h <= d
    BY <1>2, <2>3
  <2> HIDE DEF a, d
  <2>5. G * h <= G * d /\ h * G = G * h /\ G * h \in Nat /\ G * d \in Nat
    BY <2>3, <2>4, Numbers DEF d
  <2> QED
    BY <2>2, <2>3, <2>4, <2>5 DEF a, d
<1>5. h + 1 <= MaxBlocks /\ h * G \in 0 .. MaxLen
  <2>1. G * h < MaxLen /\ h * G = G * h
    BY <1>4, Numbers
  <2>2. h * G \in 0 .. MaxLen
    BY <1>4, Numbers
  <2> QED
    BY <1>4, <2>1, <2>2, BlockBound
<1>6. bs \in [1 .. h -> Blocks] /\ first \in Blocks
  BY DEF CacheHits, FreeBlocks
<1>7. /\ Append(bs, first) \in Seq(Blocks) /\ Len(Append(bs, first)) = h + 1
      /\ Append(bs, first) # <<>>
  BY <1>4, <1>6
<1>8. q[r] = 0
  BY <1>1 DEF Running, TypeInv, EngineTypes
<1>9. TokensPlaced' = TokensPlaced
  BY <1>1 DEF TokensPlaced
<1>10. h * G <= G * (h + 1) /\ h + 1 \in Nat
  <2>1. G * (h + 1) = G * h + G /\ h * G = G * h
    BY <1>4, Numbers
  <2> QED
    BY <1>4, <2>1, Numbers
<1> DEFINE row == Append(bs, first)
           start == h * G
<1>11. /\ row \in Seq(Blocks) /\ row # <<>> /\ Len(row) <= MaxBlocks /\ start <= G * Len(row)
       /\ start \in 0 .. MaxLen
  BY <1>5, <1>7, <1>10, Zenon
<1>12. /\ chain' = [chain EXCEPT ![r] = c] /\ len' = [len EXCEPT ![r] = start]
       /\ table' = [table EXCEPT ![r] = row]
  BY <1>3
<1> HIDE DEF row, start
<1>13. label' \in [Blocks -> {<<>>} \union (Chains \X (0 .. MaxLen))]
  BY <1>3, <1>6 DEF TypeInv, EngineTypes
<1>14. chain' \in [Reqs -> Chains \union {NoChain}] /\ table' \in [Reqs -> Seq(Blocks)]
       /\ len' \in [Reqs -> 0 .. MaxLen]
  BY <1>11, <1>12 DEF TypeInv, EngineTypes
<1>15. ASSUME NEW s \in Reqs
       PROVE  /\ table'[s] # <<>> => chain'[s] \in Chains
              /\ acc'[s] <= q'[s] /\ Len(table'[s]) <= MaxBlocks /\ len'[s] <= G * Len(table'[s])
              /\ q'[s] > 0 => /\ table'[s] # <<>> /\ len'[s] + q'[s] + Drafts <= MaxLen
                             /\ len'[s] + q'[s] + Drafts <= G * Len(table'[s])
  <2>1. CASE s = r
    <3>1. chain'[s] = c /\ table'[s] = row /\ len'[s] = start /\ q'[s] = 0 /\ acc'[s] <= q'[s]
      BY <1>1, <1>8, <1>12, <2>1 DEF TypeInv, EngineTypes
    <3> QED
      BY <1>11, <3>1
  <2>2. CASE s # r
    <3>1. /\ chain'[s] = chain[s] /\ table'[s] = table[s] /\ len'[s] = len[s] /\ q'[s] = q[s]
          /\ acc'[s] = acc[s]
      BY <1>1, <1>12, <2>2 DEF TypeInv, EngineTypes
    <3> QED
      BY <3>1 DEF TypeInv, EngineTypes
  <2> QED
    BY <2>1, <2>2
<1> QED
  BY <1>1, <1>9, <1>13, <1>14, <1>15 DEF TypeInv, EngineTypes

\* Fewer tokens are fewer blocks.
LEMMA FewerBlocks ==
    ASSUME NEW g \in Nat \ {0}, NEW d \in Nat, NEW t \in Nat, g * d <= g * t PROVE d <= t
<1>1. SUFFICES ASSUME t + 1 <= d PROVE FALSE
  OBVIOUS
<1>2. PICK e \in Nat : d = t + 1 + e
  <2>1. d - (t + 1) \in Nat /\ d = t + 1 + (d - (t + 1))
    BY <1>1
  <2> QED
    BY <2>1
<1>3. g * (t + 1 + e) = g * t + g + g * e /\ g * e \in Nat /\ g * t \in Nat
  OBVIOUS
<1> QED
  BY <1>2, <1>3

\* The blocks that a request gets with n tokens and the drafts that follow.
LEMMA RowLength ==
    ASSUME NEW g \in Nat \ {0}, NEW l \in Nat, NEW n \in Nat \ {0}, NEW d \in Nat, NEW t \in Nat
    PROVE  LET last == (l + n + d - 1) \div g
               need == last + 1 - t
               m    == IF need > 0 THEN need ELSE 0
           IN  /\ m \in Nat /\ last \in Nat /\ g * last < l + n + d
               /\ m = 0 \/ t + m = last + 1
               /\ l + n + d <= g * (t + m)
<1> DEFINE a    == l + n + d - 1
           last == a \div g
           need == last + 1 - t
           m    == IF need > 0 THEN need ELSE 0
<1>1. a \in Nat /\ a + 1 = l + n + d
  OBVIOUS
<1>2. last \in Nat /\ g * last <= a /\ a < g * last + g
  <2> HIDE DEF a
  <2> QED
    BY <1>1, Division
<1>3. m = IF last + 1 - t > 0 THEN last + 1 - t ELSE 0
  OBVIOUS
<1> HIDE DEF last, need, m
<1>4. m \in Nat /\ (m = 0 \/ t + m = last + 1) /\ t + m >= last + 1
  BY <1>2, <1>3
<1>5. l + n + d <= g * (t + m)
  <2>1. PICK e \in Nat : t + m = last + 1 + e
    <3>1. t + m - (last + 1) \in Nat /\ t + m = last + 1 + (t + m - (last + 1))
      BY <1>2, <1>4
    <3> QED
      BY <3>1
  <2>2. g * (last + 1 + e) = g * last + g + g * e /\ g * e \in Nat /\ g * last \in Nat
    BY <1>2
  <2> HIDE DEF a
  <2> QED
    BY <1>1, <1>2, <2>1, <2>2
<1>6. g * last < l + n + d
  <2>1. g * last \in Nat
    BY <1>2
  <2> HIDE DEF a
  <2> QED
    BY <1>1, <1>2, <2>1
<1> QED
  BY <1>2, <1>4, <1>5, <1>6 DEF last, need, m

\* The tokens of a batch when one request gets some.
LEMMA TotalChange ==
    ASSUME NEW S, IsFiniteSet(S), NEW f \in [S -> Nat], NEW r \in S, f[r] = 0, NEW n \in Nat
    PROVE  Total([f EXCEPT ![r] = n]) = Total(f) + n
<1>1. FoldFunction(+, 0, [f EXCEPT ![r] = n]) = FoldFunction(+, 0, f) + n
  BY SumChange, Zenon
<1> QED
  BY <1>1, Zenon DEF Total

\* A request that is placed has blocks for its tokens.
LEMMA TypePlace ==
    ASSUME KvarnAssumption, TypeInv, NEW r \in Reqs, NEW n \in Nat \ {0}, NEW sure \in 0 .. n,
           NEW kept \in 0 .. n, Place(r, n, sure, kept)
    PROVE  EngineTypes'
<1> DEFINE last == (len[r] + n + Drafts - 1) \div G
           need == last + 1 - Len(table[r])
           m == IF need > 0 THEN need ELSE 0
           full(row, b) == \E k \in 0 .. (len[r] + sure) \div G - 1 : row[k + 1] = b
           labels(row, new) == [b \in Blocks |->
               IF full(row, b) THEN <<chain[r], (CHOOSE k \in DOMAIN row : row[k] = b) - 1>>
               ELSE IF b \in Range(new) THEN <<>> ELSE label[b]]
<1>1. /\ r \in Running /\ q[r] = 0 /\ TokensPlaced + n <= Budget /\ len[r] + n + Drafts <= MaxLen
      /\ q' = [q EXCEPT ![r] = n] /\ acc' = [acc EXCEPT ![r] = kept] /\ UNCHANGED <<chain, len>>
  BY DEF Place
<1>2. PICK new \in [1 .. m -> FreeBlocks] :
         /\ table' = [table EXCEPT ![r] = table[r] \o new]
         /\ label' = labels(table[r] \o new, new)
  BY Zenon DEF Place
<1>3. /\ len[r] \in Nat /\ table[r] \in Seq(Blocks) /\ Len(table[r]) \in Nat /\ n \in Nat
      /\ Len(table[r]) <= MaxBlocks /\ table[r] # <<>> /\ chain[r] \in Chains
  BY <1>1, Numbers DEF TypeInv, EngineTypes, Running
<1>4. /\ m \in Nat /\ Len(table[r]) + m <= MaxBlocks
      /\ len[r] + n + Drafts <= G * (Len(table[r]) + m)
  <2>1. /\ m \in Nat /\ last \in Nat /\ G * last < len[r] + n + Drafts
        /\ m = 0 \/ Len(table[r]) + m = last + 1
        /\ len[r] + n + Drafts <= G * (Len(table[r]) + m)
    <3>1. /\ G \in Nat \ {0} /\ len[r] \in Nat /\ n \in Nat \ {0} /\ Drafts \in Nat
          /\ Len(table[r]) \in Nat
      BY <1>3, Numbers
    <3> QED
      BY <3>1, RowLength, Zenon
  <2>2. last + 1 <= MaxBlocks
    <3>1. G * last < MaxLen
      <4> DEFINE w == G * last
      <4>1. w \in Nat /\ w < len[r] + n + Drafts
        BY <2>1, Numbers
      <4> HIDE DEF w
      <4>2. w < MaxLen
        BY <1>1, <1>3, <4>1, Numbers
      <4> QED
        BY <4>2 DEF w
    <3> QED
      BY <2>1, <3>1, BlockBound
  <2> HIDE DEF last, m, need
  <2> QED
    BY <1>3, <2>1, <2>2, Numbers
<1> HIDE DEF m, need, last
<1>5. new \in Seq(Blocks) /\ Len(new) = m
  BY <1>2, <1>4 DEF FreeBlocks
<1>6. PICK row \in Seq(Blocks) : row = table[r] \o new /\ Len(row) = Len(table[r]) + m
  <2>1. ASSUME NEW s \in Seq(Blocks), NEW t \in Seq(Blocks)
        PROVE  s \o t \in Seq(Blocks) /\ Len(s \o t) = Len(s) + Len(t)
    OBVIOUS
  <2> QED
    BY <1>3, <1>5, <2>1, Zenon
<1>7. row # <<>> /\ Len(row) <= MaxBlocks /\ len[r] + n + Drafts <= G * Len(row)
  BY <1>3, <1>4, <1>6
<1>8. label' \in [Blocks -> {<<>>} \union (Chains \X (0 .. MaxLen))]
  <2>1. ASSUME NEW b \in Blocks, full(row, b)
        PROVE  (CHOOSE k \in DOMAIN row : row[k] = b) - 1 \in 0 .. MaxLen
    <3> DEFINE d == (len[r] + sure) \div G
    <3>1. PICK k \in 0 .. d - 1 : row[k + 1] = b
      BY <2>1
    <3>2. len[r] + sure \in Nat /\ len[r] + sure <= G * Len(row) /\ Len(row) \in Nat
      <4> DEFINE w == G * Len(row)
      <4>1. w \in Nat /\ len[r] + n + Drafts <= w
        BY <1>6, <1>7, Numbers
      <4> HIDE DEF w
      <4>2. len[r] + sure <= w /\ len[r] + sure \in Nat
        BY <1>3, <4>1, Numbers
      <4> QED
        BY <1>6, <4>2 DEF w
    <3>3. d \in Nat /\ G * d <= len[r] + sure
      BY <3>2, Numbers, Division
    <3> HIDE DEF d
    <3>4. d <= Len(row)
      <4>1. G * d <= G * Len(row)
        <5> DEFINE w == G * Len(row)
                   v == G * d
        <5>1. v \in Nat /\ w \in Nat /\ v <= len[r] + sure /\ len[r] + sure <= w
          BY <3>2, <3>3, Numbers
        <5> HIDE DEF v, w
        <5>2. v <= w
          BY <3>2, <5>1
        <5> QED
          BY <5>2 DEF v, w
      <4> QED
        BY <3>2, <3>3, <4>1, Numbers, FewerBlocks
    <3>5. k + 1 \in DOMAIN row
      BY <3>1, <3>2, <3>3, <3>4
    <3>6. (CHOOSE i \in DOMAIN row : row[i] = b) \in DOMAIN row
      BY <3>1, <3>5
    <3> DEFINE i == CHOOSE i \in DOMAIN row : row[i] = b
    <3>7. i \in 1 .. Len(row)
      BY <3>6
    <3> HIDE DEF i
    <3>8. i - 1 \in 0 .. MaxLen
      BY <1>7, <3>2, <3>7, Numbers, BlocksBelowLength
    <3> QED
      BY <3>8 DEF i
  <2>2. ASSUME NEW b \in Blocks
        PROVE  labels(row, new)[b] \in {<<>>} \union (Chains \X (0 .. MaxLen))
    <3>1. label[b] \in {<<>>} \union (Chains \X (0 .. MaxLen))
      BY DEF TypeInv, EngineTypes
    <3>2. labels(row, new)[b] =
              IF full(row, b) THEN <<chain[r], (CHOOSE k \in DOMAIN row : row[k] = b) - 1>>
              ELSE IF b \in Range(new) THEN <<>> ELSE label[b]
      OBVIOUS
    <3>3. full(row, b) => <<chain[r], (CHOOSE k \in DOMAIN row : row[k] = b) - 1>>
                              \in Chains \X (0 .. MaxLen)
      <4> DEFINE i == (CHOOSE k \in DOMAIN row : row[k] = b) - 1
      <4>1. full(row, b) => i \in 0 .. MaxLen
        BY <2>1
      <4> HIDE DEF full, i
      <4>2. full(row, b) => <<chain[r], i>> \in Chains \X (0 .. MaxLen)
        BY <1>3, <4>1
      <4> QED
        BY <4>2, Zenon DEF i
    <3> HIDE DEF full, labels
    <3> QED
      BY <3>1, <3>2, <3>3, Zenon
  <2>3. label' = labels(row, new)
    BY <1>2, <1>6
  <2> HIDE DEF full
  <2> QED
    BY <2>2, <2>3
<1>9. TokensPlaced' \in 0 .. Budget /\ n <= Budget
  <2>1. q \in [Reqs -> Nat]
    BY Numbers DEF TypeInv, EngineTypes
  <2>3. Total([q EXCEPT ![r] = n]) = Total(q) + n
    <3>1. IsFiniteSet(Reqs) /\ q[r] = 0 /\ n \in Nat
      BY <1>1, Numbers
    <3> QED
      BY <2>1, <3>1, TotalChange
  <2>4. TokensPlaced' = TokensPlaced + n
    BY <1>1, <2>3, Zenon DEF TokensPlaced
  <2>5. TokensPlaced \in 0 .. Budget
    BY DEF TypeInv, EngineTypes
  <2> QED
    BY <1>1, <2>4, <2>5, Numbers
<1>10. n \in 1 .. Budget /\ n \in 0 .. Budget /\ kept \in 0 .. Budget /\ kept <= n
  BY <1>9, Numbers
<1>11. table' = [table EXCEPT ![r] = row]
  BY <1>2, <1>6
<1>12. /\ table' \in [Reqs -> Seq(Blocks)] /\ chain' \in [Reqs -> Chains \union {NoChain}]
       /\ len' \in [Reqs -> 0 .. MaxLen]
       /\ q' \in [Reqs -> 0 .. Budget] /\ acc' \in [Reqs -> 0 .. Budget]
  BY <1>1, <1>6, <1>10, <1>11 DEF TypeInv, EngineTypes
<1>13. ASSUME NEW s \in Reqs
       PROVE  /\ table'[s] # <<>> => chain'[s] \in Chains
              /\ acc'[s] <= q'[s] /\ Len(table'[s]) <= MaxBlocks /\ len'[s] <= G * Len(table'[s])
              /\ q'[s] > 0 => /\ table'[s] # <<>> /\ len'[s] + q'[s] + Drafts <= MaxLen
                             /\ len'[s] + q'[s] + Drafts <= G * Len(table'[s])
  <2>1. CASE s = r
    <3>1. /\ chain'[s] = chain[r] /\ table'[s] = row /\ len'[s] = len[r] /\ q'[s] = n
          /\ acc'[s] = kept
      BY <1>1, <1>11, <2>1 DEF TypeInv, EngineTypes
    <3>2. len[r] <= G * Len(row)
      <4> DEFINE w == G * Len(row)
      <4>1. w \in Nat /\ len[r] + n + Drafts <= w
        BY <1>6, <1>7, Numbers
      <4> HIDE DEF w
      <4>2. len[r] <= w
        BY <1>3, <4>1, Numbers
      <4> QED
        BY <4>2 DEF w
    <3> QED
      BY <1>1, <1>3, <1>7, <1>10, <3>1, <3>2
  <2>2. CASE s # r
    <3>1. /\ chain'[s] = chain[s] /\ table'[s] = table[s] /\ len'[s] = len[s] /\ q'[s] = q[s]
          /\ acc'[s] = acc[s]
      BY <1>1, <1>11, <2>2 DEF TypeInv, EngineTypes
    <3> QED
      BY <3>1 DEF TypeInv, EngineTypes
  <2> QED
    BY <2>1, <2>2
<1> QED
  BY <1>8, <1>9, <1>12, <1>13 DEF TypeInv, EngineTypes
-----------------------------------------------------------------------------
(* The steps keep the types.                                               *)

\* The steps of the engine and of the pass keep what the engine knows.
LEMMA TypeEngine ==
    ASSUME KvarnAssumption, TypeInv, [Next]_vars PROVE EngineTypes'
<1>1. ASSUME NEW r \in Reqs, PlacePrefill(r) PROVE EngineTypes'
  <2>1. PICK n \in 1 .. Budget : Place(r, n, n, n)
    BY <1>1 DEF PlacePrefill
  <2>2. n \in Nat \ {0} /\ n \in 0 .. n
    BY Numbers
  <2> QED
    BY <2>1, <2>2, TypePlace
<1>2. ASSUME NEW r \in Reqs, PlaceVerify(r) PROVE EngineTypes'
  <2>1. PICK d \in 1 .. Spec, k \in 0 .. Spec : k <= d /\ Place(r, d + 1, 1, k + 1)
    BY <1>2 DEF PlaceVerify
  <2>2. d + 1 \in Nat \ {0} /\ 1 \in 0 .. d + 1 /\ k + 1 \in 0 .. d + 1
    BY <2>1, Numbers
  <2> QED
    BY <2>1, <2>2, TypePlace
<1>3. ASSUME NEW r \in Reqs, Leave(r) PROVE EngineTypes'
  <2>1. /\ table' = [table EXCEPT ![r] = <<>>] /\ len' = [len EXCEPT ![r] = 0]
        /\ chain' = [chain EXCEPT ![r] = NoChain] /\ UNCHANGED <<q, acc, label>>
        /\ r \in Running /\ Scheduled = {}
    BY <1>3 DEF Leave
  <2>2. q[r] = 0
    <3>1. q[r] \in 0 .. Budget /\ ~(q[r] > 0)
      BY <2>1 DEF TypeInv, EngineTypes, Scheduled
    <3> QED
      BY <3>1, Numbers
  <2>3. TokensPlaced' = TokensPlaced
    BY <2>1 DEF TokensPlaced
  <2>4. /\ table' \in [Reqs -> Seq(Blocks)] /\ chain' \in [Reqs -> Chains \union {NoChain}]
        /\ len' \in [Reqs -> 0 .. MaxLen]
    BY <2>1, Numbers DEF TypeInv, EngineTypes
  <2>5. ASSUME NEW s \in Reqs
        PROVE  /\ table'[s] # <<>> => chain'[s] \in Chains
               /\ acc'[s] <= q'[s] /\ Len(table'[s]) <= MaxBlocks
               /\ len'[s] <= G * Len(table'[s])
               /\ q'[s] > 0 => /\ table'[s] # <<>> /\ len'[s] + q'[s] + Drafts <= MaxLen
                              /\ len'[s] + q'[s] + Drafts <= G * Len(table'[s])
    <3>1. CASE s = r
      <4>1. /\ table'[s] = <<>> /\ len'[s] = 0 /\ q'[s] = 0 /\ acc'[s] <= q'[s]
        BY <2>1, <2>2, <3>1 DEF TypeInv, EngineTypes
      <4>2. Len(<<>>) = 0 /\ G * 0 = 0
        BY Numbers
      <4> QED
        BY <4>1, <4>2, Numbers
    <3>2. CASE s # r
      <4>1. /\ chain'[s] = chain[s] /\ table'[s] = table[s] /\ len'[s] = len[s] /\ q'[s] = q[s]
            /\ acc'[s] = acc[s]
        BY <2>1, <3>2 DEF TypeInv, EngineTypes
      <4> QED
        BY <4>1 DEF TypeInv, EngineTypes
    <3> QED
      BY <3>1, <3>2
  <2> QED
    BY <2>1, <2>3, <2>4, <2>5 DEF TypeInv, EngineTypes
<1>4. ASSUME Accept PROVE EngineTypes'
  <2>1. /\ len' = [r \in Reqs |-> len[r] + acc[r]] /\ q' = [r \in Reqs |-> 0]
        /\ acc' = [r \in Reqs |-> 0] /\ UNCHANGED <<chain, table, label>>
    BY <1>4 DEF Accept
  <2>2. TokensPlaced' = 0
    <3>1. Total([r \in Reqs |-> 0]) = 0
      BY Numbers, SumZero, Zenon DEF Total
    <3> QED
      BY <2>1, <3>1 DEF TokensPlaced
  <2>3. ASSUME NEW s \in Reqs
        PROVE  len[s] + acc[s] \in 0 .. MaxLen /\ len[s] + acc[s] <= G * Len(table[s])
    <3> DEFINE w == G * Len(table[s])
    <3>1. /\ len[s] \in 0 .. MaxLen /\ q[s] \in 0 .. Budget /\ acc[s] \in 0 .. Budget
          /\ acc[s] <= q[s] /\ len[s] <= w
          /\ q[s] > 0 => len[s] + q[s] + Drafts <= MaxLen /\ len[s] + q[s] + Drafts <= w
      BY DEF TypeInv, EngineTypes
    <3>2. w \in Nat
      <4>1. Len(table[s]) \in Nat
        BY DEF TypeInv, EngineTypes
      <4> QED
        BY <4>1, Numbers
    <3> HIDE DEF w
    <3>3. len[s] + acc[s] \in 0 .. MaxLen /\ len[s] + acc[s] <= w
      BY <3>1, <3>2, Numbers
    <3> QED
      BY <3>3 DEF w
  <2>4. /\ len' \in [Reqs -> 0 .. MaxLen] /\ q' \in [Reqs -> 0 .. Budget]
        /\ acc' \in [Reqs -> 0 .. Budget]
    BY <2>1, <2>3, Numbers
  <2>5. ASSUME NEW s \in Reqs
        PROVE  /\ table'[s] # <<>> => chain'[s] \in Chains
               /\ acc'[s] <= q'[s] /\ Len(table'[s]) <= MaxBlocks
               /\ len'[s] <= G * Len(table'[s]) /\ ~ q'[s] > 0
    BY <2>1, <2>3 DEF TypeInv, EngineTypes
  <2> QED
    BY <2>1, <2>2, <2>4, <2>5, Numbers DEF TypeInv, EngineTypes
<1>5. ASSUME UNCHANGED <<chain, table, len, q, acc, label>> PROVE EngineTypes'
  <2>1. TokensPlaced' = TokensPlaced
    BY <1>5 DEF TokensPlaced
  <2> QED
    BY <1>5, <2>1 DEF TypeInv, EngineTypes
<1>6. CASE Dispatch \/ Build \/ Store \/ Draft \/ UNCHANGED vars
  BY <1>5, <1>6 DEF Dispatch, Build, Store, Draft, vars, engineVars
<1> QED
  BY <1>1, <1>2, <1>3, <1>4, <1>6, TypeAdmit DEF Next

\* What the builder is told of a scheduled request.
LEMMA LengthsOf ==
    ASSUME KvarnAssumption, TypeInv, NEW r \in Scheduled
    PROVE  /\ r \in Reqs /\ table[r] \in Seq(Blocks) /\ table[r] # <<>>
           /\ Len(table[r]) \in Nat \ {0}
           /\ len[r] \in Nat /\ q[r] \in Nat \ {0} /\ acc[r] \in Nat /\ acc[r] <= q[r]
           /\ Committed(r) \in Nat /\ SeqLen(r) \in Nat \ {0} /\ len[r] <= Committed(r)
           /\ SeqLen(r) <= len[r] + q[r] + Drafts
           /\ len[r] + q[r] + Drafts <= MaxLen
           /\ \A k \in 0 .. Len(table[r]) - 1 : BlockAt(r, k) \in Blocks
<1>1. /\ r \in Reqs /\ table[r] \in Seq(Blocks) /\ table[r] # <<>>
      /\ len[r] \in Nat /\ q[r] \in Nat /\ q[r] > 0 /\ acc[r] \in Nat /\ acc[r] <= q[r]
      /\ len[r] + q[r] + Drafts <= MaxLen /\ pass \in 0 .. Drafts
  BY Numbers DEF TypeInv, EngineTypes, Scheduled, Running
<1>2. Len(table[r]) \in Nat \ {0} /\ \A k \in 0 .. Len(table[r]) - 1 : BlockAt(r, k) \in Blocks
  BY <1>1 DEF BlockAt
<1>3. CASE pass = 0
  <2>1. SeqLen(r) = len[r] + q[r] /\ Committed(r) = len[r]
    BY <1>1, <1>3 DEF SeqLen, QueryLen, Committed
  <2> QED
    BY <1>1, <1>2, <2>1, Numbers
<1>4. CASE pass # 0
  <2>1. SeqLen(r) = len[r] + acc[r] + pass /\ Committed(r) = len[r] + acc[r] + pass - 1
    BY <1>1, <1>4 DEF SeqLen, QueryLen, Committed
  <2>2. /\ len[r] + acc[r] + pass - 1 \in Nat /\ len[r] + acc[r] + pass \in Nat \ {0}
        /\ len[r] <= len[r] + acc[r] + pass - 1
        /\ len[r] + acc[r] + pass <= len[r] + q[r] + Drafts
    <3>1. pass \in Nat \ {0} /\ pass <= Drafts
      BY <1>1, <1>4, Numbers
    <3>2. ASSUME NEW l \in Nat, NEW a \in Nat, NEW p \in Nat \ {0}, NEW n \in Nat, NEW d \in Nat,
                 a <= n, p <= d
          PROVE  /\ l + a + p - 1 \in Nat /\ l + a + p \in Nat \ {0} /\ l <= l + a + p - 1
                 /\ l + a + p <= l + n + d
      BY <3>2
    <3> QED
      BY <1>1, <3>1, <3>2, Numbers
  <2>3. q[r] \in Nat \ {0}
    BY <1>1
  <2> QED
    BY <1>1, <1>2, <2>1, <2>2, <2>3, Zenon
<1> QED
  BY <1>3, <1>4

\* The blocks that a pass writes are blocks of the requests, and how full they are
\* afterwards is the number of their tokens.
LEMMA WrittenFacts ==
    ASSUME KvarnAssumption, TypeInv
    PROVE  /\ WrittenBlocks \subseteq Blocks /\ FirstBlocks \subseteq Blocks
           /\ \A b \in WrittenBlocks : FillOf(b) \in 0 .. G
<1>1. \A r \in Scheduled : \A k \in 0 .. Len(table[r]) - 1 : BlockAt(r, k) \in Blocks
  BY LengthsOf
<1>2. WrittenBlocks \subseteq Blocks
  BY <1>1 DEF WrittenBlocks, Written
<1>3. FirstBlocks \subseteq Blocks
  <2>1. ASSUME NEW r \in Scheduled PROVE BlockAt(r, 0) \in Blocks
    BY LengthsOf
  <2> QED
    BY <2>1 DEF FirstBlocks
<1>4. ASSUME NEW r \in Scheduled, NEW k \in Written(r) PROVE RowsOf(r, k) \in 0 .. G
  <2> DEFINE n == SeqLen(r) - 1
  <2>1. n \in Nat /\ k \in Nat /\ k <= n \div G
    BY LengthsOf DEF Written
  <2>2. n \div G \in Nat /\ G * (n \div G) <= n
    BY <2>1, Numbers, Division
  <2>3. G * k <= n
    <3> DEFINE d == n \div G
    <3>1. d \in Nat /\ k <= d /\ G * d <= n
      BY <2>1, <2>2
    <3> HIDE DEF d, n
    <3>2. PICK e \in Nat : d = k + e
      <4>1. d - k \in Nat /\ d = k + (d - k)
        BY <2>1, <3>1
      <4> QED
        BY <4>1
    <3>3. G * (k + e) = G * k + G * e /\ G * e \in Nat /\ G * k \in Nat
      BY <2>1, Numbers
    <3> QED
      BY <2>1, <3>1, <3>2, <3>3
  <2>4. k * G = G * k /\ (k + 1) * G = G * k + G /\ G * k \in Nat
    BY <2>1, Numbers
  <2> DEFINE v == G * k
  <2>5. /\ v \in Nat /\ SeqLen(r) \in Nat /\ v <= SeqLen(r) - 1
        /\ RowsOf(r, k) = IF SeqLen(r) < v + G THEN SeqLen(r) - v ELSE G
    BY <2>3, <2>4, LengthsOf DEF RowsOf
  <2> HIDE DEF v
  <2> QED
    BY <2>5, Numbers
<1>5. ASSUME NEW b \in WrittenBlocks PROVE FillOf(b) \in 0 .. G
  <2> DEFINE r == CHOOSE x \in Scheduled : \E y \in Written(x) : BlockAt(x, y) = b
             k == CHOOSE y \in Written(r) : BlockAt(r, y) = b
  <2>1. \E x \in Scheduled : \E y \in Written(x) : BlockAt(x, y) = b
    BY DEF WrittenBlocks
  <2>2. r \in Scheduled /\ \E y \in Written(r) : BlockAt(r, y) = b
    BY <2>1
  <2> HIDE DEF r
  <2>3. k \in Written(r)
    BY <2>2
  <2>4. FillOf(b) = RowsOf(r, k)
    BY DEF FillOf, r
  <2> HIDE DEF k
  <2> QED
    BY <1>4, <2>2, <2>3, <2>4
<1> QED
  BY <1>2, <1>3, <1>5

\* What a build does to the data of the blocks.
LEMMA TypeBuild ==
    ASSUME KvarnAssumption, SlotInv, TypeInv, Build
    PROVE  DataTypes' /\ pc' \in {"store", "exhausted"}
<1> DEFINE written == WrittenBlocks
           marked  == SinksMarked(written)
           needed  == Needed(written, marked)
           current == marked \ Relabelled(needed)
           walked  == IF pass = 0 THEN UNION {WalkBack(r, current) : r \in Scheduled} ELSE {}
           unused  == IF pass = 0 THEN held \ (needed \union walked) ELSE {}
           retire  == {b \in unused : Complete(b) /\ b \in current}
           flush   == walked \union {b \in unused : Complete(b) /\ b \notin current}
           drop    == {b \in unused : ~Complete(b)}
           free    == freeSlots + SlotsGiven(flush, drop)
           fresh   == needed \ (held \ flush)
<1>1. PICK kept \in Kept(retired, needed), newest \in SetToSeqs(retire \ Range(retired)) :
         LET old     == kept \o newest
             evicted == Evicted(Cardinality(fresh) - free, old)
             gone    == flush \union drop \union evicted
             left    == free + Cardinality(evicted) - Cardinality(fresh)
         IN  /\ pc' = IF left < 0 THEN "exhausted" ELSE "store"
             /\ held' = (held \ gone) \union fresh
             /\ freeSlots' = left
             /\ tile' = [b \in Blocks |->
                           IF b \in flush \union evicted THEN pool[b]
                           ELSE IF b \in fresh THEN Empty ELSE tile[b]]
             /\ pool' = [b \in Blocks |->
                           IF b \in gone \union fresh THEN Empty ELSE pool[b]]
             /\ sinks' = current \ (drop \union evicted)
             /\ retired' \in Kept(old, evicted)
             /\ fill' = [b \in Blocks |-> IF b \in gone THEN 0
                                          ELSE IF b \in written THEN FillOf(b) ELSE fill[b]]
  BY DEF Build
<1> DEFINE old     == kept \o newest
           evicted == Evicted(Cardinality(fresh) - free, old)
           gone    == flush \union drop \union evicted
           left    == free + Cardinality(evicted) - Cardinality(fresh)
<1>2. pc' = IF left < 0 THEN "exhausted" ELSE "store"
  BY <1>1
<1>3. tile' = [b \in Blocks |-> IF b \in flush \union evicted THEN pool[b]
                               ELSE IF b \in fresh THEN Empty ELSE tile[b]]
  BY <1>1
<1>4. pool' = [b \in Blocks |-> IF b \in gone \union fresh THEN Empty ELSE pool[b]]
  BY <1>1
<1>5. fill' = [b \in Blocks |-> IF b \in gone THEN 0
                               ELSE IF b \in written THEN FillOf(b) ELSE fill[b]]
  BY <1>1
<1>6. sinks' = current \ (drop \union evicted)
  BY <1>1
<1>7. sinks' \subseteq Blocks
  <2>1. current \subseteq sinks \union FirstBlocks
    BY DEF SinksMarked
  <2>2. sinks \subseteq Blocks
    BY DEF TypeInv, DataTypes
  <2> HIDE DEF current
  <2> QED
    BY <1>6, <2>1, <2>2, WrittenFacts
<1>8. \A b \in written : FillOf(b) \in 0 .. G
  BY WrittenFacts
<1> HIDE DEF written, flush, fresh, gone, evicted, left
<1>9. tile' \in [Blocks -> Contents] /\ pool' \in [Blocks -> Contents]
  BY <1>3, <1>4, EmptyIsContents DEF TypeInv, DataTypes
<1>10. fill' \in [Blocks -> 0 .. G]
  <2>1. \A b \in Blocks : fill[b] \in 0 .. G
    BY DEF TypeInv, DataTypes
  <2>2. 0 \in 0 .. G
    BY Numbers
  <2> DEFINE F(b) == IF b \in gone THEN 0 ELSE IF b \in written THEN FillOf(b) ELSE fill[b]
  <2>3. ASSUME NEW b \in Blocks PROVE F(b) \in 0 .. G
    BY <1>8, <2>1, <2>2
  <2>4. fill' = [b \in Blocks |-> F(b)]
    BY <1>5
  <2> HIDE DEF F
  <2> QED
    BY <2>3, <2>4
<1> QED
  BY <1>2, <1>7, <1>9, <1>10 DEF DataTypes

\* What a pass writes are values of the requests or rejected tokens.
LEMMA TypeStore == ASSUME KvarnAssumption, SlotInv, TypeInv, Store PROVE DataTypes'
<1> DEFINE V == {Value(c, p) : c \in Chains, p \in 0 .. MaxLen} \union {Junk}
<1>0. Contents = [0 .. G - 1 -> V]
  BY DEF Contents
<1>1. ASSUME NEW w \in Scheduled \X (0 .. MaxLen)
      PROVE  Stored(w) \in V
  <2>1. w[1] \in Scheduled /\ w[2] \in 0 .. MaxLen
    OBVIOUS
  <2>2. chain[w[1]] \in Chains
    BY <2>1 DEF Scheduled, Running, TypeInv, EngineTypes
  <2> QED
    BY <2>1, <2>2 DEF Stored
<1> HIDE DEF V
<1> DEFINE row(b, i) == IF Writes(b, i) = {} THEN pool[b][i]
                        ELSE Stored(CHOOSE w \in Writes(b, i) : TRUE)
<1>2. ASSUME NEW b \in Blocks, NEW i \in 0 .. G - 1
      PROVE  row(b, i) \in V
  <2>1. pool[b] \in Contents
    BY DEF TypeInv, DataTypes
  <2>2. pool[b][i] \in V
    BY <1>0, <2>1
  <2>3. Writes(b, i) # {} => (CHOOSE w \in Writes(b, i) : TRUE) \in Scheduled \X (0 .. MaxLen)
    BY DEF Writes
  <2> QED
    BY <1>1, <2>2, <2>3
<1> DEFINE stored == held \cap WrittenBlocks
<1>3. pool' = [b \in Blocks |-> IF b \notin stored THEN pool[b]
                               ELSE [i \in 0 .. G - 1 |-> row(b, i)]]
  BY DEF Store
<1> HIDE DEF row, stored
<1>4. ASSUME NEW b \in Blocks PROVE [i \in 0 .. G - 1 |-> row(b, i)] \in Contents
  BY <1>0, <1>2
<1>5. pool' \in [Blocks -> Contents]
  BY <1>3, <1>4 DEF TypeInv, DataTypes
<1> QED
  BY <1>5 DEF Store, allocVars, TypeInv, DataTypes

\* Every step keeps the types.
LEMMA TypeStep == ASSUME KvarnAssumption PROVE SlotInv /\ TypeInv /\ [Next]_vars => TypeInv'
<1> SUFFICES ASSUME SlotInv, TypeInv, [Next]_vars PROVE TypeInv'
  OBVIOUS
<1>1. EngineTypes'
  BY TypeEngine
<1>2. CASE Build
  BY <1>1, <1>2, TypeBuild DEF Build, TypeInv
<1>3. CASE Store
  BY <1>1, <1>3, TypeStore DEF Store, TypeInv
<1>4. ASSUME UNCHANGED <<allocVars, dataVars>> PROVE DataTypes'
  BY <1>4 DEF allocVars, dataVars, TypeInv, DataTypes
<1>5. ASSUME NEW r \in Reqs, Admit(r) \/ PlacePrefill(r) \/ PlaceVerify(r) \/ Leave(r)
      PROVE  TypeInv'
  <2>1. pc' = pc /\ pass' = pass /\ UNCHANGED <<allocVars, dataVars>>
    BY <1>5 DEF Admit, PlacePrefill, PlaceVerify, Place, Leave
  <2> QED
    BY <1>1, <1>4, <2>1 DEF TypeInv
<1>6. CASE Dispatch
  BY <1>1, <1>4, <1>6 DEF Dispatch, TypeInv
<1>7. CASE Draft
  BY <1>1, <1>4, <1>7, Numbers DEF Draft, TypeInv
<1>8. CASE Accept
  BY <1>1, <1>4, <1>8, Numbers DEF Accept, TypeInv
<1>9. CASE UNCHANGED vars
  BY <1>1, <1>4, <1>9 DEF vars, TypeInv
<1> QED
  BY <1>2, <1>3, <1>5, <1>6, <1>7, <1>8, <1>9 DEF Next

\* The types hold in every state.
LEMMA TypeInvariant == ASSUME KvarnAssumption PROVE KSpec => [](SlotInv /\ TypeInv)
<1> QED
  BY SlotInit, SlotStep, TypeInit, TypeStep, PTL DEF KSpec

\* Every variable has its type: tables hold blocks of the group, the tokens of the
\* batch stay within the budget, and what is stored are values (kvarn_attn.py:640-1012).
THEOREM PoolTypes == ASSUME KvarnAssumption PROVE KSpec => []TypeOK
<1>1. SlotInv /\ TypeInv => TypeOK
  BY DEF SlotInv, SlotTypes, TypeInv, EngineTypes, DataTypes, TypeOK
<1> QED
  BY <1>1, TypeInvariant, PTL
-----------------------------------------------------------------------------
(* The blocks that need a slot in a step.                                  *)

\* A block that a request touches in a step: its first one and those that hold
\* the tokens of the step and of the drafts that follow.
Places(r) == {k \in 0 .. Len(table[r]) - 1 :
                 \/ k = 0
                 \/ len[r] \div G <= k /\ k <= (len[r] + q[r] + Drafts - 1) \div G}

\* These blocks themselves.
TouchedBy(r) == {BlockAt(r, k) : k \in Places(r)}

\* The blocks that the batch touches.
Touched == UNION {TouchedBy(r) : r \in Scheduled}

\* What the pool is to hold: a first block, a block that was begun and one that is
\* begun for every request and the blocks of the budget, or all the blocks of the
\* largest requests.
SlotsSuffice ==
    \/ Budget + Cardinality(Reqs) * (3 * G + Drafts - 2) <= G * PoolSlots
    \/ Cardinality(Reqs) * MaxBlocks <= PoolSlots

\* While a step is under way the slots are held by what it touches and by retired sinks.
TailInv ==
    /\ pc = "schedule" => pass = 0
    /\ pc # "exhausted"
    /\ pc \in {"store", "attend"} \/ (pc = "build" /\ pass # 0) =>
           held \ Range(retired) \subseteq Touched

\* The size of an image.
LEMMA ImageSize ==
    ASSUME NEW K, IsFiniteSet(K), NEW f, DOMAIN f = K
    PROVE  IsFiniteSet({f[k] : k \in K}) /\ Cardinality({f[k] : k \in K}) <= Cardinality(K)
<1> DEFINE T == {f[k] : k \in K}
           g == [k \in K |-> f[k]]
<1>1. g \in Surjection(K, T)
  BY DEF Surjection
<1> HIDE DEF T, g
<1>2. IsFiniteSet(T) /\ Cardinality(T) <= Cardinality(K)
  BY <1>1, FS_Surjection
<1> QED
  BY <1>2 DEF T

\* A longer sequence of tokens ends in the same block or a later one.
LEMMA DivisionMonotone ==
    ASSUME NEW g \in Nat \ {0}, NEW a \in Nat, NEW b \in Nat, a <= b
    PROVE  a \div g <= b \div g
<1>1. a \div g \in Nat /\ b \div g \in Nat /\ g * (a \div g) <= a
  BY Division
<1> DEFINE d == a \div g
<1>2. d \in Nat /\ g * d \in Nat /\ g * d <= b
  BY <1>1
<1> HIDE DEF d
<1>3. d <= b \div g
  BY <1>2, DivisionAbove
<1> QED
  BY <1>3 DEF d

\* Blocks of w tokens each, if every request has at most those of f[r] tokens and
\* of c more: those of all requests.
LEMMA TotalBound ==
    ASSUME NEW S, IsFiniteSet(S), NEW f \in [S -> Nat], NEW B, IsFiniteSet(B),
           NEW N \in [S -> SUBSET B], NEW w \in Nat, NEW c \in Nat,
           \A r \in S : w * Cardinality(N[r]) <= f[r] + c
    PROVE  w * Cardinality(UNION {N[r] : r \in S}) <= Total(f) + Cardinality(S) * c
<1>1. w * Cardinality(UNION {N[r] : r \in S}) <= FoldFunction(+, 0, f) + Cardinality(S) * c
  BY UnionBound, Zenon
<1> QED
  BY <1>1, Zenon DEF Total

\* A pass writes blocks that the step touches, and needs the first blocks besides.
LEMMA NeededTouched ==
    ASSUME KvarnAssumption, TypeInv, NEW marked
    PROVE  Needed(WrittenBlocks, marked) \subseteq Touched
<1>1. ASSUME NEW r \in Scheduled, NEW k \in Written(r) PROVE k \in Places(r)
  <2>1. /\ len[r] \in Nat /\ q[r] \in Nat \ {0} /\ Committed(r) \in Nat /\ SeqLen(r) \in Nat \ {0}
        /\ len[r] <= Committed(r) /\ SeqLen(r) <= len[r] + q[r] + Drafts
    BY LengthsOf
  <2> DEFINE a == SeqLen(r) - 1
             b == len[r] + q[r] + Drafts - 1
  <2>2. a \in Nat /\ b \in Nat /\ a <= b
    BY <2>1, Numbers
  <2>3. len[r] \div G <= Committed(r) \div G
    BY <2>1, Numbers, DivisionMonotone
  <2> HIDE DEF a, b
  <2>4. a \div G <= b \div G
    BY <2>2, Numbers, DivisionMonotone
  <2>5. /\ k \in 0 .. Len(table[r]) - 1 /\ Committed(r) \div G <= k /\ k <= a \div G
    BY DEF Written, a
  <2>6. k \in Nat
    BY <2>5, LengthsOf
  <2>7. /\ len[r] \div G \in Nat /\ Committed(r) \div G \in Nat /\ a \div G \in Nat
        /\ b \div G \in Nat
    BY <2>1, <2>2, Numbers, Division
  <2>8. len[r] \div G <= k /\ k <= b \div G
    BY <2>3, <2>4, <2>5, <2>6, <2>7
  <2> QED
    BY <2>5, <2>8 DEF Places, b
<1>2. ASSUME NEW r \in Scheduled PROVE 0 \in Places(r)
  BY LengthsOf DEF Places
<1>3. WrittenBlocks \subseteq Touched
  BY <1>1 DEF WrittenBlocks, Touched, TouchedBy
<1>4. FirstBlocks \subseteq Touched
  BY <1>2 DEF FirstBlocks, Touched, TouchedBy
<1> QED
  BY <1>3, <1>4 DEF Needed

\* A request touches no more blocks than it has, and no more than its tokens fill
\* but for its first block and the ends of the row.
LEMMA TouchedSize ==
    ASSUME KvarnAssumption, TypeInv, NEW r \in Scheduled
    PROVE  /\ TouchedBy(r) \subseteq Blocks /\ IsFiniteSet(TouchedBy(r))
           /\ Cardinality(TouchedBy(r)) \in Nat
           /\ Cardinality(TouchedBy(r)) <= MaxBlocks
           /\ G * Cardinality(TouchedBy(r)) <= q[r] + (3 * G + Drafts - 2)
<1> DEFINE x == len[r]
           y == len[r] + q[r] + Drafts - 1
           a == x \div G
           e == y \div G
           K == Places(r)
           n == Len(table[r])
<1>1. /\ r \in Reqs /\ n \in Nat \ {0} /\ x \in Nat /\ q[r] \in Nat \ {0} /\ y \in Nat /\ x <= y
      /\ y = x + q[r] + Drafts - 1 /\ n <= MaxBlocks
  <2>1. /\ r \in Reqs /\ n \in Nat \ {0} /\ len[r] \in Nat /\ q[r] \in Nat \ {0} /\ n <= MaxBlocks
    BY LengthsOf DEF TypeInv, EngineTypes
  <2>2. Drafts \in Nat
    BY Numbers
  <2>3. x = len[r] /\ y = len[r] + q[r] + Drafts - 1
    OBVIOUS
  <2> HIDE DEF x, y, n
  <2>4. /\ x \in Nat /\ y \in Nat /\ x <= y /\ y = x + q[r] + Drafts - 1
    BY <2>1, <2>2, <2>3, SMTT(30)
  <2> QED
    BY <2>1, <2>4
<1>2. K = {k \in 0 .. n - 1 : k = 0 \/ (a <= k /\ k <= e)}
  BY DEF Places
<1> HIDE DEF x, y
<1>3. a \in Nat /\ e \in Nat /\ x < G * a + G /\ G * e <= y /\ a <= e
  BY <1>1, Numbers, Division, DivisionMonotone
<1> HIDE DEF a, e, K, n
<1>4. IsFiniteSet(K) /\ Cardinality(K) \in Nat /\ Cardinality(K) <= n
  <2>1. IsFiniteSet(0 .. n - 1) /\ Cardinality(0 .. n - 1) = n
    <3>1. 0 \in Int /\ n - 1 \in Int /\ ~(0 > n - 1) /\ n - 1 - 0 + 1 = n
      BY <1>1
    <3> QED
      BY <3>1, FS_Interval
  <2>2. K \in SUBSET (0 .. n - 1)
    BY <1>2
  <2> QED
    BY <2>1, <2>2, FS_Subset, FS_CardinalityType
<1>5. Cardinality(K) <= e - a + 2
  <2>1. IsFiniteSet(a .. e) /\ Cardinality(a .. e) = e - a + 1
    BY <1>3, FS_Interval
  <2>2. IsFiniteSet((a .. e) \union {0}) /\ Cardinality((a .. e) \union {0}) <= e - a + 2
    <3>1. 0 \in a .. e => Cardinality((a .. e) \union {0}) = Cardinality(a .. e)
      BY <2>1, FS_AddElement
    <3>2. 0 \notin a .. e => Cardinality((a .. e) \union {0}) = Cardinality(a .. e) + 1
      BY <2>1, FS_AddElement
    <3>3. IsFiniteSet((a .. e) \union {0})
      BY <2>1, FS_AddElement
    <3> QED
      BY <1>3, <2>1, <3>1, <3>2, <3>3
  <2>3. K \in SUBSET ((a .. e) \union {0})
    BY <1>1, <1>2, <1>3
  <2>4. Cardinality(K) <= Cardinality((a .. e) \union {0})
    BY <2>2, <2>3, FS_Subset
  <2>5. Cardinality((a .. e) \union {0}) \in Nat
    BY <2>2, FS_CardinalityType
  <2> QED
    BY <1>3, <1>4, <2>2, <2>4, <2>5
<1>6. IsFiniteSet(TouchedBy(r)) /\ Cardinality(TouchedBy(r)) <= Cardinality(K)
  <2> DEFINE f == [k \in K |-> BlockAt(r, k)]
  <2>1. TouchedBy(r) = {f[k] : k \in K}
    BY DEF TouchedBy, K
  <2>2. DOMAIN f = K
    OBVIOUS
  <2> HIDE DEF f
  <2> QED
    BY <1>4, <2>1, <2>2, ImageSize
<1>7. TouchedBy(r) \subseteq Blocks
  <2>1. \A k \in 0 .. n - 1 : BlockAt(r, k) \in Blocks
    BY LengthsOf DEF n
  <2>2. K \subseteq 0 .. n - 1
    BY <1>2
  <2> QED
    BY <2>1, <2>2 DEF TouchedBy, K
<1>8. Cardinality(TouchedBy(r)) \in Nat
  BY <1>6, FS_CardinalityType
<1> DEFINE t == Cardinality(TouchedBy(r))
<1>9. t \in Nat /\ t <= n /\ t <= e - a + 2
  BY <1>1, <1>3, <1>4, <1>5, <1>6, <1>8
<1> HIDE DEF t
<1>10. G * t <= q[r] + (3 * G + Drafts - 2)
  <2>1. PICK d \in Nat : e + 2 = a + t + d
    <3>1. e + 2 - (a + t) \in Nat /\ e + 2 = a + t + (e + 2 - (a + t))
      BY <1>3, <1>9
    <3> QED
      BY <3>1
  <2>2. G * (e + 2) = G * e + 2 * G /\ G * (a + t + d) = G * a + G * t + G * d
    BY <1>3, <1>9, Numbers
  <2>3. G * e \in Nat /\ G * a \in Nat /\ G * t \in Nat /\ G * d \in Nat
    BY <1>3, <1>9, Numbers
  <2> QED
    BY <1>1, <1>3, <2>1, <2>2, <2>3, Numbers
<1> QED
  BY <1>1, <1>6, <1>7, <1>8, <1>9, <1>10, Numbers DEF t

\* A pool of the size that is asked for has slots for what a step touches.
LEMMA TouchedFits ==
    ASSUME KvarnAssumption, TypeInv, SlotsSuffice
    PROVE  /\ Touched \subseteq Blocks /\ IsFiniteSet(Touched)
           /\ Cardinality(Touched) \in Nat /\ Cardinality(Touched) <= PoolSlots
<1> DEFINE N == [r \in Reqs |-> IF r \in Scheduled THEN TouchedBy(r) ELSE {}]
           c == 3 * G + Drafts - 2
           z == [r \in Reqs |-> 0]
           R == Cardinality(Reqs)
           t == Cardinality(Touched)
<1>1. Touched = UNION {N[r] : r \in Reqs}
  BY DEF Touched, Scheduled, Running
<1>2. N \in [Reqs -> SUBSET Blocks]
  BY TouchedSize
<1>3. Touched \subseteq Blocks /\ IsFiniteSet(Touched) /\ t \in Nat
  <2>1. Touched \subseteq Blocks
    BY TouchedSize DEF Touched
  <2> QED
    BY <2>1, Numbers, FS_Subset, FS_CardinalityType
<1>4. c \in Nat /\ R \in Nat /\ q \in [Reqs -> Nat] /\ z \in [Reqs -> Nat]
  BY Numbers, FS_CardinalityType DEF TypeInv, EngineTypes
<1>5. \A r \in Reqs : N[r] = IF r \in Scheduled THEN TouchedBy(r) ELSE {}
  OBVIOUS
<1>6. Total(z) = 0
  BY Numbers, SumZero, Zenon DEF Total
<1>7. \A r \in Reqs : z[r] = 0
  OBVIOUS
<1> HIDE DEF N, c, z
<1>8. Cardinality({}) = 0
  BY FS_EmptySet
<1>9. G * t <= Total(q) + R * c
  <2>1. \A r \in Reqs : G * Cardinality(N[r]) <= q[r] + c
    <3> SUFFICES ASSUME NEW r \in Reqs PROVE G * Cardinality(N[r]) <= q[r] + c
      OBVIOUS
    <3>1. CASE r \in Scheduled
      BY <1>5, <3>1, TouchedSize DEF c
    <3>2. CASE r \notin Scheduled
      BY <1>4, <1>5, <1>8, <3>2, Numbers
    <3> QED
      BY <3>1, <3>2
  <2>2. IsFiniteSet(Reqs) /\ IsFiniteSet(Blocks) /\ G \in Nat
    BY Numbers
  <2>3. G * Cardinality(UNION {N[r] : r \in Reqs}) <= Total(q) + Cardinality(Reqs) * c
    BY <1>2, <1>4, <2>1, <2>2, TotalBound, Zenon
  <2> QED
    BY <1>1, <2>3
<1>10. t <= R * MaxBlocks
  <2>1. \A r \in Reqs : 1 * Cardinality(N[r]) <= z[r] + MaxBlocks
    <3> SUFFICES ASSUME NEW r \in Reqs PROVE 1 * Cardinality(N[r]) <= z[r] + MaxBlocks
      OBVIOUS
    <3>1. CASE r \in Scheduled
      BY <1>5, <1>7, <3>1, TouchedSize, Numbers
    <3>2. CASE r \notin Scheduled
      BY <1>5, <1>7, <1>8, <3>2, Numbers
    <3> QED
      BY <3>1, <3>2
  <2>4. IsFiniteSet(Reqs) /\ IsFiniteSet(Blocks) /\ 1 \in Nat /\ MaxBlocks \in Nat
    BY Numbers
  <2>5. 1 * Cardinality(UNION {N[r] : r \in Reqs}) <= Total(z) + Cardinality(Reqs) * MaxBlocks
    BY <1>2, <1>4, <2>1, <2>4, TotalBound, Zenon
  <2>2. 1 * t <= Total(z) + R * MaxBlocks
    BY <1>1, <2>5
  <2>3. R * MaxBlocks \in Nat
    BY <1>4, Numbers
  <2> QED
    BY <1>3, <1>6, <2>2, <2>3
<1>11. Total(q) <= Budget /\ Total(q) \in Nat
  BY Numbers DEF TypeInv, EngineTypes, TokensPlaced
<1>12. CASE Budget + R * c <= G * PoolSlots
  <2>1. R * c \in Nat /\ G * t \in Nat /\ G * PoolSlots \in Nat
    BY <1>3, <1>4, Numbers
  <2>2. G * t <= G * PoolSlots
    <3> DEFINE u == R * c
               v == G * t
               w == G * PoolSlots
    <3>1. /\ u \in Nat /\ v \in Nat /\ w \in Nat /\ v <= Total(q) + u /\ Budget + u <= w
      BY <1>9, <1>12, <2>1
    <3> HIDE DEF u, v, w
    <3>2. v <= w
      BY <1>11, <3>1, Numbers
    <3> QED
      BY <3>2 DEF v, w
  <2>3. t <= PoolSlots
    BY <1>3, <2>2, Numbers, FewerBlocks
  <2> QED
    BY <1>3, <2>3
<1>13. CASE R * MaxBlocks <= PoolSlots
  <2>1. R * MaxBlocks \in Nat
    BY <1>4, Numbers
  <2> QED
    BY <1>3, <1>10, <1>13, <2>1, Numbers
<1> QED
  BY <1>12, <1>13 DEF SlotsSuffice, c

\* SetToSeqs returns sequences that have every element of the set once.
LEMMA WholeSeq ==
    ASSUME NEW S, IsFiniteSet(S), NEW s \in SetToSeqs(S)
    PROVE  s \in Seq(S) /\ Range(s) = S /\ IsInjective(s)
<1> DEFINE n == Cardinality(S)
<1>1. n \in Nat
  BY FS_CardinalityType
<1>2. s \in [1 .. n -> S] /\ \A i, j \in 1 .. n : i # j => s[i] # s[j]
  BY DEF SetToSeqs
<1>3. IsFiniteSet(1 .. n) /\ Cardinality(1 .. n) = n
  <2>1. 1 \in Int /\ n \in Int /\ (IF 1 > n THEN 0 ELSE n - 1 + 1) = n
    BY <1>1
  <2> QED
    BY <2>1, FS_Interval
<1>4. s \in Injection(1 .. n, S)
  BY <1>2 DEF Injection, IsInjective
<1>5. s \in Surjection(1 .. n, S)
  BY <1>3, <1>4, FS_Injection
<1>6. Range(s) = S
  BY <1>2, <1>5 DEF Surjection, Range
<1> QED
  BY <1>1, <1>2, <1>4, <1>6 DEF Injection

\* What is kept of a dictionary is all but what was removed, each key once.
LEMMA KeptWhole ==
    ASSUME NEW old \in Seq(Blocks), NEW gone, NEW s \in Kept(old, gone), IsFiniteSet(Blocks)
    PROVE  s \in Seq(Blocks) /\ Range(s) = Range(old) \ gone /\ IsInjective(s)
<1>1. IsFiniteSet(Range(old) \ gone)
  BY ElementsOfSeq, FS_Subset
<1>2. s \in SetToSeqs(Range(old) \ gone)
  BY DEF Kept
<1> QED
  BY <1>1, <1>2, WholeSeq, KeptFacts

\* Sequences of different elements, one after the other.
LEMMA ConcatWhole ==
    ASSUME NEW S, NEW s \in Seq(S), NEW t \in Seq(S), IsInjective(s), IsInjective(t),
           Range(s) \cap Range(t) = {}
    PROVE  /\ s \o t \in Seq(S) /\ Range(s \o t) = Range(s) \union Range(t)
           /\ IsInjective(s \o t)
<1> DEFINE m == Len(s)
           n == Len(t)
<1>1. m \in Nat /\ n \in Nat /\ DOMAIN s = 1 .. m /\ DOMAIN t = 1 .. n
  OBVIOUS
<1>2. PICK u \in Seq(S) : /\ u = s \o t /\ DOMAIN u = 1 .. m + n
                          /\ \A i \in 1 .. m : u[i] = s[i]
                          /\ \A i \in 1 .. n : u[m + i] = t[i]
  <2>1. s \o t \in Seq(S) /\ Len(s \o t) = m + n
    OBVIOUS
  <2>2. ASSUME NEW i \in 1 .. m PROVE (s \o t)[i] = s[i]
    OBVIOUS
  <2>3. ASSUME NEW i \in 1 .. n PROVE (s \o t)[m + i] = t[i]
    OBVIOUS
  <2>4. DOMAIN (s \o t) = 1 .. m + n
    BY <2>1
  <2> QED
    BY <2>1, <2>2, <2>3, <2>4
<1> HIDE DEF m, n
<1>3. \A i \in 1 .. m : i \in 1 .. m + n /\ u[i] = s[i] /\ s[i] \in Range(s)
  <2>1. \A i \in DOMAIN s : s[i] \in Range(s)
    BY DEF Range
  <2>2. \A i \in 1 .. m : i \in 1 .. m + n
    BY <1>1
  <2> QED
    BY <1>1, <1>2, <2>1, <2>2, Zenon
<1>4. \A i \in 1 .. n : m + i \in 1 .. m + n /\ u[m + i] = t[i] /\ t[i] \in Range(t)
  <2>1. \A i \in DOMAIN t : t[i] \in Range(t)
    BY DEF Range
  <2>2. \A i \in 1 .. n : m + i \in 1 .. m + n
    BY <1>1
  <2> QED
    BY <1>1, <1>2, <2>1, <2>2, Zenon
<1>5. \A i \in 1 .. m + n : \/ i \in 1 .. m
                            \/ i - m \in 1 .. n /\ i = m + (i - m)
  BY <1>1
<1>6. Range(u) = Range(s) \union Range(t)
  <2>1. ASSUME NEW i \in 1 .. m + n PROVE u[i] \in Range(s) \union Range(t)
    BY <1>3, <1>4, <1>5
  <2>2. ASSUME NEW x \in Range(s) PROVE x \in Range(u)
    <3>1. PICK i \in 1 .. m : x = s[i]
      BY <1>1 DEF Range
    <3> QED
      BY <1>2, <1>3, <3>1 DEF Range
  <2>3. ASSUME NEW x \in Range(t) PROVE x \in Range(u)
    <3>1. PICK i \in 1 .. n : x = t[i]
      BY <1>1 DEF Range
    <3> QED
      BY <1>2, <1>4, <3>1 DEF Range
  <2>4. Range(u) \subseteq Range(s) \union Range(t)
    BY <1>2, <2>1 DEF Range
  <2> QED
    BY <2>2, <2>3, <2>4
<1>7. IsInjective(u)
  <2> SUFFICES ASSUME NEW i \in 1 .. m + n, NEW j \in 1 .. m + n, u[i] = u[j] PROVE i = j
    BY <1>2 DEF IsInjective
  <2>1. CASE i \in 1 .. m /\ j \in 1 .. m
    BY <1>1, <1>3, <2>1 DEF IsInjective
  <2>2. CASE i \notin 1 .. m /\ j \notin 1 .. m
    <3>1. /\ i - m \in 1 .. n /\ j - m \in 1 .. n /\ u[i] = t[i - m] /\ u[j] = t[j - m]
      BY <1>4, <1>5, <2>2
    <3>2. i - m = j - m
      BY <1>1, <3>1 DEF IsInjective
    <3> QED
      BY <1>1, <3>2
  <2>3. CASE i \in 1 .. m /\ j \notin 1 .. m
    BY <1>3, <1>4, <1>5, <2>3
  <2>4. CASE i \notin 1 .. m /\ j \in 1 .. m
    BY <1>3, <1>4, <1>5, <2>4
  <2> QED
    BY <2>1, <2>2, <2>3, <2>4
<1> QED
  BY <1>2, <1>6, <1>7

\* The oldest that are evicted: as many as are short, or all.
LEMMA EvictedCount ==
    ASSUME NEW old \in Seq(Blocks), IsInjective(old), NEW short \in Int
    PROVE  /\ Evicted(short, old) \subseteq Range(old)
           /\ short > Len(old) => Evicted(short, old) = Range(old)
           /\ 0 < short /\ short <= Len(old) =>
                  IsFiniteSet(Evicted(short, old)) /\ Cardinality(Evicted(short, old)) = short
<1>1. Len(old) \in Nat /\ DOMAIN old = 1 .. Len(old)
  OBVIOUS
<1>2. Evicted(short, old) \subseteq Range(old)
  BY DEF Evicted, Range
<1>3. short > Len(old) => Range(old) \subseteq Evicted(short, old)
  BY <1>1 DEF Evicted, Range
<1>4. ASSUME 0 < short, short <= Len(old)
      PROVE  IsFiniteSet(Evicted(short, old)) /\ Cardinality(Evicted(short, old)) = short
  <2> DEFINE E == Evicted(short, old)
             f == [i \in 1 .. short |-> old[i]]
  <2>1. \A i \in 1 .. short : i \in DOMAIN old
    BY <1>1, <1>4
  <2>2. E = {old[i] : i \in 1 .. short}
    BY <1>1, <1>4, <2>1 DEF Evicted
  <2>3. f \in Injection(1 .. short, E) /\ f \in Surjection(1 .. short, E)
    <3> HIDE DEF E
    <3>1. f \in [1 .. short -> E]
      BY <2>2
    <3>2. IsInjective(f)
      BY <2>1 DEF IsInjective
    <3>3. \A x \in E : \E i \in 1 .. short : f[i] = x
      BY <2>2
    <3> QED
      BY <3>1, <3>2, <3>3 DEF Injection, Surjection
  <2>4. IsFiniteSet(1 .. short) /\ Cardinality(1 .. short) = short
    <3>1. 1 \in Int /\ ~(1 > short) /\ short - 1 + 1 = short
      BY <1>4
    <3> QED
      BY <3>1, FS_Interval
  <2> HIDE DEF E, f
  <2>5. IsFiniteSet(E) /\ Cardinality(E) = Cardinality(1 .. short)
    BY <2>3, <2>4, FS_Surjection
  <2> QED
    BY <2>4, <2>5 DEF E
<1> QED
  BY <1>2, <1>3, <1>4

\* A build finds the slots it needs: if the free ones and those that are given up are
\* too few, all retired sinks are evicted and what is left is what the step touches.
LEMMA BuildFits ==
    ASSUME KvarnAssumption, SlotsSuffice, SlotInv, TypeInv, TailInv, Build PROVE TailInv'
<1> DEFINE written == WrittenBlocks
           marked  == SinksMarked(written)
           needed  == Needed(written, marked)
           current == marked \ Relabelled(needed)
           walked  == IF pass = 0 THEN UNION {WalkBack(r, current) : r \in Scheduled} ELSE {}
           unused  == IF pass = 0 THEN held \ (needed \union walked) ELSE {}
           retire  == {b \in unused : Complete(b) /\ b \in current}
           flush   == walked \union {b \in unused : Complete(b) /\ b \notin current}
           drop    == {b \in unused : ~Complete(b)}
           free    == freeSlots + SlotsGiven(flush, drop)
           fresh   == needed \ (held \ flush)
<1>1. PICK kept \in Kept(retired, needed), newest \in SetToSeqs(retire \ Range(retired)) :
         LET old     == kept \o newest
             evicted == Evicted(Cardinality(fresh) - free, old)
             gone    == flush \union drop \union evicted
             left    == free + Cardinality(evicted) - Cardinality(fresh)
         IN  /\ pc' = IF left < 0 THEN "exhausted" ELSE "store"
             /\ held' = (held \ gone) \union fresh
             /\ freeSlots' = left
             /\ tile' = [b \in Blocks |->
                           IF b \in flush \union evicted THEN pool[b]
                           ELSE IF b \in fresh THEN Empty ELSE tile[b]]
             /\ pool' = [b \in Blocks |->
                           IF b \in gone \union fresh THEN Empty ELSE pool[b]]
             /\ sinks' = current \ (drop \union evicted)
             /\ retired' \in Kept(old, evicted)
             /\ fill' = [b \in Blocks |-> IF b \in gone THEN 0
                                          ELSE IF b \in written THEN FillOf(b) ELSE fill[b]]
  BY DEF Build
<1> DEFINE old     == kept \o newest
           short   == Cardinality(fresh) - free
           evicted == Evicted(short, old)
           gone    == flush \union drop \union evicted
           left    == free + Cardinality(evicted) - Cardinality(fresh)
<1>2. /\ pc' = IF left < 0 THEN "exhausted" ELSE "store"
      /\ held' = (held \ gone) \union fresh /\ freeSlots' = left
      /\ retired' \in Kept(old, evicted)
  BY <1>1
<1>3. pass' = pass /\ pc = "build" /\ Touched' = Touched
  <2>1. UNCHANGED <<pass, table, len, q>> /\ pc = "build"
    BY DEF Build, engineVars
  <2> QED
    BY <2>1 DEF Touched, TouchedBy, Places, Scheduled, Running, BlockAt
<1>4. IsFiniteSet(Blocks) /\ held \subseteq Blocks /\ retired \in Seq(Blocks)
  BY Numbers DEF SlotInv, SlotTypes
<1>5. needed \subseteq Touched
  BY NeededTouched
<1>6. walked \subseteq held
  BY DEF WalkBack
<1>7. kept \in Seq(Blocks) /\ Range(kept) = Range(retired) \ needed /\ IsInjective(kept)
  BY <1>4, KeptWhole
<1>8. pass # 0 => held \subseteq Touched \union Range(retired)
  BY <1>3 DEF TailInv
<1> HIDE DEF needed, current, walked, written, marked
<1>9. retire \subseteq held /\ flush \subseteq held /\ drop \subseteq held
      /\ retire \cap needed = {}
  BY <1>6
<1>10. held \subseteq Touched \union flush \union drop \union retire \union Range(retired)
  BY <1>5, <1>8
<1> HIDE DEF retire, flush, drop
<1>11. newest \in Seq(Blocks) /\ Range(newest) = retire \ Range(retired) /\ IsInjective(newest)
  <2>1. IsFiniteSet(retire \ Range(retired)) /\ retire \ Range(retired) \subseteq Blocks
    BY <1>4, <1>9, FS_Subset
  <2>2. newest \in Seq(retire \ Range(retired)) /\ Range(newest) = retire \ Range(retired)
        /\ IsInjective(newest)
    BY <2>1, WholeSeq
  <2> QED
    BY <2>1, <2>2
<1>12. /\ old \in Seq(Blocks) /\ IsInjective(old)
       /\ Range(old) = (Range(retired) \ needed) \union (retire \ Range(retired))
  <2>1. Range(kept) \cap Range(newest) = {}
    BY <1>7, <1>11
  <2> QED
    BY <1>7, <1>11, <2>1, ConcatWhole
<1>13. held \subseteq Touched \union flush \union drop \union Range(old)
  BY <1>5, <1>9, <1>10, <1>12
<1>14. /\ IsFiniteSet(fresh) /\ Cardinality(fresh) \in Nat /\ free \in Int
  <2>1. IsFiniteSet(flush) /\ IsFiniteSet(drop)
    BY <1>4, <1>9, FS_Subset
  <2>2. Cardinality(flush) \in Nat /\ Cardinality(drop) \in Nat
    BY <2>1, FS_CardinalityType
  <2>3. IsFiniteSet(fresh)
    BY <1>5, TouchedFits, FS_Subset
  <2>4. freeSlots \in Int
    BY DEF SlotInv, SlotTypes
  <2> HIDE DEF fresh
  <2> QED
    BY <2>2, <2>3, <2>4, FS_CardinalityType DEF SlotsGiven
<1>15. fresh \subseteq Touched
  BY <1>5
<1> HIDE DEF old, fresh, free
<1>16. short \in Int
  BY <1>14
<1>17. /\ evicted \subseteq Range(old) /\ (short > Len(old) => evicted = Range(old))
       /\ 0 < short /\ short <= Len(old) => Cardinality(evicted) = short
  <2> HIDE DEF short
  <2> QED
    BY <1>12, <1>16, EvictedCount
<1>18. Range(retired') = Range(old) \ evicted
  <2> HIDE DEF evicted
  <2> QED
    BY <1>2, <1>4, <1>12, KeptWhole
<1>19. held' \ Range(retired') \subseteq Touched
  <2> HIDE DEF evicted
  <2> QED
    BY <1>2, <1>13, <1>15, <1>18
<1>20. Cardinality(evicted) \in Nat
  <2>1. IsFiniteSet(evicted)
    <3>1. Range(old) \subseteq Blocks
      BY <1>12, ElementsOfSeq
    <3> HIDE DEF evicted
    <3> QED
      BY <1>4, <1>17, <3>1, FS_Subset
  <2> HIDE DEF evicted
  <2> QED
    BY <2>1, FS_CardinalityType
<1>21. Len(old) \in Nat
  BY <1>12
<1>22. ~(left < 0)
  <2>1. CASE ~(short > 0)
    <3> HIDE DEF evicted
    <3> QED
      BY <1>14, <1>20, <2>1
  <2>2. CASE 0 < short /\ short <= Len(old)
    <3>1. Cardinality(evicted) = short
      BY <1>17, <2>2
    <3> HIDE DEF evicted
    <3> QED
      BY <1>14, <3>1
  <2>3. CASE short > Len(old)
    <3>1. held' \subseteq Touched
      <4>1. evicted = Range(old)
        BY <1>17, <2>3
      <4> HIDE DEF evicted
      <4> QED
        BY <1>18, <1>19, <4>1
    <3>2. Cardinality(held') \in Nat /\ Cardinality(held') <= PoolSlots
      <4>1. IsFiniteSet(held') /\ Cardinality(held') <= Cardinality(Touched)
        BY <3>1, TouchedFits, FS_Subset
      <4> QED
        BY <4>1, TouchedFits, FS_CardinalityType, Numbers
    <3>3. freeSlots' + Cardinality(held') = PoolSlots /\ freeSlots' \in Int
      BY BuildStep DEF SlotInv, SlotsAccounted, SlotTypes
    <3>4. freeSlots' >= 0
      BY <3>2, <3>3, Numbers
    <3> HIDE DEF left
    <3> QED
      BY <1>2, <3>3, <3>4
  <2> HIDE DEF short
  <2> QED
    BY <1>16, <1>21, <2>1, <2>2, <2>3
<1> HIDE DEF left
<1> QED
  BY <1>2, <1>3, <1>19, <1>22 DEF TailInv

\* Every step keeps the slots to what the step under way touches.
LEMMA TailStep ==
    ASSUME KvarnAssumption, SlotsSuffice
    PROVE  SlotInv /\ TypeInv /\ TailInv /\ [Next]_vars => TailInv'
<1> SUFFICES ASSUME SlotInv, TypeInv, TailInv, [Next]_vars PROVE TailInv'
  OBVIOUS
<1>1. ASSUME NEW r \in Reqs, Admit(r) \/ PlacePrefill(r) \/ PlaceVerify(r) \/ Leave(r)
      PROVE  TailInv'
  BY <1>1 DEF Admit, PlacePrefill, PlaceVerify, Place, Leave, TailInv
<1>2. ASSUME UNCHANGED <<table, len, q, held, retired>>
      PROVE  Touched' = Touched /\ (held \ Range(retired))' = held \ Range(retired)
  BY <1>2 DEF Touched, TouchedBy, Places, Scheduled, Running, BlockAt
<1>3. CASE Dispatch
  BY <1>3 DEF Dispatch, TailInv
<1>4. CASE Store
  <2>1. UNCHANGED <<table, len, q, held, retired, pass>> /\ pc = "store" /\ pc' = "attend"
    BY <1>4 DEF Store, engineVars, allocVars
  <2> QED
    BY <1>2, <2>1 DEF TailInv
<1>5. CASE Draft
  <2>1. UNCHANGED <<table, len, q, held, retired>> /\ pc = "attend" /\ pc' = "build"
    BY <1>5 DEF Draft, engineVars, allocVars
  <2> QED
    BY <1>2, <2>1 DEF TailInv
<1>6. CASE Accept
  BY <1>6 DEF Accept, TailInv
<1>7. CASE UNCHANGED vars
  <2>1. UNCHANGED <<table, len, q, held, retired, pass, pc>>
    BY <1>7 DEF vars, engineVars, allocVars
  <2> QED
    BY <1>2, <2>1 DEF TailInv
<1> QED
  BY <1>1, <1>3, <1>4, <1>5, <1>6, <1>7, BuildFits DEF Next

\* A pool with a slot for the first block, the begun block and the next block of
\* every request and for the blocks of the budget, or for all blocks of the largest
\* requests, is never exhausted (kvarn_attn.py:968-985, config.py:213-224).
THEOREM PoolSuffices == ASSUME KvarnAssumption, SlotsSuffice PROVE KSpec => []PoolNeverExhausted
<1>1. Init => TailInv
  BY DEF Init, TailInv
<1>2. TailInv => PoolNeverExhausted
  BY DEF TailInv, PoolNeverExhausted
<1> QED
  BY <1>1, <1>2, TailStep, TypeInvariant, PTL DEF KSpec

\* The size the configuration computes, pool_slots: two slots for each request,
\* those of the blocks of the budget, and eight.
ConfiguredSlots == 2 * Cardinality(Reqs) + (Budget + G - 1) \div G + 8

\* It suffices for as many requests as the eight spare slots hold the third block of
\* (config.py:213-224): for eight requests with up to two drafts.
THEOREM ConfiguredSuffices ==
    ASSUME KvarnAssumption, PoolSlots >= ConfiguredSlots,
           Cardinality(Reqs) * (G + Drafts - 2) <= 8 * G
    PROVE  KSpec => []PoolNeverExhausted
<1> DEFINE R == Cardinality(Reqs)
           p == (Budget + G - 1) \div G
<1>1. R \in Nat
  BY Numbers, FS_CardinalityType
<1>2. p \in Nat /\ G * p >= Budget
  <2> DEFINE a == Budget + G - 1
  <2>1. a \in Nat
    BY Numbers
  <2>2. a \div G \in Nat /\ a < G * (a \div G) + G
    BY <2>1, Numbers, Division
  <2> DEFINE d == a \div G
  <2>3. d \in Nat /\ G * d \in Nat /\ Budget + G - 1 < G * d + G
    BY <2>2, Numbers
  <2> HIDE DEF d
  <2>4. G * d >= Budget
    BY <2>3, Numbers
  <2> QED
    BY <2>3, <2>4 DEF d
<1>3. PoolSlots >= 2 * R + p + 8
  BY DEF ConfiguredSlots
<1>4. R * (G + Drafts - 2) <= 8 * G
  OBVIOUS
<1> HIDE DEF R, p
<1>5. Budget + R * (3 * G + Drafts - 2) <= G * PoolSlots
  <2>1. PICK e \in Nat : PoolSlots = 2 * R + p + 8 + e
    <3>1. /\ PoolSlots - (2 * R + p + 8) \in Nat
          /\ PoolSlots = 2 * R + p + 8 + (PoolSlots - (2 * R + p + 8))
      BY <1>1, <1>2, <1>3, Numbers
    <3> QED
      BY <3>1
  <2>2. G * (2 * R + p + 8 + e) = 2 * (R * G) + G * p + 8 * G + G * e
    BY <1>1, <1>2, Numbers
  <2>3. R * (3 * G + Drafts - 2) = 2 * (R * G) + R * (G + Drafts - 2)
    BY <1>1, Numbers
  <2>4. R * G \in Nat /\ G * p \in Nat /\ G * e \in Nat /\ R * (G + Drafts - 2) \in Int
    BY <1>1, <1>2, Numbers
  <2> QED
    BY <1>2, <1>4, <2>1, <2>2, <2>3, <2>4, Numbers
<1>6. SlotsSuffice
  BY <1>5 DEF SlotsSuffice, R
<1> QED
  BY <1>6, PoolSuffices
-----------------------------------------------------------------------------
(* What is read.                                                           *)

\* The places of a request's blocks in its table.
Indices(r) == 0 .. Len(table[r]) - 1

\* The block of a position.
At(r, p) == BlockAt(r, p \div G)

\* The tokens of a request after the step.
Accepted(r) == len[r] + acc[r]

\* A request with tokens in the step has one of them accepted, a request without
\* stopped at the end of a block, and a sink has a slot.
BatchInv ==
    /\ \A r \in Reqs : q[r] > 0 => acc[r] > 0
    /\ pc = "schedule" => pass = 0
    /\ pc # "schedule" => RunningPlaced
    /\ sinks \subseteq held

\* No block is twice in a table.
RowsDistinct ==
    \A r \in Running : \A j, k \in Indices(r) : BlockAt(r, j) = BlockAt(r, k) => j = k

\* A block of a request that is in the cache is there as what it is to the request,
\* and has all its tokens in this step at the latest.
LabelsOfRows ==
    \A r \in Running : \A k \in Indices(r) : label[BlockAt(r, k)] # <<>> =>
        label[BlockAt(r, k)] = <<chain[r], k>> /\ k < Accepted(r) \div G

\* A block of two requests is in the cache, and one of them found it there.
SharedRows ==
    \A r, s \in Running : \A j \in Indices(r), k \in Indices(s) :
        r # s /\ BlockAt(r, j) = BlockAt(s, k) =>
            /\ label[BlockAt(r, j)] # <<>>
            /\ j < len[r] \div G \/ k < len[s] \div G

\* How blocks are shared.
RowInv == RowsDistinct /\ LabelsOfRows /\ SharedRows

\* A block that is in the cache or has all its tokens when the step is done.
Whole(b) ==
    \/ label[b] # <<>>
    \/ \E r \in Running : \E k \in 0 .. Accepted(r) \div G - 1 : BlockAt(r, k) = b

\* Until the builder runs: a block that was found in the cache is not written where
\* it has a slot, a block that was begun has a slot, and a whole block is known to be
\* full unless this step fills it.
BeforeInv ==
    pc = "schedule" \/ (pc = "build" /\ pass = 0) =>
        /\ \A r \in Running : \A k \in 0 .. len[r] \div G - 1 : BlockAt(r, k) \notin Unsettled
        /\ \A r \in Running : len[r] % G # 0 => BlockAt(r, len[r] \div G) \in held
        /\ \A b \in held : Whole(b) => Complete(b) \/ b \in WrittenBlocks

\* From then on: the blocks that the step writes have slots that are not evicted.
StepInv ==
    pc \in {"store", "attend"} \/ (pc = "build" /\ pass # 0) =>
        /\ \A r \in Scheduled : \A k \in (len[r] \div G) .. ((len[r] + q[r] - 1) \div G) :
               BlockAt(r, k) \in held \ Range(retired)
        /\ \A b \in held : Whole(b) => Complete(b)

\* The first pass writes position p of a chain to block b.
Coming(b, c, p) ==
    /\ pc # "attend" /\ pass = 0
    /\ \E s \in Scheduled : len[s] <= p /\ p < Accepted(s) /\ At(s, p) = b /\ chain[s] = c

\* Position p of a chain is read from block b, or will be.
Good(b, c, p) == Read(b, p % G) = Value(c, p) \/ Coming(b, c, p)

\* The requests read their own tokens, and a block in the cache has those of its label.
DataInv ==
    pc # "exhausted" =>
        /\ \A r \in Running : \A p \in 0 .. Accepted(r) - 1 : Good(At(r, p), chain[r], p)
        /\ \A b \in Blocks, c \in Chains, p \in 0 .. MaxLen :
               label[b] = <<c, p \div G>> => Good(b, c, p)

\* The inductive invariant of what is read.
ReadInv == BatchInv /\ RowInv /\ BeforeInv /\ StepInv /\ DataInv

\* Positions and blocks: an order of positions is one of their blocks.
LEMMA BlockOrder ==
    ASSUME NEW g \in Nat \ {0}, NEW a \in Nat, NEW b \in Nat
    PROVE  /\ a <= b => a \div g <= b \div g
           /\ a \div g < b \div g => a < b
<1>1. a <= b => a \div g <= b \div g
  BY DivisionMonotone
<1>2. b <= a => b \div g <= a \div g
  BY DivisionMonotone
<1>3. a \div g \in Nat /\ b \div g \in Nat
  BY Division
<1> DEFINE x == a \div g
           y == b \div g
<1> HIDE DEF x, y
<1>4. (a <= b => x <= y) /\ (b <= a => y <= x) /\ x \in Nat /\ y \in Nat
  BY <1>1, <1>2, <1>3 DEF x, y
<1>5. x < y => a < b
  BY <1>4
<1> QED
  BY <1>4, <1>5 DEF x, y

\* The blocks below that of a position are full before it.
LEMMA BlockBefore ==
    ASSUME NEW g \in Nat \ {0}, NEW a \in Nat, NEW k \in Nat, k < a \div g
    PROVE  (k + 1) * g <= a
<1> DEFINE x == a \div g
<1>1. x \in Nat /\ g * x <= a
  BY Division
<1> HIDE DEF x
<1>2. PICK e \in Nat : x = k + 1 + e
  <2>1. x - (k + 1) \in Nat /\ x = k + 1 + (x - (k + 1))
    BY <1>1 DEF x
  <2> QED
    BY <2>1
<1>3. g * (k + 1 + e) = (k + 1) * g + g * e /\ g * e \in Nat /\ (k + 1) * g \in Nat
  OBVIOUS
<1> QED
  BY <1>1, <1>2, <1>3

\* Remainder and quotient.
LEMMA Remainder ==
    ASSUME NEW g \in Nat \ {0}, NEW a \in Nat
    PROVE  a % g \in 0 .. g - 1 /\ a = g * (a \div g) + (a % g)
<1>1. a % g \in 0 .. g - 1
  BY SMTT(20)
<1>2. a = g * (a \div g) + (a % g)
  BY SMTT(20)
<1> QED
  BY <1>1, <1>2

\* A position is given by its block and its row in it.
LEMMA PositionOf ==
    ASSUME NEW g \in Nat \ {0}, NEW a \in Nat, NEW b \in Nat, a \div g = b \div g, a % g = b % g
    PROVE  a = b
<1>1. a = g * (a \div g) + (a % g) /\ b = g * (b \div g) + (b % g)
  BY Remainder
<1> DEFINE x == a \div g
           m == a % g
<1>2. a = g * x + m /\ b = g * x + m
  BY <1>1
<1> HIDE DEF x, m
<1> QED
  BY <1>2

\* A length at the end of a block is above all positions of the blocks before, and not
\* above those of the next; any other one is in the block of its last position.
LEMMA BlockEnds ==
    ASSUME NEW g \in Nat \ {0}, NEW a \in Nat, NEW p \in Nat
    PROVE  /\ a % g = 0 /\ a \div g <= p \div g => a <= p
           /\ a % g # 0 => a - 1 \in Nat /\ (a - 1) \div g = a \div g
<1>1. /\ a % g \in 0 .. g - 1 /\ a = g * (a \div g) + (a % g) /\ a \div g \in Nat
      /\ p = g * (p \div g) + (p % g) /\ p % g \in 0 .. g - 1 /\ p \div g \in Nat
  BY Remainder, Division
<1>2. ASSUME a % g = 0, a \div g <= p \div g PROVE a <= p
  <2> DEFINE x == a \div g
             y == p \div g
             m == p % g
  <2>1. a = g * x /\ p = g * y + m /\ m \in Nat /\ x \in Nat /\ y \in Nat /\ x <= y
    BY <1>1, <1>2
  <2> HIDE DEF x, y, m
  <2>2. PICK e \in Nat : y = x + e
    <3>1. y - x \in Nat /\ y = x + (y - x)
      BY <2>1
    <3> QED
      BY <3>1
  <2>3. g * (x + e) = g * x + g * e /\ g * e \in Nat /\ g * x \in Nat
    BY <2>1
  <2> QED
    BY <2>1, <2>2, <2>3
<1>3. ASSUME a % g # 0 PROVE a - 1 \in Nat /\ (a - 1) \div g = a \div g
  <2> DEFINE x == a \div g
             m == a % g
  <2>1. a = g * x + m /\ m \in 1 .. g - 1 /\ x \in Nat
    BY <1>1, <1>3
  <2>2. g * x \in Nat
    BY <2>1
  <2> DEFINE z == (a - 1) \div g
  <2>3. a - 1 \in Nat
    <3> HIDE DEF x, m
    <3> QED
      BY <2>1, <2>2
  <2>4. z \in Nat /\ g * z <= a - 1 /\ a - 1 < g * z + g
    BY <2>3, Division
  <2>5. z <= x
    BY <2>3, BlockOrder
  <2> HIDE DEF x, m, z
  <2>6. g * x <= a - 1
    BY <2>1, <2>2
  <2>7. x <= z
    BY <2>3, <2>6, <2>1, DivisionAbove DEF z
  <2> QED
    BY <2>1, <2>3, <2>4, <2>5, <2>7 DEF x, z
<1> QED
  BY <1>2, <1>3

\* Positions of a row of n blocks.
LEMMA InRow ==
    ASSUME NEW g \in Nat \ {0}, NEW n \in Nat, NEW a \in Nat, a <= g * n, NEW p \in Nat
    PROVE  /\ p < a => p \div g \in 0 .. n - 1
           /\ p < a \div g => p \in 0 .. n - 1
           /\ a \div g <= n
<1> DEFINE x == a \div g
           w == g * n
<1>1. x \in Nat /\ g * x <= a
  BY Division
<1>2. x <= n
  <2>1. g * x <= g * n
    <3> DEFINE v == g * x
    <3>1. v \in Nat /\ w \in Nat /\ v <= a /\ a <= w
      BY <1>1
    <3> HIDE DEF v, w
    <3>2. v <= w
      BY <3>1
    <3> QED
      BY <3>2 DEF v, w
  <2> HIDE DEF x
  <2> QED
    BY <1>1, <2>1, FewerBlocks
<1>3. ASSUME p < a PROVE p \div g \in 0 .. n - 1
  <2> DEFINE y == p \div g
  <2>1. y \in Nat /\ g * y <= p
    BY Division
  <2> HIDE DEF y
  <2>2. SUFFICES ASSUME n <= y PROVE FALSE
    BY <2>1 DEF y
  <2>3. PICK e \in Nat : y = n + e
    <3>1. y - n \in Nat /\ y = n + (y - n)
      BY <2>1, <2>2
    <3> QED
      BY <3>1
  <2>4. g * (n + e) = g * n + g * e /\ g * e \in Nat /\ g * n \in Nat
    OBVIOUS
  <2> QED
    BY <1>3, <2>1, <2>3, <2>4
<1> HIDE DEF x
<1>4. p < x => p \in 0 .. n - 1
  BY <1>1, <1>2
<1> QED
  BY <1>2, <1>3, <1>4 DEF x

\* A request: its numbers, and where the positions it has after the step are.
LEMMA RowFacts ==
    ASSUME KvarnAssumption, TypeInv, BatchInv, NEW r \in Running
    PROVE  /\ r \in Reqs /\ table[r] \in Seq(Blocks) /\ Len(table[r]) \in Nat \ {0}
           /\ chain[r] \in Chains /\ len[r] \in Nat /\ q[r] \in Nat /\ acc[r] \in Nat
           /\ acc[r] <= q[r] /\ Accepted(r) \in Nat /\ len[r] <= Accepted(r)
           /\ Accepted(r) <= MaxLen /\ (r \notin Scheduled => Accepted(r) = len[r])
           /\ r \in Scheduled => /\ q[r] \in Nat \ {0} /\ acc[r] \in Nat \ {0}
                                 /\ len[r] + q[r] + Drafts <= G * Len(table[r])
           /\ len[r] \div G \in Nat /\ Accepted(r) \div G \in Nat
           /\ len[r] \div G <= Accepted(r) \div G /\ Accepted(r) \div G <= Len(table[r])
           /\ \A k \in Indices(r) : BlockAt(r, k) \in Blocks
           /\ \A p \in Nat : p < Accepted(r) => p \div G \in Indices(r)
           /\ len[r] % G # 0 => len[r] \div G \in Indices(r)
<1>1. /\ r \in Reqs /\ table[r] \in Seq(Blocks) /\ table[r] # <<>>
      /\ chain[r] \in Chains /\ len[r] \in Nat /\ q[r] \in Nat /\ acc[r] \in Nat /\ acc[r] <= q[r]
      /\ len[r] <= G * Len(table[r]) /\ len[r] <= MaxLen
      /\ q[r] > 0 => /\ len[r] + q[r] + Drafts <= MaxLen
                     /\ len[r] + q[r] + Drafts <= G * Len(table[r])
      /\ q[r] > 0 => acc[r] > 0
  BY Numbers DEF TypeInv, EngineTypes, Running, BatchInv
<1>2. Len(table[r]) \in Nat \ {0} /\ \A k \in Indices(r) : BlockAt(r, k) \in Blocks
  BY <1>1 DEF BlockAt, Indices
<1>3. r \in Scheduled <=> q[r] > 0
  BY DEF Scheduled
<1> DEFINE w == G * Len(table[r])
           n == Len(table[r])
<1>4. w \in Nat /\ n \in Nat
  BY <1>2, Numbers
<1> HIDE DEF w, n
<1>5. /\ Accepted(r) = len[r] + acc[r] /\ Accepted(r) \in Nat /\ len[r] <= Accepted(r)
      /\ Accepted(r) <= w /\ Accepted(r) <= MaxLen /\ (r \notin Scheduled => Accepted(r) = len[r])
  <2>1. len[r] <= w /\ (q[r] > 0 => len[r] + q[r] + Drafts <= w)
    BY <1>1 DEF w
  <2> QED
    BY <1>1, <1>3, <1>4, <2>1, Numbers DEF Accepted
<1>6. /\ \A p \in Nat : p < Accepted(r) => p \div G \in Indices(r)
      /\ Accepted(r) \div G <= Len(table[r])
  <2>1. Accepted(r) <= G * n
    BY <1>5 DEF w, n
  <2>2. /\ \A p \in Nat : p < Accepted(r) => p \div G \in 0 .. n - 1
        /\ Accepted(r) \div G <= n
    BY <1>4, <1>5, <2>1, InRow, Numbers
  <2> QED
    BY <2>2 DEF n, Indices
<1>7. /\ len[r] \div G \in Nat /\ Accepted(r) \div G \in Nat
      /\ len[r] \div G <= Accepted(r) \div G
  BY <1>1, <1>5, Numbers, Division, BlockOrder
<1>8. len[r] % G # 0 => len[r] \div G \in Indices(r)
  <2>1. len[r] % G # 0 => len[r] - 1 \in Nat /\ (len[r] - 1) \div G = len[r] \div G
    BY <1>1, Numbers, BlockEnds
  <2>2. len[r] - 1 \in Nat => len[r] - 1 < Accepted(r)
    BY <1>1, <1>5
  <2> QED
    BY <1>6, <2>1, <2>2
<1> QED
  BY <1>1, <1>2, <1>3, <1>5, <1>6, <1>7, <1>8

\* Whole blocks.
LEMMA WholeBlocks ==
    ASSUME NEW h \in Nat, NEW g \in Nat \ {0}
    PROVE  (h * g) \div g = h /\ (h * g) % g = 0 /\ h * g \in Nat
<1>1. h * g \in Nat /\ h * g = g * h
  OBVIOUS
<1> DEFINE a == h * g
           x == a \div g
<1>2. x \in Nat /\ g * x <= a /\ h <= x
  BY <1>1, Division, DivisionAbove
<1>3. x <= h
  <2> HIDE DEF x
  <2> QED
    BY <1>1, <1>2, FewerBlocks
<1>4. a % g \in 0 .. g - 1 /\ a = g * (a \div g) + (a % g)
  BY <1>1, Remainder
<1>5. x = h
  <2> HIDE DEF x
  <2> QED
    BY <1>2, <1>3
<1>6. a = g * h + (a % g)
  BY <1>4, <1>5
<1> DEFINE m == a % g
<1>7. a = g * h + m /\ m \in Nat /\ a = g * h /\ g * h \in Nat
  BY <1>1, <1>4, <1>6
<1> HIDE DEF a, m
<1>8. m = 0
  BY <1>7
<1> QED
  BY <1>1, <1>5, <1>8 DEF m, a

\* A label is not that of a block out of the cache.
LEMMA LabelNotEmpty == \A x, y : <<x, y>> # <<>>
  OBVIOUS

\* A request that a step leaves alone.
LEMMA RowKept ==
    ASSUME NEW s, table'[s] = table[s], len'[s] = len[s], acc'[s] = acc[s]
    PROVE  /\ Indices(s)' = Indices(s) /\ Accepted(s)' = Accepted(s)
           /\ \A k : BlockAt(s, k)' = BlockAt(s, k)
           /\ \A p : At(s, p)' = At(s, p)
  BY DEF Indices, Accepted, BlockAt, At

\* What a pass writes depends on the requests of the step only.
LEMMA WrittenKept ==
    ASSUME Scheduled' = Scheduled, pass' = pass,
           \A s \in Scheduled : /\ table'[s] = table[s] /\ len'[s] = len[s] /\ acc'[s] = acc[s]
                                /\ q'[s] = q[s]
    PROVE  WrittenBlocks' = WrittenBlocks
<1>1. ASSUME NEW s \in Scheduled
      PROVE  Written(s)' = Written(s) /\ \A k : BlockAt(s, k)' = BlockAt(s, k)
  BY DEF Written, Committed, SeqLen, QueryLen, BlockAt
<1> QED
  BY <1>1 DEF WrittenBlocks

\* An admission does not disturb what is read: the blocks it found are in the cache,
\* and none of them has a slot that this step writes.
LEMMA ReadAdmit ==
    ASSUME KvarnAssumption, ~HitsUnsettled, SlotInv, TypeInv, ReadInv, NEW r \in Reqs, Admit(r)
    PROVE  ReadInv'
<1>1. /\ pc = "schedule" /\ pc' = "schedule" /\ pass' = pass /\ q' = q /\ acc' = acc
      /\ UNCHANGED <<held, fill, sinks, pool, tile>> /\ r \notin Running
  BY DEF Admit, allocVars, dataVars
<1>2. PICK c \in Chains, h \in 0 .. (MaxLen - Drafts - 1) \div G :
         \E bs \in CacheHits(c, h), first \in FreeBlocks :
             /\ HitsUnsettled \/ Range(bs) \cap Unsettled = {}
             /\ first \notin Range(bs)
             /\ chain' = [chain EXCEPT ![r] = c]
             /\ len'   = [len EXCEPT ![r] = h * G]
             /\ table' = [table EXCEPT ![r] = Append(bs, first)]
             /\ label' = [label EXCEPT ![first] = <<>>]
  BY Zenon DEF Admit
<1>3. PICK bs \in CacheHits(c, h), first \in FreeBlocks :
             /\ HitsUnsettled \/ Range(bs) \cap Unsettled = {}
             /\ first \notin Range(bs)
             /\ chain' = [chain EXCEPT ![r] = c]
             /\ len'   = [len EXCEPT ![r] = h * G]
             /\ table' = [table EXCEPT ![r] = Append(bs, first)]
             /\ label' = [label EXCEPT ![first] = <<>>]
  BY <1>2
<1>4. /\ bs \in [1 .. h -> Blocks] /\ \A k \in 1 .. h : label[bs[k]] = <<c, k - 1>>
      /\ first \in Blocks /\ h \in Nat /\ DOMAIN bs = 1 .. h
  BY Numbers DEF CacheHits, FreeBlocks
<1>5. (h * G) \div G = h /\ (h * G) % G = 0 /\ h * G \in Nat
  BY <1>4, Numbers, WholeBlocks
<1>6. h * G <= MaxLen
  <2>1. TypeInv' \/ len'[r] <= MaxLen
    <3>1. EngineTypes'
      BY TypeAdmit
    <3> QED
      BY <3>1, Numbers DEF EngineTypes
  <2>2. EngineTypes'
    BY TypeAdmit
  <2>3. len'[r] = h * G
    BY <1>3 DEF TypeInv, EngineTypes
  <2> QED
    BY <2>2, <2>3, Numbers DEF EngineTypes
<1> DEFINE start == h * G
<1>7. /\ chain'[r] = c /\ len'[r] = start /\ table'[r] = Append(bs, first) /\ acc'[r] = 0
      /\ q[r] = 0 /\ r \notin Scheduled
  <2>1. chain'[r] = c /\ len'[r] = start /\ table'[r] = Append(bs, first)
    BY <1>3 DEF TypeInv, EngineTypes
  <2>2. q[r] = 0
    BY <1>1 DEF Running, TypeInv, EngineTypes
  <2>3. acc[r] = 0
    BY <2>2 DEF TypeInv, EngineTypes
  <2> QED
    BY <1>1, <2>1, <2>2, <2>3 DEF Scheduled
<1>8. /\ start \in Nat /\ start \div G = h /\ start % G = 0 /\ start <= MaxLen
  BY <1>5, <1>6
<1> HIDE DEF start
<1>9. /\ Indices(r)' = 0 .. h /\ BlockAt(r, h)' = first
      /\ \A k \in 0 .. h - 1 : BlockAt(r, k)' = bs[k + 1]
  <2>1. bs \in Seq(Blocks) /\ Len(bs) = h
    BY <1>4
  <2>2. /\ Len(Append(bs, first)) = h + 1 /\ Append(bs, first)[h + 1] = first
        /\ \A k \in 0 .. h - 1 : Append(bs, first)[k + 1] = bs[k + 1]
    BY <1>4, <2>1
  <2> QED
    BY <1>4, <1>7, <2>2 DEF Indices, BlockAt
<1>10. Accepted(r)' = start
  BY <1>7, <1>8 DEF Accepted
<1>11. ASSUME NEW s \in Running
       PROVE  /\ s \in Reqs /\ s # r /\ chain'[s] = chain[s] /\ len'[s] = len[s]
              /\ table'[s] = table[s] /\ acc'[s] = acc[s] /\ q'[s] = q[s]
  <2>1. s \in Reqs /\ s # r
    BY <1>1 DEF Running
  <2> QED
    BY <1>1, <1>3, <2>1 DEF TypeInv, EngineTypes
<1>12. ASSUME NEW s \in Running
       PROVE  /\ Indices(s)' = Indices(s) /\ Accepted(s)' = Accepted(s)
              /\ \A k : BlockAt(s, k)' = BlockAt(s, k)
              /\ \A p : At(s, p)' = At(s, p)
  BY <1>11, RowKept
<1>13. Running' = Running \union {r}
  <2>1. Append(bs, first) # <<>>
    <3>1. bs \in Seq(Blocks)
      BY <1>4
    <3> QED
      BY <1>4, <3>1
  <2>2. \A s \in Reqs : s # r => table'[s] = table[s]
    BY <1>3 DEF TypeInv, EngineTypes
  <2> QED
    BY <1>7, <2>1, <2>2 DEF Running
<1>14. Scheduled' = Scheduled
  BY <1>1, <1>7, <1>13 DEF Scheduled
<1>15. Scheduled \subseteq Running
  BY DEF Scheduled
<1>16. WrittenBlocks' = WrittenBlocks /\ Unsettled' = Unsettled
  <2>1. WrittenBlocks' = WrittenBlocks
    BY <1>1, <1>11, <1>14, <1>15, WrittenKept
  <2> QED
    BY <1>1, <2>1 DEF Unsettled
<1>17. ASSUME NEW s \in Running, NEW k \in Indices(s) PROVE BlockAt(s, k) # first
  <2>1. table[s] \in Seq(Blocks) /\ s \in Reqs
    BY DEF Running, TypeInv, EngineTypes
  <2>2. k + 1 \in DOMAIN table[s]
    BY <2>1 DEF Indices
  <2>3. BlockAt(s, k) \in Range(table[s])
    BY <2>2 DEF Range, BlockAt
  <2> QED
    BY <2>1, <2>3 DEF FreeBlocks
<1>18. label'[first] = <<>> /\ \A b \in Blocks : b # first => label'[b] = label[b]
  BY <1>3, <1>4 DEF TypeInv, EngineTypes
<1>19. \A k \in 0 .. h - 1 : /\ bs[k + 1] \in Blocks /\ bs[k + 1] # first
                            /\ label[bs[k + 1]] = <<c, k>> /\ bs[k + 1] \notin Unsettled
  <2> SUFFICES ASSUME NEW k \in 0 .. h - 1
               PROVE  /\ bs[k + 1] \in Blocks /\ bs[k + 1] # first
                      /\ label[bs[k + 1]] = <<c, k>> /\ bs[k + 1] \notin Unsettled
    OBVIOUS
  <2>1. k + 1 \in 1 .. h /\ k + 1 - 1 = k
    BY <1>4
  <2>2. bs[k + 1] \in Range(bs)
    BY <1>4, <2>1 DEF Range
  <2> QED
    BY <1>3, <1>4, <2>1, <2>2
<1>20. BatchInv'
  <2>1. \A x \in Reqs : q'[x] > 0 => acc'[x] > 0
    BY <1>1 DEF ReadInv, BatchInv
  <2> QED
    BY <1>1, <2>1 DEF ReadInv, BatchInv
<1>21. \A s \in Running : \A k \in Indices(s) : BlockAt(s, k) \in Blocks
  BY RowFacts DEF ReadInv
<1>22. RowsDistinct'
  <2> SUFFICES ASSUME NEW s \in Running', NEW j \in Indices(s)', NEW k \in Indices(s)',
                      BlockAt(s, j)' = BlockAt(s, k)'
               PROVE  j = k
    BY DEF RowsDistinct
  <2>1. CASE s \in Running
    BY <1>12, <2>1 DEF ReadInv, RowInv, RowsDistinct
  <2>2. CASE s = r
    <3>1. j \in 0 .. h /\ k \in 0 .. h
      BY <1>9, <2>2
    <3>2. CASE j = h \/ k = h
      BY <1>4, <1>9, <1>19, <2>2, <3>1, <3>2
    <3>3. CASE j # h /\ k # h
      <4>1. j \in 0 .. h - 1 /\ k \in 0 .. h - 1
        BY <1>4, <3>1, <3>3
      <4>2. bs[j + 1] = bs[k + 1]
        BY <1>9, <2>2, <4>1
      <4>3. <<c, j>> = <<c, k>>
        BY <1>19, <4>1, <4>2
      <4> QED
        BY <4>3
    <3> QED
      BY <3>2, <3>3
  <2> QED
    BY <1>13, <2>1, <2>2
<1>23. LabelsOfRows'
  <2> SUFFICES ASSUME NEW s \in Running', NEW k \in Indices(s)', label'[BlockAt(s, k)'] # <<>>
               PROVE  label'[BlockAt(s, k)'] = <<chain'[s], k>> /\ k < Accepted(s)' \div G
    BY DEF LabelsOfRows
  <2>1. CASE s \in Running
    <3>1. BlockAt(s, k)' = BlockAt(s, k) /\ k \in Indices(s) /\ Accepted(s)' = Accepted(s)
      BY <1>12, <2>1
    <3>2. label'[BlockAt(s, k)] = label[BlockAt(s, k)]
      BY <1>17, <1>18, <1>21, <2>1, <3>1
    <3> QED
      BY <1>11, <2>1, <3>1, <3>2 DEF ReadInv, RowInv, LabelsOfRows
  <2>2. CASE s = r
    <3>1. k \in 0 .. h /\ k # h
      BY <1>9, <1>18, <2>2
    <3>2. k \in 0 .. h - 1
      BY <1>4, <3>1
    <3>3. /\ BlockAt(r, k)' = bs[k + 1] /\ label'[bs[k + 1]] = label[bs[k + 1]]
          /\ label[bs[k + 1]] = <<c, k>>
      BY <1>9, <1>18, <1>19, <3>2
    <3>4. k < h
      BY <1>4, <3>2
    <3> QED
      BY <1>7, <1>8, <1>10, <2>2, <3>3, <3>4
  <2> QED
    BY <1>13, <2>1, <2>2
<1>24. ASSUME NEW s \in Running, NEW j \in Indices(s), NEW k \in Indices(r)',
              BlockAt(s, j) = BlockAt(r, k)'
       PROVE  k \in 0 .. h - 1 /\ label'[BlockAt(s, j)] # <<>>
  <2>1. k \in 0 .. h /\ k # h
    BY <1>9, <1>17, <1>24
  <2>2. k \in 0 .. h - 1
    BY <1>4, <2>1
  <2>3. /\ BlockAt(s, j) = bs[k + 1] /\ label'[bs[k + 1]] = label[bs[k + 1]]
        /\ label[bs[k + 1]] = <<c, k>>
    BY <1>9, <1>18, <1>19, <1>24, <2>2
  <2> QED
    BY <2>2, <2>3, LabelNotEmpty
<1>25. SharedRows'
  <2> SUFFICES ASSUME NEW s \in Running', NEW t \in Running', NEW j \in Indices(s)',
                      NEW k \in Indices(t)', s # t, BlockAt(s, j)' = BlockAt(t, k)'
               PROVE  /\ label'[BlockAt(s, j)'] # <<>>
                      /\ j < len'[s] \div G \/ k < len'[t] \div G
    BY DEF SharedRows
  <2>1. CASE s \in Running /\ t \in Running
    <3>1. /\ BlockAt(s, j)' = BlockAt(s, j) /\ BlockAt(t, k)' = BlockAt(t, k)
          /\ j \in Indices(s) /\ k \in Indices(t)
      BY <1>12, <2>1
    <3>2. label'[BlockAt(s, j)] = label[BlockAt(s, j)]
      BY <1>17, <1>18, <1>21, <2>1, <3>1
    <3> QED
      BY <1>11, <2>1, <3>1, <3>2 DEF ReadInv, RowInv, SharedRows
  <2>2. CASE s \in Running /\ t = r
    <3>1. BlockAt(s, j)' = BlockAt(s, j) /\ j \in Indices(s)
      BY <1>12, <2>2
    <3>2. k \in 0 .. h - 1 /\ label'[BlockAt(s, j)] # <<>>
      BY <1>24, <2>2, <3>1
    <3> QED
      BY <1>4, <1>7, <1>8, <2>2, <3>1, <3>2
  <2>3. CASE s = r /\ t \in Running
    <3>1. BlockAt(t, k)' = BlockAt(t, k) /\ k \in Indices(t)
      BY <1>12, <2>3
    <3>2. j \in 0 .. h - 1 /\ label'[BlockAt(t, k)] # <<>>
      BY <1>24, <2>3, <3>1
    <3> QED
      BY <1>4, <1>7, <1>8, <2>3, <3>1, <3>2
  <2> QED
    BY <1>13, <2>1, <2>2, <2>3
<1>26. ASSUME NEW b \in Blocks, Whole(b)' PROVE Whole(b)
  <2>1. CASE label'[b] # <<>>
    BY <1>18, <2>1 DEF Whole
  <2>2. ASSUME NEW s \in Running', NEW k \in 0 .. Accepted(s)' \div G - 1, BlockAt(s, k)' = b
        PROVE  Whole(b)
    <3>1. CASE s \in Running
      BY <1>12, <2>2, <3>1 DEF Whole
    <3>2. CASE s = r
      <4>1. k \in 0 .. h - 1
        BY <1>8, <1>10, <2>2, <3>2
      <4>2. label[b] # <<>>
        BY <1>9, <1>19, <2>2, <3>2, <4>1, LabelNotEmpty
      <4> QED
        BY <4>2 DEF Whole
    <3> QED
      BY <1>13, <3>1, <3>2
  <2> QED
    BY <1>26, <2>1, <2>2 DEF Whole
<1>27. BeforeInv'
  <2>1. ASSUME NEW s \in Running', NEW k \in 0 .. len'[s] \div G - 1
        PROVE  BlockAt(s, k)' \notin Unsettled'
    <3>1. CASE s \in Running
      <4>1. BlockAt(s, k)' = BlockAt(s, k) /\ len'[s] = len[s]
        BY <1>11, <1>12, <3>1
      <4> QED
        BY <1>1, <1>16, <2>1, <3>1, <4>1 DEF ReadInv, BeforeInv
    <3>2. CASE s = r
      <4>1. k \in 0 .. h - 1
        BY <1>7, <1>8, <2>1, <3>2
      <4> QED
        BY <1>9, <1>16, <1>19, <3>2, <4>1
    <3> QED
      BY <1>13, <3>1, <3>2
  <2>2. ASSUME NEW s \in Running', len'[s] % G # 0 PROVE BlockAt(s, len[s] \div G)' \in held'
    <3>1. s \in Running
      BY <1>7, <1>8, <1>13, <2>2
    <3>2. len'[s] = len[s]
      BY <1>11, <3>1
    <3>3. BlockAt(s, len[s] \div G)' = BlockAt(s, len[s] \div G)
      BY <1>11, <3>1 DEF BlockAt
    <3>4. BlockAt(s, len[s] \div G) \in held
      BY <1>1, <2>2, <3>1, <3>2 DEF ReadInv, BeforeInv
    <3> QED
      BY <1>1, <3>3, <3>4
  <2>3. ASSUME NEW b \in held', Whole(b)' PROVE Complete(b)' \/ b \in WrittenBlocks'
    <3>1. b \in held /\ b \in Blocks
      BY <1>1 DEF SlotInv, SlotTypes
    <3>2. Complete(b) \/ b \in WrittenBlocks
      BY <1>1, <1>26, <2>3, <3>1 DEF ReadInv, BeforeInv
    <3>3. Complete(b)' <=> Complete(b)
      BY <1>1 DEF Complete
    <3> QED
      BY <1>16, <3>2, <3>3
  <2> QED
    BY <2>1, <2>2, <2>3 DEF BeforeInv
<1>28. StepInv'
  BY <1>1 DEF StepInv
<1>29. ASSUME NEW b, NEW d, NEW p, Good(b, d, p) PROVE Good(b, d, p)'
  <2>1. Read(b, p % G)' = Read(b, p % G)
    BY <1>1 DEF Read
  <2>2. ASSUME NEW s \in Scheduled, len[s] <= p, p < Accepted(s), At(s, p) = b, chain[s] = d
        PROVE  len'[s] <= p /\ p < Accepted(s)' /\ At(s, p)' = b /\ chain'[s] = d
    BY <1>11, <1>12, <1>15, <2>2
  <2>3. Coming(b, d, p) => Coming(b, d, p)'
    BY <1>1, <1>14, <2>2 DEF Coming
  <2> QED
    BY <1>29, <2>1, <2>3 DEF Good
<1>30. DataInv'
  <2>1. ASSUME NEW b \in Blocks, NEW d \in Chains, NEW p \in 0 .. MaxLen,
               label'[b] = <<d, p \div G>>
        PROVE  Good(b, d, p)'
    <3>1. label[b] = <<d, p \div G>>
      BY <1>18, <2>1, LabelNotEmpty
    <3> QED
      BY <1>1, <1>29, <3>1 DEF ReadInv, DataInv
  <2>2. ASSUME NEW s \in Running', NEW p \in 0 .. Accepted(s)' - 1
        PROVE  Good(At(s, p), chain[s], p)'
    <3>1. CASE s \in Running
      <4>1. Good(At(s, p), chain[s], p)
        BY <1>1, <1>12, <2>2, <3>1 DEF ReadInv, DataInv
      <4>2. At(s, p)' = At(s, p) /\ chain'[s] = chain[s]
        BY <1>11, <1>12, <3>1
      <4> QED
        BY <1>29, <4>1, <4>2
    <3>2. CASE s = r
      <4>1. p \in 0 .. MaxLen /\ p \in Nat /\ p < start
        BY <1>8, <1>10, <2>2, <3>2, Numbers
      <4> DEFINE k == p \div G
      <4>2. k \in Nat /\ k < h
        <5>1. start <= G * h
          BY <1>4, <1>8, Numbers DEF start
        <5>2. p \div G \in 0 .. h - 1
          BY <1>4, <1>8, <4>1, <5>1, InRow, Numbers
        <5> QED
          BY <1>4, <5>2
      <4> HIDE DEF k
      <4>3. k \in 0 .. h - 1
        BY <1>4, <4>2
      <4>4. BlockAt(r, k)' = bs[k + 1] /\ bs[k + 1] \in Blocks /\ label[bs[k + 1]] = <<c, k>>
        BY <1>9, <1>19, <4>3
      <4>5. Good(bs[k + 1], c, p)
        BY <1>1, <4>1, <4>4 DEF ReadInv, DataInv, k
      <4>6. At(r, p)' = bs[k + 1]
        BY <4>4 DEF At, k
      <4> QED
        BY <1>7, <1>29, <3>2, <4>5, <4>6
    <3> QED
      BY <1>13, <3>1, <3>2
  <2> QED
    BY <2>1, <2>2 DEF DataInv
<1> QED
  BY <1>20, <1>22, <1>23, <1>25, <1>27, <1>28, <1>30 DEF ReadInv, RowInv

\* What a request gets when tokens of it are scheduled: new blocks at the end of its
\* table, and labels for the blocks that are full when the sure ones are accepted.
LEMMA PlaceRow ==
    ASSUME KvarnAssumption, TypeInv, ReadInv, NEW r \in Running, NEW n \in Nat \ {0},
           NEW sure \in 0 .. n, NEW kept, Place(r, n, sure, kept)
    PROVE  \E new \in SUBSET FreeBlocks :
              /\ Indices(r) \subseteq Indices(r)'
              /\ \A k \in Indices(r) : BlockAt(r, k)' = BlockAt(r, k)
              /\ \A k \in Indices(r)' : k \notin Indices(r) => BlockAt(r, k)' \in new
              /\ \A j, k \in Indices(r)' : BlockAt(r, j)' = BlockAt(r, k)' => j = k
              /\ \A k \in 0 .. (len[r] + sure) \div G - 1 :
                    k \in Indices(r)' /\ label'[BlockAt(r, k)'] = <<chain[r], k>>
              /\ \A b \in Blocks :
                    \/ label'[b] = IF b \in new THEN <<>> ELSE label[b]
                    \/ \E k \in 0 .. (len[r] + sure) \div G - 1 : BlockAt(r, k)' = b
              /\ \A p \in Nat : p < len[r] + n => p \div G \in Indices(r)'
<1> DEFINE last == (len[r] + n + Drafts - 1) \div G
           need == last + 1 - Len(table[r])
           m == IF need > 0 THEN need ELSE 0
           d == (len[r] + sure) \div G
           full(row, b) == \E k \in 0 .. d - 1 : row[k + 1] = b
           labels(row, new) == [b \in Blocks |->
               IF full(row, b) THEN <<chain[r], (CHOOSE k \in DOMAIN row : row[k] = b) - 1>>
               ELSE IF b \in Range(new) THEN <<>> ELSE label[b]]
           t == Len(table[r])
<1>1. PICK new \in [1 .. m -> FreeBlocks] :
         /\ IsInjective(new)
         /\ table' = [table EXCEPT ![r] = table[r] \o new]
         /\ label' = labels(table[r] \o new, new)
  BY Zenon DEF Place
<1>2. /\ r \in Reqs /\ len[r] \in Nat /\ table[r] \in Seq(Blocks) /\ t \in Nat \ {0}
      /\ \A k \in Indices(r) : BlockAt(r, k) \in Blocks
  BY RowFacts DEF ReadInv
<1>3. /\ m \in Nat /\ len[r] + n + Drafts <= G * (t + m)
  <2>1. /\ G \in Nat \ {0} /\ len[r] \in Nat /\ n \in Nat \ {0} /\ Drafts \in Nat /\ t \in Nat
    BY <1>2, Numbers
  <2> QED
    BY <2>1, RowLength, Zenon
<1> HIDE DEF m, need, last
<1> DEFINE row == table[r] \o new
<1>4. /\ row \in Seq(Blocks) /\ Len(row) = t + m /\ DOMAIN row = 1 .. t + m
      /\ \A k \in 1 .. t : row[k] = table[r][k]
      /\ \A k \in t + 1 .. t + m : row[k] = new[k - t]
      /\ DOMAIN new = 1 .. m
  <2>1. new \in Seq(Blocks) /\ Len(new) = m /\ DOMAIN new = 1 .. m
    BY <1>1, <1>3 DEF FreeBlocks
  <2>2. ASSUME NEW u \in Seq(Blocks), NEW v \in Seq(Blocks)
        PROVE  /\ u \o v \in Seq(Blocks) /\ Len(u \o v) = Len(u) + Len(v)
               /\ DOMAIN (u \o v) = 1 .. Len(u) + Len(v)
               /\ \A k \in 1 .. Len(u) : (u \o v)[k] = u[k]
               /\ \A k \in Len(u) + 1 .. Len(u) + Len(v) : (u \o v)[k] = v[k - Len(u)]
    OBVIOUS
  <2> QED
    BY <1>2, <2>1, <2>2, Zenon
<1>5. table'[r] = row /\ label' = labels(row, new)
  BY <1>1, <1>2 DEF TypeInv, EngineTypes
<1> HIDE DEF t, d, row
<1>6. t \in Nat \ {0} /\ Indices(r) = 0 .. t - 1
  BY <1>2 DEF Indices, t
<1>7. Indices(r)' = 0 .. t + m - 1 /\ \A k : BlockAt(r, k)' = row[k + 1]
  <2>1. Indices(r)' = 0 .. Len(row) - 1
    BY <1>5 DEF Indices
  <2>2. \A k : BlockAt(r, k)' = row[k + 1]
    BY <1>5 DEF BlockAt
  <2>3. Len(row) - 1 = t + m - 1
    <3>1. Len(row) = t + m /\ t \in Nat /\ m \in Nat
      BY <1>3, <1>4, <1>6
    <3> QED
      BY <3>1
  <2> QED
    BY <2>1, <2>2, <2>3
<1>8. \A k \in Indices(r) : BlockAt(r, k) \in Range(table[r]) /\ BlockAt(r, k) = row[k + 1]
  <2> SUFFICES ASSUME NEW k \in Indices(r)
               PROVE  BlockAt(r, k) \in Range(table[r]) /\ BlockAt(r, k) = row[k + 1]
    OBVIOUS
  <2>1. k + 1 \in 1 .. t /\ k + 1 \in DOMAIN table[r]
    BY <1>2, <1>6 DEF t
  <2> QED
    BY <1>4, <2>1 DEF BlockAt, Range
<1>9. \A k \in 0 .. t + m - 1 : k \notin 0 .. t - 1 =>
         row[k + 1] \in Range(new) /\ k + 1 - t \in 1 .. m /\ row[k + 1] = new[k + 1 - t]
  <2> SUFFICES ASSUME NEW k \in 0 .. t + m - 1, k \notin 0 .. t - 1
               PROVE  row[k + 1] \in Range(new) /\ k + 1 - t \in 1 .. m
                      /\ row[k + 1] = new[k + 1 - t]
    OBVIOUS
  <2>1. k + 1 \in t + 1 .. t + m /\ k + 1 - t \in 1 .. m
    BY <1>3, <1>6
  <2>2. row[k + 1] = new[k + 1 - t]
    <3> DEFINE x == k + 1
    <3>1. x \in t + 1 .. t + m
      BY <2>1
    <3> HIDE DEF x
    <3>2. row[x] = new[x - t]
      BY <1>4, <3>1
    <3> QED
      BY <1>3, <1>6, <2>1, <3>2 DEF x
  <2> QED
    BY <1>4, <2>1, <2>2 DEF Range
<1>10. Range(new) \subseteq FreeBlocks /\ \A b \in Range(new) : b \notin Range(table[r])
  BY <1>1, <1>2 DEF Range, FreeBlocks
<1>11. \A j, k \in 0 .. t + m - 1 : row[j + 1] = row[k + 1] => j = k
  <2> SUFFICES ASSUME NEW j \in 0 .. t + m - 1, NEW k \in 0 .. t + m - 1, row[j + 1] = row[k + 1]
               PROVE  j = k
    OBVIOUS
  <2>1. CASE j \in 0 .. t - 1 /\ k \in 0 .. t - 1
    BY <1>6, <1>8, <2>1 DEF ReadInv, RowInv, RowsDistinct
  <2>2. CASE j \notin 0 .. t - 1 /\ k \notin 0 .. t - 1
    <3>1. new[j + 1 - t] = new[k + 1 - t] /\ j + 1 - t \in DOMAIN new /\ k + 1 - t \in DOMAIN new
      BY <1>4, <1>9, <2>2
    <3>2. j + 1 - t = k + 1 - t
      BY <1>1, <3>1 DEF IsInjective
    <3> QED
      BY <1>3, <1>6, <3>2
  <2>3. CASE j \in 0 .. t - 1 /\ k \notin 0 .. t - 1
    BY <1>6, <1>8, <1>9, <1>10, <2>3
  <2>4. CASE j \notin 0 .. t - 1 /\ k \in 0 .. t - 1
    BY <1>6, <1>8, <1>9, <1>10, <2>4
  <2> QED
    BY <2>1, <2>2, <2>3, <2>4
<1>12. /\ d <= t + m /\ d \in Nat
       /\ \A p \in Nat : p < len[r] + n => p \div G \in 0 .. t + m - 1
  <2> DEFINE w == G * (t + m)
             a == len[r] + sure
             e == len[r] + n
  <2>1. w \in Nat /\ len[r] + n + Drafts <= w
    BY <1>3, <1>6, Numbers DEF t
  <2> HIDE DEF w
  <2>2. a \in Nat /\ a <= w /\ e \in Nat /\ e <= w
    BY <1>2, <2>1, Numbers
  <2>3. a <= G * (t + m) /\ e <= G * (t + m) /\ t + m \in Nat
    BY <1>3, <1>6, <2>2 DEF w
  <2> HIDE DEF a, e
  <2>4. a \div G <= t + m /\ a \div G \in Nat
    BY <2>2, <2>3, InRow, Numbers, Division
  <2>5. \A p \in Nat : p < e => p \div G \in 0 .. t + m - 1
    <3> SUFFICES ASSUME NEW p \in Nat, p < e PROVE p \div G \in 0 .. t + m - 1
      OBVIOUS
    <3> DEFINE u == t + m
    <3>1. u \in Nat /\ e <= G * u /\ e \in Nat
      BY <2>2, <2>3
    <3> HIDE DEF u
    <3>2. p \div G \in 0 .. u - 1
      BY <3>1, InRow, Numbers
    <3> QED
      BY <1>3, <1>6, <3>2 DEF u
  <2> QED
    BY <2>4, <2>5 DEF a, d, e
<1>13. ASSUME NEW k \in 0 .. d - 1
       PROVE  /\ k \in 0 .. t + m - 1 /\ row[k + 1] \in Blocks
              /\ label'[row[k + 1]] = <<chain[r], k>>
  <2>1. k \in 0 .. t + m - 1 /\ k + 1 \in DOMAIN row
    BY <1>3, <1>4, <1>6, <1>12
  <2>2. row[k + 1] \in Blocks
    BY <1>4, <2>1
  <2> DEFINE x == CHOOSE x \in DOMAIN row : row[x] = row[k + 1]
  <2>3. x \in DOMAIN row /\ row[x] = row[k + 1]
    BY <2>1
  <2> HIDE DEF x
  <2>4. x - 1 \in 0 .. t + m - 1 /\ x - 1 + 1 = x
    BY <1>3, <1>4, <1>6, <2>3
  <2>5. x - 1 = k
    BY <1>11, <2>1, <2>3, <2>4
  <2>6. full(row, row[k + 1])
    OBVIOUS
  <2>7. label'[row[k + 1]] = <<chain[r], x - 1>>
    BY <1>5, <2>2, <2>6 DEF x
  <2> QED
    BY <2>1, <2>2, <2>5, <2>7
<1>14. ASSUME NEW b \in Blocks
       PROVE  \/ label'[b] = IF b \in Range(new) THEN <<>> ELSE label[b]
              \/ \E k \in 0 .. d - 1 : row[k + 1] = b
  BY <1>5
<1> DEFINE N == Range(new)
<1>15. N \in SUBSET FreeBlocks
  BY <1>10
<1>16. \A b \in Blocks : \/ label'[b] = IF b \in N THEN <<>> ELSE label[b]
                         \/ \E k \in 0 .. d - 1 : BlockAt(r, k)' = b
  BY <1>7, <1>14
<1>17. Indices(r) \subseteq Indices(r)'
  BY <1>3, <1>6, <1>7
<1>18. \A k \in Indices(r) : BlockAt(r, k)' = BlockAt(r, k)
  BY <1>7, <1>8
<1>19. \A k \in Indices(r)' : k \notin Indices(r) => BlockAt(r, k)' \in N
  BY <1>6, <1>7, <1>9
<1>20. \A j, k \in Indices(r)' : BlockAt(r, j)' = BlockAt(r, k)' => j = k
  BY <1>7, <1>11
<1>21. \A k \in 0 .. d - 1 : k \in Indices(r)' /\ label'[BlockAt(r, k)'] = <<chain[r], k>>
  BY <1>7, <1>13
<1>22. \A p \in Nat : p < len[r] + n => p \div G \in Indices(r)'
  BY <1>7, <1>12
<1> HIDE DEF N
<1> QED
  BY <1>15, <1>16, <1>17, <1>18, <1>19, <1>20, <1>21, <1>22 DEF d

\* What the first pass writes.
LEMMA WrittenFirst ==
    ASSUME KvarnAssumption, TypeInv, BatchInv, pass = 0, NEW r \in Scheduled
    PROVE  /\ Committed(r) = len[r] /\ SeqLen(r) = len[r] + q[r]
           /\ Written(r) = {k \in Indices(r) : len[r] \div G <= k
                                              /\ k <= (len[r] + q[r] - 1) \div G}
<1>1. len[r] \in Nat /\ q[r] \in Nat
  BY LengthsOf
<1>2. SeqLen(r) = len[r] + q[r] /\ Committed(r) = len[r]
  BY <1>1 DEF SeqLen, Committed, QueryLen
<1> QED
  <2> DEFINE e == SeqLen(r) - 1
  <2>1. e = len[r] + q[r] - 1
    BY <1>1, <1>2
  <2>2. Written(r) = {k \in Indices(r) : len[r] \div G <= k /\ k <= e \div G}
    BY <1>2 DEF Written, Indices
  <2> HIDE DEF e
  <2> QED
    BY <1>2, <2>1, <2>2

\* A block that is full after some of the tokens of a step begins before its last one.
LEMMA FullIsBegun ==
    ASSUME NEW g \in Nat \ {0}, NEW a \in Nat, NEW b \in Nat, a <= b, NEW k \in Nat, k < a \div g
    PROVE  k <= (b - 1) \div g /\ k * g < b /\ k * g \in Nat /\ (k * g) \div g = k
<1>1. (k + 1) * g <= a
  BY BlockBefore
<1>2. (k + 1) * g = k * g + g /\ k * g \in Nat /\ g * k = k * g
  OBVIOUS
<1> DEFINE w == k * g
<1>3. w \in Nat /\ w + g <= a
  BY <1>1, <1>2
<1> HIDE DEF w
<1>4. w <= b - 1 /\ b - 1 \in Nat
  BY <1>3
<1>5. k <= (b - 1) \div g
  <2>1. g * k <= b - 1
    BY <1>2, <1>4 DEF w
  <2> QED
    BY <1>4, <2>1, DivisionAbove
<1>6. w < b
  BY <1>3, <1>4
<1> QED
  BY <1>2, <1>5, <1>6, WholeBlocks DEF w

\* No block of a table is free.
LEMMA NotFree ==
    ASSUME TypeInv, NEW s \in Running, NEW k \in Indices(s) PROVE BlockAt(s, k) \notin FreeBlocks
<1>1. table[s] \in Seq(Blocks) /\ s \in Reqs
  BY DEF Running, TypeInv, EngineTypes
<1>2. k + 1 \in DOMAIN table[s]
  BY <1>1 DEF Indices
<1>3. BlockAt(s, k) \in Range(table[s])
  BY <1>2 DEF Range, BlockAt
<1> QED
  BY <1>1, <1>3 DEF FreeBlocks

\* Scheduling tokens does not disturb what is read: what becomes full is written by this
\* step, and a block that another request found in the cache is not.
LEMMA ReadPlace ==
    ASSUME KvarnAssumption, SlotInv, TypeInv, ReadInv, NEW r \in Reqs, NEW n \in Nat \ {0},
           NEW sure \in 0 .. n, NEW kept \in 1 .. n, sure <= kept, Place(r, n, sure, kept)
    PROVE  ReadInv'
<1>1. /\ pc = "schedule" /\ pc' = "schedule" /\ pass' = pass /\ pass = 0 /\ r \in Running
      /\ q[r] = 0 /\ q' = [q EXCEPT ![r] = n] /\ acc' = [acc EXCEPT ![r] = kept]
      /\ chain' = chain /\ len' = len
      /\ UNCHANGED <<held, fill, sinks, pool, tile>>
      /\ \E x : table' = [table EXCEPT ![r] = x]
  <2>1. \E x : table' = [table EXCEPT ![r] = x]
    BY DEF Place
  <2>2. pc = "schedule" /\ pass = 0
    BY DEF Place, ReadInv, BatchInv
  <2> QED
    BY <2>1, <2>2 DEF Place, allocVars, dataVars
<1> DEFINE d == (len[r] + sure) \div G
           inRow(k) == k \in Indices(r)'
<1>2. PICK new \in SUBSET FreeBlocks :
         /\ Indices(r) \subseteq Indices(r)'
         /\ \A k \in Indices(r) : BlockAt(r, k)' = BlockAt(r, k)
         /\ \A k \in Indices(r)' : k \notin Indices(r) => BlockAt(r, k)' \in new
         /\ \A j, k \in Indices(r)' : BlockAt(r, j)' = BlockAt(r, k)' => j = k
         /\ \A k \in 0 .. d - 1 :
               k \in Indices(r)' /\ label'[BlockAt(r, k)'] = <<chain[r], k>>
         /\ \A b \in Blocks :
               \/ label'[b] = IF b \in new THEN <<>> ELSE label[b]
               \/ \E k \in 0 .. d - 1 : BlockAt(r, k)' = b
         /\ \A p \in Nat : p < len[r] + n => p \div G \in Indices(r)'
  BY <1>1, PlaceRow
<1>3. \A s \in Running :
         /\ s \in Reqs /\ len[s] \in Nat /\ acc[s] \in Nat /\ Accepted(s) \in Nat
         /\ len[s] \div G \in Nat /\ len[s] \div G <= Len(table[s])
         /\ \A k \in Indices(s) : BlockAt(s, k) \in Blocks /\ BlockAt(s, k) \notin FreeBlocks
         /\ \A p \in Nat : p < Accepted(s) => p \div G \in Indices(s)
         /\ len[s] % G # 0 => len[s] \div G \in Indices(s)
  <2> SUFFICES ASSUME NEW s \in Running
               PROVE  /\ s \in Reqs /\ len[s] \in Nat /\ acc[s] \in Nat /\ Accepted(s) \in Nat
                      /\ len[s] \div G \in Nat /\ len[s] \div G <= Len(table[s])
                      /\ \A k \in Indices(s) :
                            BlockAt(s, k) \in Blocks /\ BlockAt(s, k) \notin FreeBlocks
                      /\ \A p \in Nat : p < Accepted(s) => p \div G \in Indices(s)
                      /\ len[s] % G # 0 => len[s] \div G \in Indices(s)
    OBVIOUS
  <2>1. /\ s \in Reqs /\ len[s] \in Nat /\ acc[s] \in Nat /\ Accepted(s) \in Nat
        /\ len[s] \div G \in Nat /\ Accepted(s) \div G \in Nat
        /\ len[s] \div G <= Accepted(s) \div G /\ Accepted(s) \div G <= Len(table[s])
        /\ Len(table[s]) \in Nat \ {0}
        /\ \A k \in Indices(s) : BlockAt(s, k) \in Blocks
        /\ \A p \in Nat : p < Accepted(s) => p \div G \in Indices(s)
        /\ len[s] % G # 0 => len[s] \div G \in Indices(s)
    BY RowFacts DEF ReadInv
  <2> DEFINE u == len[s] \div G
             v == Accepted(s) \div G
  <2> HIDE DEF u, v
  <2>2. u <= Len(table[s])
    <3>1. u \in Nat /\ v \in Nat /\ u <= v /\ v <= Len(table[s]) /\ Len(table[s]) \in Nat
      BY <2>1 DEF u, v
    <3> QED
      BY <3>1
  <2> QED
    BY <2>1, <2>2, NotFree DEF u
<1>4. acc[r] = 0 /\ Accepted(r) = len[r]
  <2>1. acc[r] = 0
    BY <1>1 DEF TypeInv, EngineTypes
  <2> QED
    BY <1>1, <1>3, <2>1 DEF Accepted
<1>5. /\ Accepted(r)' = len[r] + kept /\ q'[r] = n /\ len[r] \in Nat
      /\ \A s \in Running : s # r => /\ table'[s] = table[s] /\ acc'[s] = acc[s] /\ q'[s] = q[s]
  <2>1. acc'[r] = kept /\ q'[r] = n
    BY <1>1 DEF TypeInv, EngineTypes
  <2> QED
    BY <1>1, <1>3, <2>1 DEF Accepted, TypeInv, EngineTypes
<1>6. ASSUME NEW s \in Running, s # r
      PROVE  /\ Indices(s)' = Indices(s) /\ Accepted(s)' = Accepted(s)
             /\ \A k : BlockAt(s, k)' = BlockAt(s, k)
             /\ \A p : At(s, p)' = At(s, p)
  BY <1>1, <1>5, <1>6, RowKept
<1>7. Running' = Running
  <2>1. table'[r] # <<>>
    <3>1. 0 \in Indices(r)'
      BY <1>1, <1>2, RowFacts DEF ReadInv, Indices
    <3>2. Len(<<>>) = 0
      OBVIOUS
    <3> QED
      BY <3>1, <3>2 DEF Indices
  <2>2. \A s \in Reqs : s # r => table'[s] = table[s]
    BY <1>1 DEF TypeInv, EngineTypes
  <2> QED
    BY <1>1, <2>1, <2>2 DEF Running
<1>8. Scheduled' = Scheduled \union {r} /\ r \notin Scheduled /\ Scheduled \subseteq Running
  BY <1>1, <1>3, <1>5, <1>7 DEF Scheduled
<1>9. ASSUME NEW s \in Running, NEW k \in Indices(s)
      PROVE  /\ k \in Indices(s)' /\ BlockAt(s, k)' = BlockAt(s, k) /\ BlockAt(s, k) \notin new
             /\ BlockAt(s, k) \in Blocks
  BY <1>2, <1>3, <1>6
<1>10. ASSUME NEW s \in Running, NEW k \in Indices(s)', s # r \/ BlockAt(s, k)' \notin new
       PROVE  k \in Indices(s)
  BY <1>2, <1>6, <1>10
<1>11. ASSUME NEW b \in Blocks, b \notin new, label[b] # <<>> PROVE label'[b] = label[b]
  <2>1. CASE label'[b] = IF b \in new THEN <<>> ELSE label[b]
    BY <1>11, <2>1
  <2>2. ASSUME NEW k \in 0 .. d - 1, BlockAt(r, k)' = b PROVE label'[b] = label[b]
    <3>1. k \in Indices(r)' /\ label'[b] = <<chain[r], k>>
      BY <1>2, <2>2
    <3>2. k \in Indices(r) /\ BlockAt(r, k) = b
      BY <1>1, <1>9, <1>10, <1>11, <2>2, <3>1
    <3>3. label[b] = <<chain[r], k>>
      BY <1>1, <1>11, <3>2 DEF ReadInv, RowInv, LabelsOfRows
    <3> QED
      BY <3>1, <3>3
  <2> QED
    BY <1>2, <2>1, <2>2
<1>12. ASSUME NEW b \in Blocks, label'[b] # <<>>
       PROVE  \/ b \notin new /\ label[b] = label'[b]
              \/ \E k \in 0 .. d - 1 : /\ BlockAt(r, k)' = b /\ label'[b] = <<chain[r], k>>
                                      /\ k \in Indices(r)'
  BY <1>2, <1>12
<1>13. /\ d \in Nat /\ d <= (len[r] + kept) \div G /\ (len[r] + kept) \div G \in Nat
       /\ len[r] \div G \in Nat /\ len[r] \div G <= (len[r] + kept) \div G
       /\ len[r] + kept \in Nat /\ len[r] + sure \in Nat /\ len[r] + n \in Nat
  <2> DEFINE a == len[r]
             b == len[r] + sure
             c == len[r] + kept
  <2>1. a \in Nat /\ b \in Nat /\ c \in Nat /\ a <= c /\ b <= c /\ len[r] + n \in Nat
    BY <1>5
  <2> HIDE DEF a, b, c
  <2>2. /\ a \div G \in Nat /\ b \div G \in Nat /\ c \div G \in Nat
        /\ a \div G <= c \div G /\ b \div G <= c \div G
    BY <2>1, BlockOrder, Division, Numbers
  <2> QED
    BY <2>1, <2>2 DEF a, b, c
<1> HIDE DEF d
<1>14. BatchInv'
  <2>1. \A x \in Reqs : q'[x] > 0 => acc'[x] > 0
    <3> SUFFICES ASSUME NEW x \in Reqs, q'[x] > 0 PROVE acc'[x] > 0
      OBVIOUS
    <3>1. CASE x = r
      <4>1. acc'[x] = kept
        BY <1>1, <3>1 DEF TypeInv, EngineTypes
      <4> QED
        BY <4>1
    <3>2. CASE x # r
      BY <1>1, <3>2 DEF TypeInv, EngineTypes, ReadInv, BatchInv
    <3> QED
      BY <3>1, <3>2
  <2> QED
    BY <1>1, <2>1 DEF ReadInv, BatchInv
<1>15. RowsDistinct'
  <2> SUFFICES ASSUME NEW s \in Running, NEW j \in Indices(s)', NEW k \in Indices(s)',
                      BlockAt(s, j)' = BlockAt(s, k)'
               PROVE  j = k
    BY <1>7 DEF RowsDistinct
  <2>1. CASE s = r
    BY <1>2, <2>1
  <2>2. CASE s # r
    BY <1>6, <2>2 DEF ReadInv, RowInv, RowsDistinct
  <2> QED
    BY <2>1, <2>2
<1>16. ASSUME NEW s \in Running
       PROVE  /\ Accepted(s) \div G \in Nat /\ Accepted(s)' \div G \in Nat
              /\ Accepted(s) \div G <= Accepted(s)' \div G
  <2>1. CASE s = r
    BY <1>4, <1>5, <1>13, <2>1
  <2>2. CASE s # r
    <3>1. Accepted(s) \div G \in Nat
      BY RowFacts DEF ReadInv
    <3> QED
      BY <1>6, <2>2, <3>1
  <2> QED
    BY <2>1, <2>2
<1>17. ASSUME NEW s \in Running, NEW k \in Indices(s), label[BlockAt(s, k)] # <<>>
       PROVE  /\ label'[BlockAt(s, k)] = <<chain[s], k>> /\ k < Accepted(s)' \div G
              /\ k < Accepted(s) \div G
  <2>1. label[BlockAt(s, k)] = <<chain[s], k>> /\ k < Accepted(s) \div G
    BY <1>17 DEF ReadInv, RowInv, LabelsOfRows
  <2>2. label'[BlockAt(s, k)] = label[BlockAt(s, k)]
    BY <1>9, <1>11, <1>17
  <2>3. k \in Nat
    BY <1>3 DEF Indices
  <2> DEFINE x == Accepted(s) \div G
             y == Accepted(s)' \div G
  <2>4. x \in Nat /\ y \in Nat /\ x <= y /\ k < x
    BY <1>16, <2>1
  <2> HIDE DEF x, y
  <2>5. k < y
    BY <2>3, <2>4
  <2> QED
    BY <2>1, <2>2, <2>5 DEF y
<1>18. ASSUME NEW s \in Running, s # r, NEW j \in Indices(s), NEW k \in Indices(r)',
              BlockAt(s, j) = BlockAt(r, k)'
       PROVE  /\ k \in Indices(r) /\ BlockAt(r, k) = BlockAt(s, j)
              /\ label[BlockAt(s, j)] # <<>> /\ label[BlockAt(r, k)] # <<>>
              /\ j < len[s] \div G \/ k < len[r] \div G
  <2>1. BlockAt(r, k)' \notin new
    BY <1>9, <1>18
  <2>2. k \in Indices(r)
    BY <1>1, <1>10, <2>1
  <2>3. BlockAt(r, k) = BlockAt(s, j)
    BY <1>2, <1>18, <2>2
  <2> QED
    BY <1>1, <1>18, <2>2, <2>3 DEF ReadInv, RowInv, SharedRows
<1>19. LabelsOfRows'
  <2> SUFFICES ASSUME NEW s \in Running, NEW k \in Indices(s)', label'[BlockAt(s, k)'] # <<>>
               PROVE  label'[BlockAt(s, k)'] = <<chain[s], k>> /\ k < Accepted(s)' \div G
    BY <1>1, <1>7 DEF LabelsOfRows
  <2>1. CASE k \in Indices(s) /\ label[BlockAt(s, k)] # <<>>
    BY <1>9, <1>17, <2>1
  <2>2. CASE ~(k \in Indices(s) /\ label[BlockAt(s, k)] # <<>>) /\ s # r
    <3>1. k \in Indices(s) /\ label[BlockAt(s, k)] = <<>>
      BY <1>10, <2>2
    <3>2. BlockAt(s, k)' = BlockAt(s, k) /\ BlockAt(s, k) \in Blocks
      BY <1>9, <3>1
    <3>3. PICK j \in 0 .. d - 1 : BlockAt(r, j)' = BlockAt(s, k) /\ j \in Indices(r)'
      BY <1>12, <3>1, <3>2
    <3> QED
      BY <1>18, <2>2, <3>1, <3>3
  <2>3. CASE ~(k \in Indices(s) /\ label[BlockAt(s, k)] # <<>>) /\ s = r
    <3>1. BlockAt(r, k)' \in Blocks
      BY <1>2, <1>9, <2>3 DEF FreeBlocks
    <3>2. ~(BlockAt(r, k)' \notin new /\ label[BlockAt(r, k)'] = label'[BlockAt(r, k)'])
      <4> SUFFICES ASSUME BlockAt(r, k)' \notin new,
                          label[BlockAt(r, k)'] = label'[BlockAt(r, k)']
                   PROVE  FALSE
        OBVIOUS
      <4>1. k \in Indices(r)
        BY <1>1, <1>10, <2>3
      <4> QED
        BY <1>2, <2>3, <4>1
    <3>3. PICK j \in 0 .. d - 1 : /\ BlockAt(r, j)' = BlockAt(r, k)' /\ j \in Indices(r)'
                                 /\ label'[BlockAt(r, k)'] = <<chain[r], j>>
      BY <1>12, <2>3, <3>1, <3>2
    <3>4. j = k
      BY <1>2, <2>3, <3>3
    <3>5. k < (len[r] + kept) \div G
      <4> DEFINE y == (len[r] + kept) \div G
      <4>1. y \in Nat /\ d <= y /\ j \in 0 .. d - 1
        BY <1>13, <3>3
      <4> HIDE DEF y
      <4>2. k < y
        BY <1>13, <3>4, <4>1
      <4> QED
        BY <4>2 DEF y
    <3> QED
      BY <1>5, <2>3, <3>3, <3>4, <3>5
  <2> QED
    BY <2>1, <2>2, <2>3
<1>20. SharedRows'
  <2> SUFFICES ASSUME NEW s \in Running, NEW t \in Running, NEW j \in Indices(s)',
                      NEW k \in Indices(t)', s # t, BlockAt(s, j)' = BlockAt(t, k)'
               PROVE  label'[BlockAt(s, j)'] # <<>> /\ (j < len[s] \div G \/ k < len[t] \div G)
    BY <1>1, <1>7 DEF SharedRows
  <2>1. CASE s # r /\ t # r
    <3>1. /\ j \in Indices(s) /\ k \in Indices(t) /\ BlockAt(s, j)' = BlockAt(s, j)
          /\ BlockAt(t, k)' = BlockAt(t, k)
      BY <1>6, <2>1
    <3>2. label[BlockAt(s, j)] # <<>> /\ (j < len[s] \div G \/ k < len[t] \div G)
      BY <3>1 DEF ReadInv, RowInv, SharedRows
    <3> QED
      BY <1>17, <3>1, <3>2, LabelNotEmpty
  <2>2. CASE s # r /\ t = r
    <3>1. j \in Indices(s) /\ BlockAt(s, j)' = BlockAt(s, j)
      BY <1>6, <2>2
    <3>2. label[BlockAt(s, j)] # <<>> /\ (j < len[s] \div G \/ k < len[t] \div G)
      BY <1>18, <2>2, <3>1
    <3> QED
      BY <1>17, <3>1, <3>2, LabelNotEmpty
  <2>3. CASE s = r /\ t # r
    <3>1. k \in Indices(t) /\ BlockAt(t, k)' = BlockAt(t, k)
      BY <1>6, <2>3
    <3>2. label[BlockAt(t, k)] # <<>> /\ (k < len[t] \div G \/ j < len[s] \div G)
      BY <1>18, <2>3, <3>1
    <3> QED
      BY <1>17, <3>1, <3>2, LabelNotEmpty
  <2> QED
    BY <2>1, <2>2, <2>3
<1>21. ASSUME NEW s \in Scheduled
       PROVE  s \in Running /\ s # r /\ Written(s)' = Written(s)
  <2>1. s \in Running /\ s # r
    BY <1>8
  <2>2. table'[s] = table[s] /\ q'[s] = q[s]
    BY <1>5, <2>1
  <2> QED
    BY <1>1, <2>1, <2>2 DEF Written, Committed, SeqLen, QueryLen
<1>22. Written(r)' = {k \in Indices(r)' : len[r] \div G <= k /\ k <= (len[r] + n - 1) \div G}
  <2>1. SeqLen(r)' = len[r] + n /\ Committed(r)' = len[r]
    BY <1>1, <1>5 DEF SeqLen, Committed, QueryLen
  <2> DEFINE e == SeqLen(r)' - 1
  <2>2. e = len[r] + n - 1
    BY <1>5, <2>1
  <2>3. Written(r)' = {k \in Indices(r)' : len[r] \div G <= k /\ k <= e \div G}
    BY <2>1 DEF Written, Indices
  <2> HIDE DEF e
  <2> QED
    BY <2>2, <2>3
<1>23. /\ WrittenBlocks \subseteq WrittenBlocks'
       /\ \A k \in Written(r)' : BlockAt(r, k)' \in WrittenBlocks'
       /\ \A b \in WrittenBlocks' : b \in WrittenBlocks \/ \E k \in Written(r)' : BlockAt(r, k)' = b
  <2>1. ASSUME NEW s \in Scheduled PROVE \A k : BlockAt(s, k)' = BlockAt(s, k)
    BY <1>6, <1>21
  <2> QED
    BY <1>8, <1>21, <2>1 DEF WrittenBlocks
<1>24. ASSUME NEW x \in 1 .. n, NEW k \in Nat, len[r] \div G <= k, k < (len[r] + x) \div G
       PROVE  k \in Written(r)'
  <2> DEFINE a == len[r] + x
             b == len[r] + n
  <2>1. a \in Nat /\ b \in Nat /\ a <= b
    BY <1>5
  <2> HIDE DEF a, b
  <2>2. k <= (b - 1) \div G /\ k * G < b /\ k * G \in Nat /\ (k * G) \div G = k
    BY <1>24, <2>1, FullIsBegun, Numbers DEF a
  <2>3. k \in Indices(r)'
    BY <1>2, <2>2 DEF b
  <2>4. b - 1 = len[r] + n - 1
    BY <1>5 DEF b
  <2> QED
    BY <1>22, <1>24, <2>2, <2>3, <2>4
<1>25. ASSUME NEW s \in Running, NEW k \in 0 .. len[s] \div G - 1
       PROVE  k \in Indices(s) /\ k < len[s] \div G /\ k < Accepted(s) \div G
  <2> DEFINE u == len[s] \div G
             v == Accepted(s) \div G
  <2>1. u \in Nat /\ v \in Nat /\ u <= v /\ v <= Len(table[s]) /\ Len(table[s]) \in Nat
    BY RowFacts DEF ReadInv
  <2> HIDE DEF u, v
  <2>2. k \in 0 .. u - 1
    BY <1>25 DEF u
  <2>3. k \in 0 .. Len(table[s]) - 1 /\ k < u /\ k < v
    BY <2>1, <2>2
  <2> QED
    BY <2>3 DEF Indices, u, v
<1>26. ASSUME NEW b \in held, Whole(b)' PROVE Whole(b) \/ b \in WrittenBlocks'
  <2>0. b \in Blocks
    BY DEF SlotInv, SlotTypes
  <2>1. ASSUME NEW k \in Nat, NEW x \in 1 .. n, k < (len[r] + x) \div G, BlockAt(r, k)' = b
        PROVE  Whole(b) \/ b \in WrittenBlocks'
    <3>1. CASE k < len[r] \div G
      <4>1. k \in 0 .. len[r] \div G - 1
        <5> DEFINE u == len[r] \div G
        <5>1. u \in Nat /\ k < u
          BY <1>13, <3>1
        <5> HIDE DEF u
        <5>2. k \in 0 .. u - 1
          BY <5>1
        <5> QED
          BY <5>2 DEF u
      <4>2. BlockAt(r, k) = b
        BY <1>1, <1>2, <1>25, <2>1, <4>1
      <4> QED
        BY <1>1, <1>4, <4>1, <4>2 DEF Whole
    <3>2. CASE len[r] \div G <= k
      BY <1>23, <1>24, <2>1, <3>2
    <3> QED
      BY <1>13, <3>1, <3>2
  <2>2. CASE label'[b] # <<>>
    <3>1. CASE b \notin new /\ label[b] = label'[b]
      BY <2>2, <3>1 DEF Whole
    <3>2. ASSUME NEW k \in 0 .. d - 1, BlockAt(r, k)' = b PROVE Whole(b) \/ b \in WrittenBlocks'
      <4>1. k \in Nat /\ k < (len[r] + kept) \div G
        <5> DEFINE y == (len[r] + kept) \div G
        <5>1. d \in Nat /\ y \in Nat /\ d <= y
          BY <1>13
        <5> HIDE DEF y
        <5>2. k \in Nat /\ k < y
          BY <5>1
        <5> QED
          BY <5>2 DEF y
      <4> QED
        BY <2>1, <3>2, <4>1
    <3> QED
      BY <1>12, <2>0, <2>2, <3>1, <3>2
  <2>3. ASSUME NEW s \in Running, NEW k \in 0 .. Accepted(s)' \div G - 1, BlockAt(s, k)' = b
        PROVE  Whole(b) \/ b \in WrittenBlocks'
    <3>1. CASE s = r
      <4>1. k \in Nat /\ k < (len[r] + kept) \div G
        <5> DEFINE y == (len[r] + kept) \div G
        <5>1. y \in Nat /\ k \in 0 .. y - 1
          BY <1>5, <1>13, <2>3, <3>1
        <5> HIDE DEF y
        <5>2. k \in Nat /\ k < y
          BY <5>1
        <5> QED
          BY <5>2 DEF y
      <4> QED
        BY <2>1, <2>3, <3>1, <4>1
    <3>2. CASE s # r
      BY <1>6, <2>3, <3>2 DEF Whole
    <3> QED
      BY <3>1, <3>2
  <2> QED
    BY <1>7, <1>26, <2>2, <2>3 DEF Whole
<1>27. BeforeInv'
  <2>1. ASSUME NEW s \in Running, NEW k \in 0 .. len[s] \div G - 1
        PROVE  BlockAt(s, k)' \notin Unsettled'
    <3>1. /\ k \in Indices(s) /\ k < len[s] \div G /\ BlockAt(s, k)' = BlockAt(s, k)
          /\ BlockAt(s, k) \notin new
      BY <1>9, <1>25, <2>1
    <3>2. BlockAt(s, k) \notin Unsettled
      BY <1>1, <2>1 DEF ReadInv, BeforeInv
    <3> SUFFICES ASSUME NEW j \in Written(r)', BlockAt(r, j)' = BlockAt(s, k) PROVE FALSE
      BY <1>1, <1>23, <3>1, <3>2 DEF Unsettled
    <3>3. j \in Indices(r)' /\ len[r] \div G <= j /\ j \in Nat
      <4>1. j \in Indices(r)' /\ len[r] \div G <= j
        BY <1>22
      <4>2. j \in Nat
        BY <4>1 DEF Indices
      <4> QED
        BY <4>1, <4>2
    <3>4. j \in Indices(r) /\ BlockAt(r, j) = BlockAt(s, k)
      BY <1>1, <1>2, <1>10, <3>1, <3>3
    <3>5. CASE s = r
      <4>1. j = k
        BY <3>1, <3>4, <3>5 DEF ReadInv, RowInv, RowsDistinct
      <4> QED
        BY <1>13, <3>1, <3>3, <3>5, <4>1
    <3>6. CASE s # r
      <4>1. label[BlockAt(r, j)] # <<>>
        BY <1>1, <3>1, <3>4, <3>6 DEF ReadInv, RowInv, SharedRows
      <4>2. j < Accepted(r) \div G
        BY <1>1, <1>17, <3>4, <4>1
      <4> QED
        BY <1>4, <1>13, <3>3, <4>2
    <3> QED
      BY <3>5, <3>6
  <2>2. ASSUME NEW s \in Running, len[s] % G # 0 PROVE BlockAt(s, len[s] \div G)' \in held
    <3>1. len[s] \div G \in Indices(s)
      BY <1>3, <2>2
    <3>2. BlockAt(s, len[s] \div G) \in held
      BY <1>1, <2>2 DEF ReadInv, BeforeInv
    <3>3. BlockAt(s, len[s] \div G)' = table'[s][len[s] \div G + 1]
      BY <1>1 DEF BlockAt
    <3> DEFINE k == len[s] \div G
    <3>4. BlockAt(s, k)' = BlockAt(s, k)
      <4>1. \A i \in Indices(s) : table'[s][i + 1] = table[s][i + 1]
        BY <1>9 DEF BlockAt
      <4> QED
        BY <3>1, <3>3, <4>1 DEF BlockAt
    <3> QED
      BY <3>2, <3>4
  <2>3. ASSUME NEW b \in held, Whole(b)' PROVE Complete(b)' \/ b \in WrittenBlocks'
    <3>1. Whole(b) => Complete(b) \/ b \in WrittenBlocks
      BY <1>1 DEF ReadInv, BeforeInv
    <3>2. Complete(b)' <=> Complete(b)
      BY <1>1 DEF Complete
    <3> QED
      BY <1>23, <1>26, <2>3, <3>1, <3>2
  <2> QED
    BY <1>1, <1>7, <2>1, <2>2, <2>3 DEF BeforeInv
<1>28. StepInv'
  BY <1>1 DEF StepInv
<1>29. ASSUME NEW b, NEW c, NEW p, Good(b, c, p) PROVE Good(b, c, p)'
  <2>1. Read(b, p % G)' = Read(b, p % G)
    BY <1>1 DEF Read
  <2>2. ASSUME NEW s \in Scheduled, len[s] <= p, p < Accepted(s), At(s, p) = b, chain[s] = c
        PROVE  s \in Scheduled' /\ p < Accepted(s)' /\ At(s, p)' = b
    BY <1>6, <1>8, <1>21, <2>2
  <2>3. Coming(b, c, p) => Coming(b, c, p)'
    BY <1>1, <2>2 DEF Coming
  <2> QED
    BY <1>29, <2>1, <2>3 DEF Good
<1>30. ASSUME NEW p \in Nat, p < len[r] + kept
       PROVE  Good(At(r, p), chain[r], p)'
  <2>1. CASE p < len[r]
    <3>1. Good(At(r, p), chain[r], p)
      BY <1>1, <1>4, <1>5, <2>1 DEF ReadInv, DataInv
    <3>2. p \div G \in Indices(r)
      BY <1>1, <1>3, <1>4, <2>1
    <3>3. At(r, p)' = At(r, p)
      BY <1>2, <3>2 DEF At
    <3> QED
      BY <1>1, <1>29, <3>1, <3>3
  <2>2. CASE len[r] <= p
    <3>1. Coming(At(r, p), chain[r], p)'
      BY <1>1, <1>5, <1>8, <1>30, <2>2 DEF Coming
    <3> QED
      BY <3>1 DEF Good
  <2> QED
    BY <1>5, <2>1, <2>2
<1>31. DataInv'
  <2>1. ASSUME NEW b \in Blocks, NEW c \in Chains, NEW p \in 0 .. MaxLen,
               label'[b] = <<c, p \div G>>
        PROVE  Good(b, c, p)'
    <3>1. CASE b \notin new /\ label[b] = label'[b]
      BY <1>1, <1>29, <2>1, <3>1 DEF ReadInv, DataInv
    <3>2. ASSUME NEW k \in 0 .. d - 1, BlockAt(r, k)' = b, label'[b] = <<chain[r], k>>
          PROVE  Good(b, c, p)'
      <4>1. c = chain[r] /\ k = p \div G
        BY <2>1, <3>2
      <4>2. p < len[r] + kept /\ p \in Nat
        <5>1. p \in Nat
          BY Numbers
        <5>2. p \div G < (len[r] + sure) \div G
          <6>1. k < d
            BY <1>13
          <6> QED
            BY <4>1, <6>1 DEF d
        <5>3. p < len[r] + sure
          BY <1>13, <5>1, <5>2, BlockOrder, Numbers
        <5> QED
          BY <1>5, <5>1, <5>3
      <4>3. Good(At(r, p), chain[r], p)'
        BY <1>30, <4>2
      <4>4. At(r, p)' = b
        BY <3>2, <4>1 DEF At
      <4> QED
        BY <1>1, <4>1, <4>3, <4>4
    <3>3. label'[b] # <<>>
      BY <2>1, LabelNotEmpty
    <3> QED
      BY <1>12, <3>1, <3>2, <3>3
  <2>2. ASSUME NEW s \in Running, NEW p \in 0 .. Accepted(s)' - 1
        PROVE  Good(At(s, p), chain[s], p)'
    <3>1. CASE s # r
      <4>1. Good(At(s, p), chain[s], p)
        BY <1>1, <1>6, <2>2, <3>1 DEF ReadInv, DataInv
      <4>2. At(s, p)' = At(s, p)
        BY <1>6, <3>1
      <4> QED
        BY <1>1, <1>29, <4>1, <4>2
    <3>2. CASE s = r
      <4>1. p \in Nat /\ p < len[r] + kept
        BY <1>5, <1>13, <2>2, <3>2
      <4> QED
        BY <1>30, <3>2, <4>1
    <3> QED
      BY <3>1, <3>2
  <2> QED
    BY <1>7, <2>1, <2>2 DEF DataInv
<1> QED
  BY <1>14, <1>15, <1>19, <1>20, <1>27, <1>28, <1>31 DEF ReadInv, RowInv

\* A request leaves before the step is put together, when nothing is to be written.
LEMMA ReadLeave ==
    ASSUME KvarnAssumption, SlotInv, TypeInv, ReadInv, NEW r \in Reqs, Leave(r)
    PROVE  ReadInv'
<1>1. /\ pc = "schedule" /\ pc' = "schedule" /\ pass' = pass /\ r \in Running
      /\ q' = q /\ acc' = acc /\ label' = label /\ Scheduled = {}
      /\ UNCHANGED <<held, fill, sinks, pool, tile>>
  BY DEF Leave, allocVars, dataVars
<1>2. Running' = Running \ {r}
  BY DEF Leave, Running, TypeInv, EngineTypes
<1>3. ASSUME NEW s \in Running'
      PROVE  /\ s \in Running /\ chain'[s] = chain[s] /\ len'[s] = len[s]
             /\ table'[s] = table[s] /\ acc'[s] = acc[s]
  BY <1>1, <1>2 DEF Leave, Running, TypeInv, EngineTypes
<1>4. ASSUME NEW s \in Running'
      PROVE  /\ Indices(s)' = Indices(s) /\ Accepted(s)' = Accepted(s)
             /\ \A k : BlockAt(s, k)' = BlockAt(s, k)
             /\ \A p : At(s, p)' = At(s, p)
  BY <1>3, RowKept
<1>5. Scheduled' = {} /\ WrittenBlocks = {} /\ WrittenBlocks' = {}
  <2>1. Scheduled' = {}
    BY <1>1, <1>2 DEF Scheduled
  <2> QED
    BY <1>1, <2>1 DEF WrittenBlocks
<1>6. BatchInv'
  BY <1>1 DEF ReadInv, BatchInv
<1>7. RowInv'
  <2>1. RowsDistinct'
    BY <1>3, <1>4 DEF ReadInv, RowInv, RowsDistinct
  <2>2. LabelsOfRows'
    BY <1>1, <1>3, <1>4 DEF ReadInv, RowInv, LabelsOfRows
  <2>3. SharedRows'
    <3> SUFFICES ASSUME NEW s \in Running', NEW t \in Running', NEW j \in Indices(s)',
                        NEW k \in Indices(t)', s # t, BlockAt(s, j)' = BlockAt(t, k)'
                 PROVE  /\ label'[BlockAt(s, j)'] # <<>>
                        /\ j < len'[s] \div G \/ k < len'[t] \div G
      BY DEF SharedRows
    <3>1. /\ s \in Running /\ t \in Running /\ j \in Indices(s) /\ k \in Indices(t)
          /\ BlockAt(s, j)' = BlockAt(s, j) /\ BlockAt(t, k)' = BlockAt(t, k)
          /\ len'[s] = len[s] /\ len'[t] = len[t]
      BY <1>3, <1>4
    <3> QED
      BY <1>1, <3>1 DEF ReadInv, RowInv, SharedRows
  <2> QED
    BY <2>1, <2>2, <2>3 DEF RowInv
<1>8. ASSUME NEW b, Whole(b)' PROVE Whole(b)
  BY <1>1, <1>3, <1>4, <1>8 DEF Whole
<1>9. BeforeInv'
  <2>1. \A s \in Running' : \A k \in 0 .. len'[s] \div G - 1 : BlockAt(s, k)' \notin Unsettled'
    BY <1>5 DEF Unsettled
  <2>2. ASSUME NEW s \in Running', len'[s] % G # 0 PROVE BlockAt(s, len[s] \div G)' \in held'
    <3>1. len'[s] = len[s] /\ s \in Running /\ table'[s] = table[s]
      BY <1>3
    <3>2. BlockAt(s, len[s] \div G)' = BlockAt(s, len[s] \div G)
      BY <3>1 DEF BlockAt
    <3> QED
      BY <1>1, <2>2, <3>1, <3>2 DEF ReadInv, BeforeInv
  <2>3. ASSUME NEW b \in held', Whole(b)' PROVE Complete(b)' \/ b \in WrittenBlocks'
    <3>1. Complete(b) \/ b \in WrittenBlocks
      BY <1>1, <1>8, <2>3 DEF ReadInv, BeforeInv
    <3> QED
      BY <1>1, <1>5, <3>1 DEF Complete
  <2> QED
    BY <2>1, <2>2, <2>3 DEF BeforeInv
<1>10. StepInv'
  BY <1>1 DEF StepInv
<1>11. ASSUME NEW b, NEW c, NEW p, Good(b, c, p) PROVE Good(b, c, p)'
  BY <1>1, <1>11 DEF Good, Coming, Read
<1>12. DataInv'
  <2>1. ASSUME NEW s \in Running', NEW p \in 0 .. Accepted(s)' - 1
        PROVE  Good(At(s, p), chain[s], p)'
    <3>1. Good(At(s, p), chain[s], p)
      BY <1>1, <1>3, <1>4, <2>1 DEF ReadInv, DataInv
    <3>2. At(s, p)' = At(s, p) /\ chain'[s] = chain[s]
      BY <1>3, <1>4, <2>1
    <3> QED
      BY <1>11, <3>1, <3>2
  <2>2. ASSUME NEW b \in Blocks, NEW c \in Chains, NEW p \in 0 .. MaxLen,
               label'[b] = <<c, p \div G>>
        PROVE  Good(b, c, p)'
    BY <1>1, <1>11, <2>2 DEF ReadInv, DataInv
  <2> QED
    BY <2>1, <2>2 DEF DataInv
<1> QED
  BY <1>6, <1>7, <1>9, <1>10, <1>12 DEF ReadInv

\* The batch is complete.
LEMMA ReadDispatch == ASSUME ReadInv, Dispatch PROVE ReadInv'
<1>1. /\ pc = "schedule" /\ pc' = "build" /\ pass' = pass /\ pass = 0 /\ RunningPlaced
      /\ UNCHANGED <<chain, table, len, q, acc, label, held, retired, sinks, fill, pool, tile>>
  BY DEF Dispatch, engineVars, allocVars, dataVars, ReadInv, BatchInv
<1>2. BatchInv'
  <2>1. RunningPlaced'
    BY <1>1 DEF RunningPlaced, Scheduled, Running
  <2> QED
    BY <1>1, <2>1 DEF ReadInv, BatchInv
<1>3. RowInv'
  BY <1>1 DEF ReadInv, RowInv, RowsDistinct, LabelsOfRows, SharedRows, Running, Indices, BlockAt,
              Accepted
<1>4. Unsettled' = Unsettled /\ WrittenBlocks' = WrittenBlocks
  BY <1>1 DEF Unsettled, WrittenBlocks, Written, Committed, SeqLen, QueryLen, BlockAt, Scheduled,
              Running
<1>5. \A b : (Whole(b)' <=> Whole(b)) /\ (Complete(b)' <=> Complete(b))
  BY <1>1 DEF Whole, Complete, Running, Accepted, BlockAt
<1>6. BeforeInv'
  BY <1>1, <1>4, <1>5 DEF ReadInv, BeforeInv, Running, BlockAt
<1>7. StepInv'
  BY <1>1 DEF StepInv
<1>8. \A b, c, p : Good(b, c, p) => Good(b, c, p)'
  BY <1>1 DEF Good, Coming, Read, Scheduled, Running, Accepted, At, BlockAt
<1>9. DataInv'
  BY <1>1, <1>8 DEF ReadInv, DataInv, Running, Accepted, At, BlockAt
<1> QED
  BY <1>2, <1>3, <1>6, <1>7, <1>9 DEF ReadInv

\* The next pass of the drafter changes nothing that is read.
LEMMA ReadDraft == ASSUME KvarnAssumption, TypeInv, ReadInv, Draft PROVE ReadInv'
<1>1. /\ pc = "attend" /\ pc' = "build" /\ pass' # 0
      /\ UNCHANGED <<chain, table, len, q, acc, label, held, retired, sinks, fill, pool, tile>>
  BY Numbers DEF Draft, engineVars, allocVars, dataVars, TypeInv
<1>2. BatchInv'
  <2>1. RunningPlaced'
    BY <1>1 DEF RunningPlaced, Scheduled, Running, ReadInv, BatchInv
  <2> QED
    BY <1>1, <2>1 DEF ReadInv, BatchInv
<1>3. RowInv'
  BY <1>1 DEF ReadInv, RowInv, RowsDistinct, LabelsOfRows, SharedRows, Running, Indices, BlockAt,
              Accepted
<1>4. \A b : (Whole(b)' <=> Whole(b)) /\ (Complete(b)' <=> Complete(b))
  BY <1>1 DEF Whole, Complete, Running, Accepted, BlockAt
<1>5. BeforeInv'
  BY <1>1 DEF BeforeInv
<1>6. StepInv'
  BY <1>1, <1>4 DEF ReadInv, StepInv, Scheduled, Running, BlockAt
<1>7. \A b, c, p : Good(b, c, p) => Good(b, c, p)'
  BY <1>1 DEF Good, Coming, Read
<1>8. DataInv'
  BY <1>1, <1>7 DEF ReadInv, DataInv, Running, Accepted, At, BlockAt
<1> QED
  BY <1>2, <1>3, <1>5, <1>6, <1>8 DEF ReadInv

\* When the step ends the accepted tokens are tokens of the requests; nothing is written.
LEMMA ReadAccept ==
    ASSUME KvarnAssumption, SlotInv, TypeInv, ReadInv, Accept PROVE ReadInv'
<1>1. /\ pc = "attend" /\ pc' = "schedule" /\ pass' = 0 /\ RunningPlaced
      /\ UNCHANGED <<chain, table, label, held, retired, sinks, fill, pool, tile>>
      /\ len' = [r \in Reqs |-> len[r] + acc[r]]
      /\ q' = [r \in Reqs |-> 0] /\ acc' = [r \in Reqs |-> 0]
  BY DEF Accept, allocVars, dataVars, ReadInv, BatchInv
<1>2. Running' = Running /\ Scheduled' = {}
  BY <1>1 DEF Running, Scheduled
<1>3. WrittenBlocks' = {} /\ Unsettled' = {}
  BY <1>2 DEF WrittenBlocks, Unsettled
<1>4. ASSUME NEW s \in Running
      PROVE  /\ s \in Reqs /\ len[s] \in Nat /\ Accepted(s) \in Nat
             /\ len'[s] = Accepted(s) /\ Accepted(s)' = Accepted(s)
             /\ Indices(s)' = Indices(s) /\ \A k : BlockAt(s, k)' = BlockAt(s, k)
             /\ \A p : At(s, p)' = At(s, p)
             /\ len[s] \div G \in Nat /\ Accepted(s) \div G \in Nat
             /\ len[s] \div G <= Accepted(s) \div G
  <2>1. /\ s \in Reqs /\ len[s] \in Nat /\ Accepted(s) \in Nat
        /\ len[s] \div G \in Nat /\ Accepted(s) \div G \in Nat
        /\ len[s] \div G <= Accepted(s) \div G
    BY RowFacts DEF ReadInv
  <2>2. len'[s] = Accepted(s) /\ Accepted(s)' = Accepted(s) + 0
    BY <1>1, <2>1 DEF Accepted
  <2> QED
    BY <1>1, <2>1, <2>2 DEF Indices, BlockAt, At
<1>5. BatchInv'
  BY <1>1 DEF ReadInv, BatchInv
<1>6. RowInv'
  <2>1. RowsDistinct'
    BY <1>2, <1>4 DEF ReadInv, RowInv, RowsDistinct
  <2>2. LabelsOfRows'
    BY <1>1, <1>2, <1>4 DEF ReadInv, RowInv, LabelsOfRows
  <2>3. SharedRows'
    <3> SUFFICES ASSUME NEW s \in Running', NEW t \in Running', NEW j \in Indices(s)',
                        NEW k \in Indices(t)', s # t, BlockAt(s, j)' = BlockAt(t, k)'
                 PROVE  /\ label'[BlockAt(s, j)'] # <<>>
                        /\ j < len'[s] \div G \/ k < len'[t] \div G
      BY DEF SharedRows
    <3>0. /\ s \in Running /\ t \in Running /\ j \in Indices(s) /\ k \in Indices(t)
          /\ BlockAt(s, j)' = BlockAt(s, j) /\ BlockAt(s, j) = BlockAt(t, k)
          /\ len'[s] = Accepted(s) /\ len'[t] = Accepted(t) /\ label' = label
      BY <1>1, <1>2, <1>4
    <3>1. label[BlockAt(s, j)] # <<>> /\ (j < len[s] \div G \/ k < len[t] \div G)
      BY <3>0 DEF ReadInv, RowInv, SharedRows
    <3>2. j \in Nat /\ k \in Nat
      BY <3>0 DEF Indices
    <3> DEFINE a == len[s] \div G
               b == len[t] \div G
               c == Accepted(s) \div G
               d == Accepted(t) \div G
    <3>3. /\ a \in Nat /\ b \in Nat /\ c \in Nat /\ d \in Nat /\ a <= c /\ b <= d
          /\ j < a \/ k < b
      BY <1>4, <3>0, <3>1
    <3> HIDE DEF a, b, c, d
    <3>4. j < c \/ k < d
      BY <3>2, <3>3
    <3> QED
      BY <3>0, <3>1, <3>4 DEF c, d
  <2> QED
    BY <2>1, <2>2, <2>3 DEF RowInv
<1>7. \A b : (Whole(b)' <=> Whole(b)) /\ (Complete(b)' <=> Complete(b))
  BY <1>1, <1>2, <1>4 DEF Whole, Complete
<1>8. BeforeInv'
  <2>1. ASSUME NEW s \in Running, Accepted(s) % G # 0
        PROVE  BlockAt(s, Accepted(s) \div G) \in held
    <3>1. CASE s \in Scheduled
      <4> DEFINE e == Accepted(s) - 1
                 z == len[s] + q[s] - 1
      <4>1. /\ len[s] \in Nat /\ q[s] \in Nat \ {0} /\ acc[s] \in Nat \ {0} /\ acc[s] <= q[s]
            /\ Accepted(s) = len[s] + acc[s]
        BY <3>1, RowFacts DEF ReadInv, Accepted
      <4>2. /\ e \in Nat /\ z \in Nat /\ len[s] <= e /\ e <= z
        BY <4>1
      <4>3. e \div G = Accepted(s) \div G
        BY <1>4, <2>1, Numbers, BlockEnds
      <4> HIDE DEF e, z
      <4>4. /\ e \div G \in Nat /\ len[s] \div G \in Nat /\ z \div G \in Nat
            /\ len[s] \div G <= e \div G /\ e \div G <= z \div G
        BY <4>1, <4>2, BlockOrder, Division, Numbers
      <4>5. e \div G \in (len[s] \div G) .. (z \div G)
        BY <4>4
      <4>6. BlockAt(s, e \div G) \in held
        BY <1>1, <3>1, <4>5 DEF ReadInv, StepInv, z
      <4> QED
        BY <4>3, <4>6
    <3>2. CASE s \notin Scheduled
      <4>1. Accepted(s) = len[s]
        BY <3>2, RowFacts DEF ReadInv
      <4> QED
        BY <1>1, <2>1, <3>2, <4>1 DEF RunningPlaced
    <3> QED
      BY <3>1, <3>2
  <2>2. ASSUME NEW s \in Running, len'[s] % G # 0 PROVE BlockAt(s, len'[s] \div G) \in held
    BY <1>4, <2>1, <2>2
  <2>3. ASSUME NEW b \in held, Whole(b) PROVE Complete(b)
    BY <1>1, <2>3 DEF ReadInv, StepInv
  <2>4. ASSUME NEW s \in Running, len'[s] % G # 0 PROVE BlockAt(s, len[s] \div G)' \in held
    <3>1. BlockAt(s, len[s] \div G)' = table[s][len'[s] \div G + 1]
      BY <1>1 DEF BlockAt
    <3> QED
      BY <2>2, <2>4, <3>1 DEF BlockAt
  <2> QED
    BY <1>1, <1>2, <1>3, <1>7, <2>3, <2>4 DEF BeforeInv
<1>9. StepInv'
  BY <1>1 DEF StepInv
<1>10. \A b, c, p : Good(b, c, p) => Good(b, c, p)'
  BY <1>1 DEF Good, Coming, Read
<1>11. DataInv'
  <2>1. ASSUME NEW s \in Running, NEW p \in 0 .. Accepted(s) - 1
        PROVE  Good(At(s, p), chain[s], p)'
    <3>1. Good(At(s, p), chain[s], p)
      BY <1>1, <2>1 DEF ReadInv, DataInv
    <3>2. At(s, p)' = At(s, p) /\ chain'[s] = chain[s]
      BY <1>1, <1>4, <2>1
    <3> QED
      BY <1>10, <3>1, <3>2
  <2>2. ASSUME NEW b \in Blocks, NEW c \in Chains, NEW p \in 0 .. MaxLen,
               label[b] = <<c, p \div G>>
        PROVE  Good(b, c, p)'
    BY <1>1, <1>10, <2>2 DEF ReadInv, DataInv
  <2> QED
    BY <1>1, <1>2, <1>4, <2>1, <2>2 DEF DataInv
<1> QED
  BY <1>5, <1>6, <1>8, <1>9, <1>11 DEF ReadInv

\* Position p of a chain is what is read of block b: a request has it there, or the block
\* is in the cache as the one with this position.
Wanted(b, c, p) ==
    \/ label[b] = <<c, p \div G>>
    \/ \E r \in Running : p < Accepted(r) /\ At(r, p) = b /\ chain[r] = c

\* What the data has to be.
LEMMA DataOf ==
    ASSUME DataInv, pc # "exhausted", NEW b \in Blocks, NEW c \in Chains, NEW p \in 0 .. MaxLen,
           KvarnAssumption, TypeInv, BatchInv, Wanted(b, c, p)
    PROVE  Good(b, c, p)
<1>1. CASE label[b] = <<c, p \div G>>
  BY <1>1 DEF DataInv
<1>2. ASSUME NEW r \in Running, p < Accepted(r), At(r, p) = b, chain[r] = c PROVE Good(b, c, p)
  <2>1. p \in 0 .. Accepted(r) - 1
    BY <1>2, RowFacts, Numbers
  <2> QED
    BY <1>2, <2>1 DEF DataInv
<1> QED
  BY <1>1, <1>2 DEF Wanted

\* The data after a step of the builder or of a kernel.
LEMMA DataKept ==
    ASSUME KvarnAssumption, TypeInv, BatchInv, UNCHANGED <<chain, table, len, acc, label>>,
           \A b \in Blocks, c \in Chains, p \in 0 .. MaxLen :
               Wanted(b, c, p) => Good(b, c, p)'
    PROVE  DataInv'
<1>1. /\ Running' = Running
      /\ \A s \in Running : /\ Accepted(s)' = Accepted(s) /\ chain'[s] = chain[s]
                            /\ \A p : At(s, p)' = At(s, p)
  BY DEF Running, Accepted, At, BlockAt
<1>2. ASSUME NEW s \in Running, NEW p \in 0 .. Accepted(s) - 1
      PROVE  Good(At(s, p), chain[s], p)'
  <2>1. /\ p \in Nat /\ p < Accepted(s) /\ p \in 0 .. MaxLen
        /\ chain[s] \in Chains
    BY RowFacts, Numbers
  <2>2. At(s, p) \in Blocks
    BY <2>1, RowFacts DEF At
  <2>3. Wanted(At(s, p), chain[s], p)
    BY <2>1 DEF Wanted
  <2>4. PICK b \in Blocks, c \in Chains : b = At(s, p) /\ c = chain[s]
    BY <2>1, <2>2
  <2>5. At(s, p)' = b /\ chain'[s] = c
    BY <1>1, <2>4
  <2>6. Good(b, c, p)'
    BY <2>1, <2>3, <2>4
  <2> QED
    BY <2>5, <2>6
<1>3. ASSUME NEW b \in Blocks, NEW c \in Chains, NEW p \in 0 .. MaxLen, label[b] = <<c, p \div G>>
      PROVE  Good(b, c, p)'
  BY <1>3 DEF Wanted
<1> QED
  BY <1>1, <1>2, <1>3 DEF DataInv

\* A request that has a block where a position of a chain is wanted has this position there.
LEMMA OwnerFacts ==
    ASSUME KvarnAssumption, TypeInv, BatchInv, RowInv,
           NEW b \in Blocks, NEW c \in Chains, NEW p \in 0 .. MaxLen, Wanted(b, c, p),
           NEW s \in Running, NEW k \in Indices(s), BlockAt(s, k) = b
    PROVE  k = p \div G /\ chain[s] = c /\ p < Accepted(s)
<1>1. CASE label[b] # <<>>
  <2>1. label[b] = <<chain[s], k>> /\ k < Accepted(s) \div G
    BY <1>1 DEF RowInv, LabelsOfRows
  <2>2. label[b] = <<c, p \div G>>
    <3>1. ASSUME NEW r \in Running, p < Accepted(r), At(r, p) = b, chain[r] = c
          PROVE  label[b] = <<c, p \div G>>
      <4>1. p \div G \in Indices(r)
        BY <3>1, RowFacts, Numbers
      <4> QED
        BY <1>1, <3>1, <4>1 DEF RowInv, LabelsOfRows, At
    <3> QED
      BY <3>1 DEF Wanted
  <2>3. chain[s] = c /\ k = p \div G
    BY <2>1, <2>2
  <2>4. p \in Nat /\ Accepted(s) \in Nat
    BY RowFacts, Numbers
  <2>5. p < Accepted(s)
    BY <2>1, <2>3, <2>4, BlockOrder, Numbers
  <2> QED
    BY <2>3, <2>5
<1>2. CASE label[b] = <<>>
  <2>1. PICK r \in Running : p < Accepted(r) /\ At(r, p) = b /\ chain[r] = c
    BY <1>2, LabelNotEmpty DEF Wanted
  <2>2. p \div G \in Indices(r) /\ BlockAt(r, p \div G) = b
    BY <2>1, RowFacts, Numbers DEF At
  <2>3. r = s
    BY <1>2, <2>2 DEF RowInv, SharedRows
  <2>4. k = p \div G
    BY <2>2, <2>3 DEF RowInv, RowsDistinct
  <2> QED
    BY <2>1, <2>3, <2>4
<1> QED
  BY <1>1, <1>2

\* Who writes a place that is wanted writes what is wanted there, and only the first pass does.
LEMMA WriterFacts ==
    ASSUME KvarnAssumption, TypeInv, BatchInv, RowInv,
           NEW b \in Blocks, NEW c \in Chains, NEW p \in 0 .. MaxLen, Wanted(b, c, p),
           NEW s \in Scheduled, NEW u \in Nat, Committed(s) <= u, u < SeqLen(s), At(s, u) = b,
           u % G = p % G
    PROVE  /\ u = p /\ chain[s] = c /\ len[s] <= p /\ p < Accepted(s) /\ pass = 0
           /\ \E k \in Indices(s) : BlockAt(s, k) = b /\ k = u \div G
<1> DEFINE k == u \div G
           n == Len(table[s])
<1>1. s \in Running /\ SeqLen(s) \in Nat /\ n \in Nat /\ len[s] \in Nat /\ len[s] <= Committed(s)
      /\ Accepted(s) \in Nat /\ Committed(s) \in Nat /\ len[s] <= u
  <2>1. s \in Running
    BY DEF Scheduled
  <2>2. len[s] \in Nat /\ Committed(s) \in Nat /\ SeqLen(s) \in Nat /\ len[s] <= Committed(s)
    BY LengthsOf
  <2> QED
    BY <2>1, <2>2, RowFacts
<1>2. k \in Indices(s) /\ BlockAt(s, k) = b /\ k \in Nat
  <2>1. SeqLen(s) <= G * n
    <3>1. /\ SeqLen(s) <= len[s] + q[s] + Drafts /\ len[s] + q[s] + Drafts <= G * n
      BY <1>1, LengthsOf, RowFacts
    <3> DEFINE w == G * n
               v == len[s] + q[s] + Drafts
    <3>2. SeqLen(s) <= v /\ v <= w
      BY <3>1
    <3>3. len[s] \in Nat /\ q[s] \in Nat
      BY LengthsOf
    <3> HIDE DEF n
    <3>4. w \in Nat /\ v \in Nat
      BY <1>1, <3>3, Numbers
    <3> HIDE DEF w, v
    <3> QED
      BY <1>1, <3>2, <3>4 DEF w
  <2>2. k \in 0 .. n - 1
    BY <1>1, <2>1, InRow, Numbers
  <2> QED
    BY <2>2 DEF Indices, At
<1>3. k = p \div G /\ chain[s] = c /\ p < Accepted(s)
  BY <1>1, <1>2, OwnerFacts
<1>4. u = p
  BY <1>3, PositionOf, Numbers
<1>5. pass = 0
  <2>1. SUFFICES ASSUME pass # 0 PROVE Accepted(s) <= u
    BY <1>1, <1>3, <1>4
  <2>2. len[s] \in Nat /\ acc[s] \in Nat /\ pass \in Nat \ {0}
    BY <2>1, LengthsOf, Numbers DEF TypeInv
  <2>3. Committed(s) = len[s] + acc[s] + pass - 1
    BY <2>1, <2>2 DEF Committed, SeqLen, QueryLen
  <2> QED
    BY <2>2, <2>3 DEF Accepted
<1> QED
  BY <1>1, <1>2, <1>3, <1>4, <1>5

\* A position that the first pass writes is in a block that it writes.
LEMMA ComingWritten ==
    ASSUME KvarnAssumption, TypeInv, BatchInv, pass = 0, NEW s \in Scheduled, NEW p \in Nat,
           len[s] <= p, p < Accepted(s)
    PROVE  /\ p \div G \in Written(s) /\ At(s, p) \in WrittenBlocks /\ p < SeqLen(s)
           /\ p \div G \in (len[s] \div G) .. ((len[s] + q[s] - 1) \div G)
<1>1. /\ s \in Running /\ len[s] \in Nat /\ q[s] \in Nat \ {0} /\ acc[s] \in Nat
      /\ acc[s] <= q[s] /\ p \div G \in Indices(s)
  BY RowFacts DEF Scheduled
<1> DEFINE e == len[s] + q[s] - 1
<1>2. e \in Nat /\ p <= e /\ p < len[s] + q[s]
  BY <1>1 DEF Accepted
<1> HIDE DEF e
<1>3. /\ len[s] \div G <= p \div G /\ p \div G <= e \div G
      /\ len[s] \div G \in Nat /\ p \div G \in Nat /\ e \div G \in Nat
  BY <1>1, <1>2, BlockOrder, Division, Numbers
<1>4. p \div G \in Written(s) /\ SeqLen(s) = len[s] + q[s]
  BY <1>1, <1>3, WrittenFirst DEF e
<1>5. At(s, p) \in WrittenBlocks
  BY <1>4 DEF WrittenBlocks, At
<1>6. p \div G \in (len[s] \div G) .. (e \div G)
  BY <1>3
<1> QED
  BY <1>2, <1>4, <1>5, <1>6 DEF e

\* The kernel writes what was to come, and nothing else that is read.
LEMMA ReadStore ==
    ASSUME KvarnAssumption, SlotInv, TypeInv, ReadInv, Store PROVE ReadInv'
<1> DEFINE stored == held \cap WrittenBlocks
<1>1. /\ pc = "store" /\ pc' = "attend" /\ pass' = pass
      /\ UNCHANGED <<chain, table, len, q, acc, label, held, retired, sinks, fill, tile>>
      /\ pool' = [b \in Blocks |-> IF b \notin stored THEN pool[b] ELSE [i \in 0 .. G - 1 |->
               IF Writes(b, i) = {} THEN pool[b][i]
               ELSE Stored(CHOOSE w \in Writes(b, i) : TRUE)]]
  BY DEF Store, engineVars, allocVars
<1>2. BatchInv'
  <2>1. RunningPlaced'
    BY <1>1 DEF RunningPlaced, Scheduled, Running, ReadInv, BatchInv
  <2> QED
    BY <1>1, <2>1 DEF ReadInv, BatchInv
<1>3. RowInv'
  BY <1>1 DEF ReadInv, RowInv, RowsDistinct, LabelsOfRows, SharedRows, Running, Indices, BlockAt,
              Accepted
<1>4. \A b : (Whole(b)' <=> Whole(b)) /\ (Complete(b)' <=> Complete(b))
  BY <1>1 DEF Whole, Complete, Running, Accepted, BlockAt
<1>5. BeforeInv'
  BY <1>1 DEF BeforeInv
<1>6. StepInv'
  BY <1>1, <1>4 DEF ReadInv, StepInv, Scheduled, Running, BlockAt
<1>7. ASSUME NEW b \in Blocks, NEW c \in Chains, NEW p \in 0 .. MaxLen, Wanted(b, c, p)
      PROVE  Read(b, p % G)' = Value(c, p)
  <2> DEFINE i == p % G
  <2>1. Good(b, c, p) /\ i \in 0 .. G - 1 /\ p \in Nat
    <3>1. p \in Nat /\ i \in 0 .. G - 1
      <4>1. p \in Nat /\ G \in Nat \ {0}
        BY Numbers
      <4>2. p % G \in 0 .. G - 1
        BY <4>1, Remainder
      <4> QED
        BY <4>1, <4>2
    <3>2. pc # "exhausted"
      BY <1>1
    <3> QED
      BY <1>7, <3>1, <3>2, DataOf DEF ReadInv
  <2>2. ASSUME NEW w \in Writes(b, i) PROVE Stored(w) = Value(c, p) /\ b \in WrittenBlocks
    <3>1. /\ w[1] \in Scheduled /\ w[2] \in Nat /\ w[2] \in Committed(w[1]) .. SeqLen(w[1]) - 1
          /\ At(w[1], w[2]) = b /\ w[2] % G = p % G
      BY Numbers DEF Writes, At
    <3>2. Committed(w[1]) <= w[2] /\ w[2] < SeqLen(w[1])
      <4>1. Committed(w[1]) \in Nat /\ SeqLen(w[1]) \in Nat
        BY <3>1, LengthsOf
      <4> QED
        BY <3>1, <4>1
    <3>3. /\ w[2] = p /\ chain[w[1]] = c /\ p < Accepted(w[1]) /\ pass = 0 /\ len[w[1]] <= p
      BY <1>7, <3>1, <3>2, WriterFacts DEF ReadInv
    <3>4. b \in WrittenBlocks
      BY <2>1, <3>1, <3>3, ComingWritten DEF ReadInv
    <3> QED
      BY <3>3, <3>4 DEF Stored, Accepted
  <2>3. CASE b \in stored /\ Writes(b, i) # {}
    <3> DEFINE w == CHOOSE x \in Writes(b, i) : TRUE
    <3>1. w \in Writes(b, i)
      BY <2>3
    <3>2. pool'[b][i] = Stored(w)
      BY <1>1, <2>1, <2>3
    <3> HIDE DEF w
    <3>3. Stored(w) = Value(c, p)
      BY <2>2, <3>1
    <3>4. b \in held'
      BY <1>1, <2>3
    <3> QED
      BY <3>2, <3>3, <3>4 DEF Read
  <2>4. CASE b \notin stored \/ Writes(b, i) = {}
    <3>1. Read(b, i)' = Read(b, i)
      <4>1. pool'[b][i] = pool[b][i]
        BY <1>1, <2>1, <2>4 DEF TypeInv, DataTypes, Contents
      <4> QED
        BY <1>1, <4>1 DEF Read
    <3>2. ~Coming(b, c, p)
      <4> SUFFICES ASSUME pass = 0, NEW s \in Scheduled, len[s] <= p, p < Accepted(s),
                          At(s, p) = b, chain[s] = c
                   PROVE  FALSE
        BY DEF Coming
      <4>1. /\ At(s, p) \in WrittenBlocks /\ p < SeqLen(s)
            /\ p \div G \in (len[s] \div G) .. ((len[s] + q[s] - 1) \div G)
        BY <2>1, ComingWritten DEF ReadInv
      <4>2. b \in held
        BY <1>1, <4>1 DEF ReadInv, StepInv, At
      <4>3. <<s, p>> \in Writes(b, i)
        <5>1. Committed(s) = len[s] /\ SeqLen(s) \in Nat /\ len[s] \in Nat
          BY LengthsOf, WrittenFirst DEF ReadInv
        <5>2. p \in Committed(s) .. SeqLen(s) - 1
          BY <2>1, <4>1, <5>1
        <5> HIDE DEF i
        <5> DEFINE w == <<s, p>>
        <5>3. w \in Scheduled \X (0 .. MaxLen) /\ w[1] = s /\ w[2] = p
          OBVIOUS
        <5> HIDE DEF w
        <5>4. BlockAt(w[1], w[2] \div G) = b /\ w[2] % G = i
          BY <5>3 DEF At, i
        <5>5. w \in Writes(b, i)
          BY <5>2, <5>3, <5>4 DEF Writes
        <5> QED
          BY <5>5 DEF w
      <4> QED
        BY <2>4, <4>1, <4>2, <4>3
    <3> QED
      BY <2>1, <3>1, <3>2 DEF Good
  <2> QED
    BY <2>3, <2>4
<1>8. DataInv'
  <2>1. \A b \in Blocks, c \in Chains, p \in 0 .. MaxLen : Wanted(b, c, p) => Good(b, c, p)'
    BY <1>7 DEF Good
  <2> QED
    BY <1>1, <2>1, DataKept DEF ReadInv
<1> QED
  BY <1>2, <1>3, <1>5, <1>6, <1>8 DEF ReadInv

\* What a build does to the slots: the blocks that it writes get one, and only a partial
\* block that nothing writes loses what it holds.
LEMMA BuildFacts ==
    ASSUME KvarnAssumption, SlotInv, TypeInv, BatchInv, BeforeInv, Build
    PROVE  \E drop \in SUBSET held :
               /\ WrittenBlocks \subseteq held' /\ sinks' \subseteq held'
               /\ WrittenBlocks \cap Range(retired') = {}
               /\ \A b \in Blocks : b \notin WrittenBlocks \ held /\ b \notin drop =>
                      \A i : Read(b, i)' = Read(b, i)
               /\ \A b \in drop : pass = 0 /\ b \notin WrittenBlocks /\ ~Complete(b)
               /\ \A b \in held' : b \notin WrittenBlocks =>
                      b \in held /\ (Complete(b)' <=> Complete(b))
               /\ \A b \in WrittenBlocks : fill'[b] = FillOf(b)
               /\ pass # 0 => \A b \in held : b \notin Range(retired) =>
                                  b \in held' \ Range(retired')
<1> DEFINE written == WrittenBlocks
           marked  == SinksMarked(written)
           needed  == Needed(written, marked)
           current == marked \ Relabelled(needed)
           walked  == IF pass = 0 THEN UNION {WalkBack(r, current) : r \in Scheduled} ELSE {}
           unused  == IF pass = 0 THEN held \ (needed \union walked) ELSE {}
           retire  == {b \in unused : Complete(b) /\ b \in current}
           flush   == walked \union {b \in unused : Complete(b) /\ b \notin current}
           drop    == {b \in unused : ~Complete(b)}
           free    == freeSlots + SlotsGiven(flush, drop)
           fresh   == needed \ (held \ flush)
<1>1. PICK kept \in Kept(retired, needed), newest \in SetToSeqs(retire \ Range(retired)) :
         LET old     == kept \o newest
             evicted == Evicted(Cardinality(fresh) - free, old)
             gone    == flush \union drop \union evicted
             left    == free + Cardinality(evicted) - Cardinality(fresh)
         IN  /\ pc' = IF left < 0 THEN "exhausted" ELSE "store"
             /\ held' = (held \ gone) \union fresh
             /\ freeSlots' = left
             /\ tile' = [b \in Blocks |->
                           IF b \in flush \union evicted THEN pool[b]
                           ELSE IF b \in fresh THEN Empty ELSE tile[b]]
             /\ pool' = [b \in Blocks |->
                           IF b \in gone \union fresh THEN Empty ELSE pool[b]]
             /\ sinks' = current \ (drop \union evicted)
             /\ retired' \in Kept(old, evicted)
             /\ fill' = [b \in Blocks |-> IF b \in gone THEN 0
                                          ELSE IF b \in written THEN FillOf(b) ELSE fill[b]]
  BY DEF Build
<1> DEFINE old     == kept \o newest
           evicted == Evicted(Cardinality(fresh) - free, old)
           gone    == flush \union drop \union evicted
<1>2. /\ held' = (held \ gone) \union fresh
      /\ tile' = [b \in Blocks |-> IF b \in flush \union evicted THEN pool[b]
                                   ELSE IF b \in fresh THEN Empty ELSE tile[b]]
      /\ pool' = [b \in Blocks |-> IF b \in gone \union fresh THEN Empty ELSE pool[b]]
      /\ sinks' = current \ (drop \union evicted)
      /\ retired' \in Kept(old, evicted)
      /\ fill' = [b \in Blocks |-> IF b \in gone THEN 0
                                   ELSE IF b \in written THEN FillOf(b) ELSE fill[b]]
  BY <1>1
<1>3. pc = "build"
  BY DEF Build
<1>4. IsFiniteSet(Blocks) /\ held \subseteq Blocks /\ IsFiniteSet(held)
  BY FS_Subset DEF KvarnAssumption, SlotInv, SlotTypes
<1>5. written \subseteq Blocks /\ FirstBlocks \subseteq Blocks
  BY WrittenFacts
<1>6. /\ needed \subseteq Blocks /\ written \subseteq needed
      /\ needed \ held \subseteq written
  BY <1>5 DEF Needed, SinksMarked, BatchInv
<1>7. /\ Relabelled(needed) \subseteq needed /\ sinks \ needed \subseteq current
      /\ current \subseteq held \union written
  BY DEF Relabelled, SinksMarked, BatchInv
<1>8. walked \subseteq held \ current
  BY DEF WalkBack
<1>9. walked \cap needed = {}
  <2> SUFFICES ASSUME pass = 0, NEW r \in Scheduled, NEW b \in WalkBack(r, current), b \in needed
               PROVE  FALSE
    OBVIOUS
  <2>1. PICK k \in 1 .. FullBefore(r) - 1 : b = BlockAt(r, k)
    BY DEF WalkBack
  <2>2. r \in Running /\ FullBefore(r) = len[r] \div G
    BY WrittenFirst DEF FullBefore, Scheduled
  <2>3. len[r] \div G \in Nat
    BY <2>2, RowFacts
  <2>4. k \in 0 .. len[r] \div G - 1
    <3> DEFINE x == len[r] \div G
    <3>1. k \in 1 .. x - 1 /\ x \in Nat
      BY <2>1, <2>2, <2>3
    <3> HIDE DEF x
    <3> QED
      BY <3>1 DEF x
  <2>5. b \notin Unsettled
    BY <1>3, <2>1, <2>2, <2>4 DEF BeforeInv
  <2>6. b \in held \ current
    BY <1>8
  <2>7. b \in FirstBlocks \cap marked
    BY <2>5, <2>6 DEF Needed, Unsettled
  <2> QED
    BY <2>6, <2>7 DEF Relabelled
<1>10. Range(kept) \subseteq Range(retired) \ needed /\ kept \in Seq(Blocks)
  BY <1>4, KeptFacts DEF SlotInv, SlotTypes
<1> HIDE DEF written, marked, needed, current, walked
<1>11. /\ flush \subseteq held /\ drop \subseteq held /\ retire \subseteq held
       /\ flush \cap needed = {} /\ drop \cap needed = {} /\ retire \cap needed = {}
       /\ flush \cap drop = {} /\ flush \cap current = {}
       /\ fresh = needed \ held
  BY <1>8, <1>9
<1>12. Range(newest) \subseteq retire /\ newest \in Seq(Blocks)
  <2>1. retire \ Range(retired) \subseteq Blocks
    BY <1>4, <1>11
  <2>2. IsFiniteSet(retire \ Range(retired))
    BY <1>4, <2>1, FS_Subset
  <2>3. newest \in Seq(retire \ Range(retired)) /\ Range(newest) \subseteq retire \ Range(retired)
    BY <2>2, SeqsOfSet
  <2> HIDE DEF retire
  <2> QED
    BY <2>1, <2>3
<1>13. old \in Seq(Blocks) /\ Range(old) \subseteq Range(kept) \union Range(newest)
  BY <1>10, <1>12, RangeOfConcat
<1>14. \A b \in Range(old) : b \in held /\ b \notin needed /\ Complete(b)
  <2>1. \A b \in Range(kept) : b \in held /\ b \notin needed /\ Complete(b)
    BY <1>10 DEF SlotInv, RetiredAreSinks
  <2>2. \A b \in Range(newest) : b \in held /\ b \notin needed /\ Complete(b)
    BY <1>11, <1>12
  <2> QED
    BY <1>13, <2>1, <2>2
<1>15. pass # 0 => flush = {} /\ drop = {} /\ Range(old) \subseteq Range(retired)
  <2>1. ASSUME pass # 0 PROVE walked = {} /\ unused = {} /\ retire = {}
    BY <2>1 DEF walked
  <2>2. pass # 0 => flush = {} /\ drop = {}
    BY <2>1
  <2> QED
    BY <1>10, <1>12, <1>13, <2>1, <2>2
<1>16. \A b \in drop : pass = 0 /\ ~Complete(b)
  OBVIOUS
<1> HIDE DEF old, unused, retire, flush, drop
<1>17. evicted \subseteq Range(old)
  BY <1>13 DEF Evicted, Range
<1>18. Range(retired') \subseteq Range(old) \ evicted
  BY <1>2, <1>4, <1>13, KeptFacts
<1> HIDE DEF evicted, fresh
<1>19. gone \subseteq held /\ gone \cap needed = {} /\ fresh \subseteq written
  BY <1>6, <1>11, <1>14, <1>17
<1>20. written \subseteq held' /\ sinks' \subseteq held'
  <2>1. written \subseteq held'
    BY <1>2, <1>6, <1>11, <1>19
  <2>2. sinks' \cap gone = {}
    BY <1>2, <1>11
  <2> QED
    BY <1>2, <1>7, <2>1, <2>2
<1>21. written \cap Range(retired') = {}
  BY <1>6, <1>14, <1>18
<1>22. ASSUME NEW b \in Blocks, b \notin written \ held, b \notin drop, NEW i
       PROVE  Read(b, i)' = Read(b, i)
  <2>1. b \notin fresh
    BY <1>11, <1>19, <1>22
  <2>2. CASE b \in gone
    <3>1. b \in flush \union evicted /\ b \in held /\ b \notin held'
      BY <1>2, <1>19, <1>22, <2>1, <2>2
    <3>2. tile'[b] = pool[b]
      BY <1>2, <3>1
    <3> QED
      BY <3>1, <3>2 DEF Read
  <2>3. CASE b \notin gone
    <3>1. pool'[b] = pool[b] /\ tile'[b] = tile[b]
      BY <1>2, <2>1, <2>3
    <3>2. b \in held' <=> b \in held
      BY <1>2, <2>1, <2>3
    <3> QED
      BY <3>1, <3>2 DEF Read
  <2> QED
    BY <2>2, <2>3
<1>23. \A b \in drop : b \notin written
  BY <1>6, <1>11
<1>24. ASSUME NEW b \in held', b \notin written
       PROVE  b \in held /\ (Complete(b)' <=> Complete(b))
  <2>1. b \in held /\ b \notin gone /\ b \in Blocks
    BY <1>2, <1>4, <1>19, <1>24
  <2>2. fill'[b] = fill[b]
    BY <1>2, <1>24, <2>1
  <2> QED
    BY <2>1, <2>2 DEF Complete
<1>25. \A b \in written : fill'[b] = FillOf(b)
  BY <1>2, <1>5, <1>6, <1>19
<1>26. ASSUME pass # 0, NEW b \in held, b \notin Range(retired) PROVE b \in held' \ Range(retired')
  <2>1. b \notin Range(old) /\ b \notin gone
    BY <1>15, <1>17, <1>26
  <2> QED
    BY <1>2, <1>18, <2>1
<1> HIDE DEF gone
<1> QED
  <2>1. drop \in SUBSET held
    BY <1>11
  <2> QED
    BY <2>1, <1>16, <1>20, <1>21, <1>22, <1>23, <1>24, <1>25, <1>26 DEF written

\* A block that is whole and that a pass writes is filled by it, and it is the first pass.
LEMMA WrittenWhole ==
    ASSUME KvarnAssumption, TypeInv, BatchInv, RowInv, NEW s \in Scheduled, NEW k \in Written(s),
           Whole(BlockAt(s, k))
    PROVE  pass = 0 /\ RowsOf(s, k) = G
<1>1. /\ s \in Running /\ k \in Indices(s) /\ k \in Nat /\ Committed(s) \div G <= k
      /\ len[s] \in Nat /\ q[s] \in Nat /\ acc[s] \in Nat /\ acc[s] <= q[s]
      /\ Accepted(s) \in Nat /\ Committed(s) \in Nat
  BY RowFacts, LengthsOf DEF Scheduled, Written, Indices
<1>2. k < Accepted(s) \div G
  <2>1. CASE label[BlockAt(s, k)] # <<>>
    BY <1>1, <2>1 DEF RowInv, LabelsOfRows
  <2>2. CASE label[BlockAt(s, k)] = <<>>
    <3>0. PICK r \in Running : \E j \in 0 .. Accepted(r) \div G - 1 : BlockAt(r, j) = BlockAt(s, k)
      BY <2>2 DEF Whole
    <3>1. PICK j \in 0 .. Accepted(r) \div G - 1 : BlockAt(r, j) = BlockAt(s, k)
      BY <3>0
    <3>2. j \in Indices(r) /\ j < Accepted(r) \div G
      <4> DEFINE x == Accepted(r) \div G
                 n == Len(table[r])
      <4>1. x \in Nat /\ n \in Nat /\ x <= n /\ j \in 0 .. x - 1
        BY <3>1, RowFacts
      <4> HIDE DEF x, n
      <4>2. j \in 0 .. n - 1 /\ j < x
        BY <4>1
      <4> QED
        BY <4>2 DEF x, n, Indices
    <3>3. r = s
      BY <1>1, <2>2, <3>1, <3>2 DEF RowInv, SharedRows
    <3>4. j = k
      BY <1>1, <3>1, <3>2, <3>3 DEF RowInv, RowsDistinct
    <3> QED
      BY <3>2, <3>3, <3>4
  <2> QED
    BY <2>1, <2>2
<1>3. pass = 0
  <2> SUFFICES ASSUME pass # 0 PROVE FALSE
    OBVIOUS
  <2>1. pass \in Nat \ {0}
    BY Numbers DEF TypeInv
  <2>2. Committed(s) = len[s] + acc[s] + pass - 1
    BY <1>1, <2>1 DEF Committed, SeqLen, QueryLen
  <2>3. Accepted(s) <= Committed(s)
    BY <1>1, <2>1, <2>2 DEF Accepted
  <2>4. Accepted(s) \div G <= Committed(s) \div G
    BY <1>1, <2>3, BlockOrder, Numbers
  <2>5. Accepted(s) \div G \in Nat /\ Committed(s) \div G \in Nat
    BY <1>1, Division, Numbers
  <2> DEFINE x == Accepted(s) \div G
             y == Committed(s) \div G
  <2>6. x \in Nat /\ y \in Nat /\ x <= y /\ y <= k /\ k < x
    BY <1>1, <1>2, <2>4, <2>5
  <2> HIDE DEF x, y
  <2> QED
    BY <1>1, <2>6
<1>4. RowsOf(s, k) = G
  <2> DEFINE w == (k + 1) * G
  <2>1. w \in Nat
    BY <1>1, Numbers
  <2>2. w <= Accepted(s)
    BY <1>1, <1>2, BlockBefore, Numbers
  <2>3. SeqLen(s) = len[s] + q[s]
    BY <1>3, LengthsOf DEF SeqLen
  <2>4. RowsOf(s, k) = IF SeqLen(s) < w THEN SeqLen(s) - k * G ELSE G
    BY DEF RowsOf
  <2> HIDE DEF w
  <2>5. ~(SeqLen(s) < w)
    BY <1>1, <2>1, <2>2, <2>3 DEF Accepted
  <2> QED
    BY <2>4, <2>5
<1> QED
  BY <1>3, <1>4

\* How full such a block is afterwards.
LEMMA FilledWhole ==
    ASSUME KvarnAssumption, TypeInv, BatchInv, RowInv, NEW b \in WrittenBlocks, Whole(b)
    PROVE  FillOf(b) = G
<1> DEFINE r == CHOOSE x \in Scheduled : \E y \in Written(x) : BlockAt(x, y) = b
           k == CHOOSE y \in Written(r) : BlockAt(r, y) = b
<1>1. \E x \in Scheduled : \E y \in Written(x) : BlockAt(x, y) = b
  BY DEF WrittenBlocks
<1>2. r \in Scheduled /\ \E y \in Written(r) : BlockAt(r, y) = b
  BY <1>1
<1>3. FillOf(b) = RowsOf(r, k)
  BY DEF FillOf
<1> HIDE DEF r
<1>4. k \in Written(r) /\ BlockAt(r, k) = b
  BY <1>2
<1> HIDE DEF k
<1> QED
  BY <1>2, <1>3, <1>4, WrittenWhole

\* A position that a request has or is about to get is in a whole block or in one that the
\* first pass writes.
LEMMA WholeOrWritten ==
    ASSUME KvarnAssumption, TypeInv, BatchInv, RunningPlaced, pass = 0,
           NEW r \in Running, NEW p \in Nat, p < Accepted(r)
    PROVE  Whole(At(r, p)) \/ At(r, p) \in WrittenBlocks
<1> DEFINE k == p \div G
           x == Accepted(r) \div G
<1>1. /\ len[r] \in Nat /\ acc[r] \in Nat /\ Accepted(r) \in Nat /\ x \in Nat /\ k \in Nat
      /\ r \notin Scheduled => Accepted(r) = len[r]
  BY RowFacts, Division, Numbers
<1>2. CASE k < x
  <2> HIDE DEF k, x
  <2>1. k \in 0 .. x - 1
    BY <1>1, <1>2
  <2> QED
    BY <2>1 DEF Whole, At, k, x
<1>3. CASE x <= k
  <2>1. r \in Scheduled
    <3> SUFFICES ASSUME r \notin Scheduled PROVE FALSE
      OBVIOUS
    <3>1. Accepted(r) % G = 0
      BY <1>1 DEF RunningPlaced
    <3>2. Accepted(r) <= p
      BY <1>1, <1>3, <3>1, BlockEnds, Numbers
    <3> QED
      BY <1>1, <3>2
  <2>2. acc[r] \in Nat \ {0}
    BY <2>1, RowFacts
  <2> DEFINE e == Accepted(r) - 1
  <2>3. e \in Nat /\ len[r] <= e /\ e < Accepted(r) /\ p <= e /\ e <= Accepted(r)
    BY <1>1, <2>2 DEF Accepted
  <2> HIDE DEF e
  <2>4. k <= e \div G /\ e \div G <= x /\ e \div G \in Nat
    BY <1>1, <2>3, BlockOrder, Division, Numbers
  <2>5. e \div G = k
    <3> DEFINE y == e \div G
    <3>1. y \in Nat /\ k <= y /\ y <= x
      BY <2>4
    <3> HIDE DEF y, k, x
    <3> QED
      BY <1>1, <1>3, <3>1 DEF y
  <2>6. At(r, e) \in WrittenBlocks
    BY <2>1, <2>3, ComingWritten
  <2> QED
    BY <2>5, <2>6 DEF At
<1> QED
  <2> HIDE DEF k, x
  <2> QED
    BY <1>1, <1>2, <1>3

\* The blocks of the tokens of a step are blocks of the first pass.
LEMMA StepWritten ==
    ASSUME KvarnAssumption, TypeInv, BatchInv, pass = 0, NEW r \in Scheduled,
           NEW k \in (len[r] \div G) .. ((len[r] + q[r] - 1) \div G)
    PROVE  BlockAt(r, k) \in WrittenBlocks
<1>1. /\ r \in Running /\ len[r] \in Nat /\ q[r] \in Nat \ {0}
      /\ Len(table[r]) \in Nat /\ len[r] + q[r] + Drafts <= G * Len(table[r])
      /\ len[r] \div G \in Nat
  BY RowFacts DEF Scheduled
<1> DEFINE e == len[r] + q[r] - 1
           n == Len(table[r])
           w == G * n
<1>2. e \in Nat /\ n \in Nat
  BY <1>1
<1>3. w \in Nat
  BY <1>2, Numbers
<1>4. e < len[r] + q[r]
  BY <1>1
<1>5. len[r] + q[r] <= w
  <2>1. len[r] + q[r] + Drafts <= w
    BY <1>1
  <2> HIDE DEF w, n
  <2> QED
    BY <1>1, <1>3, <2>1, Numbers
<1> HIDE DEF e
<1>6. e \div G \in 0 .. n - 1
  <2>1. len[r] + q[r] \in Nat
    BY <1>1
  <2> HIDE DEF n
  <2> QED
    BY <1>2, <1>4, <1>5, <2>1, InRow, Numbers DEF w
<1>7. k \in Indices(r) /\ len[r] \div G <= k /\ k <= e \div G
  <2> DEFINE x == len[r] \div G
             y == e \div G
  <2>1. x \in Nat /\ y \in 0 .. n - 1 /\ k \in x .. y
    BY <1>1, <1>6 DEF e
  <2> HIDE DEF x, y, n
  <2>2. k \in 0 .. n - 1 /\ x <= k /\ k <= y
    BY <1>2, <2>1
  <2> QED
    BY <2>2 DEF x, y, n, Indices
<1>8. k \in Written(r)
  BY <1>7, WrittenFirst DEF e
<1> QED
  BY <1>8 DEF WrittenBlocks

\* A place that is wanted and that gets a slot from this build is written by the first pass.
LEMMA WantedFresh ==
    ASSUME KvarnAssumption, TypeInv, BatchInv, RowInv, BeforeInv, StepInv, pc = "build",
           NEW b \in WrittenBlocks \ held, b \in Blocks,
           NEW c \in Chains, NEW p \in 0 .. MaxLen, Wanted(b, c, p)
    PROVE  Coming(b, c, p)
<1>1. PICK s \in Scheduled : \E k \in Written(s) : BlockAt(s, k) = b
  BY DEF WrittenBlocks
<1>2. PICK k \in Written(s) : BlockAt(s, k) = b
  BY <1>1
<1>3. /\ s \in Running /\ k \in Indices(s) /\ Committed(s) \div G <= k /\ p \in Nat /\ k \in Nat
  BY Numbers DEF Scheduled, Written, Indices
<1>4. k = p \div G /\ chain[s] = c /\ p < Accepted(s)
  BY <1>2, <1>3, OwnerFacts
<1>5. /\ len[s] \in Nat /\ q[s] \in Nat \ {0} /\ acc[s] \in Nat /\ acc[s] <= q[s]
      /\ Committed(s) \in Nat /\ len[s] <= Committed(s)
  BY LengthsOf
<1>6. At(s, p) = b
  BY <1>2, <1>4 DEF At
<1>7. pass = 0
  <2> SUFFICES ASSUME pass # 0 PROVE FALSE
    OBVIOUS
  <2> DEFINE e == len[s] + q[s] - 1
             x == len[s] \div G
             y == e \div G
             z == Committed(s) \div G
  <2>1. e \in Nat /\ p <= e
    BY <1>3, <1>4, <1>5 DEF Accepted
  <2> HIDE DEF e
  <2>2. x \in Nat /\ y \in Nat /\ z \in Nat /\ x <= z /\ z <= k /\ k <= y
    BY <1>3, <1>4, <1>5, <2>1, BlockOrder, Division, Numbers
  <2> HIDE DEF x, y, z
  <2>3. k \in x .. y
    BY <1>3, <2>2
  <2>4. BlockAt(s, k) \in held
    BY <2>3 DEF StepInv, x, y, e
  <2> QED
    BY <1>2, <2>4
<1>8. len[s] <= p
  <2>1. Committed(s) = len[s]
    BY <1>7, WrittenFirst
  <2> DEFINE x == len[s] \div G
  <2>2. x \in Nat /\ x <= k
    BY <1>3, <1>5, <2>1, Division, Numbers
  <2>3. CASE x = k
    <3>1. len[s] % G = 0
      BY <1>2, <1>3, <1>7, <2>3 DEF BeforeInv
    <3>2. x <= p \div G
      BY <1>4, <2>2
    <3> QED
      BY <1>3, <1>5, <3>1, <3>2, BlockEnds, Numbers
  <2>4. CASE x < k
    <3>1. x < p \div G
      BY <1>4, <2>4
    <3>2. len[s] < p
      BY <1>3, <1>5, <3>1, BlockOrder, Numbers
    <3> QED
      BY <1>3, <1>5, <3>2
  <2> HIDE DEF x
  <2> QED
    BY <1>3, <2>2, <2>3, <2>4
<1> QED
  BY <1>4, <1>6, <1>7, <1>8 DEF Coming

\* The builder keeps what is read: a flush freezes no block that is still written, and no
\* slot is given up that holds the only copy.
LEMMA ReadBuild ==
    ASSUME KvarnAssumption, SlotInv, TypeInv, ReadInv, Build PROVE ReadInv'
<1>1. /\ pc = "build" /\ pc' \in {"store", "exhausted"} /\ pass' = pass
      /\ UNCHANGED <<chain, table, len, q, acc, label>>
  BY TypeBuild DEF Build, engineVars
<1>2. BatchInv /\ RowInv /\ BeforeInv /\ StepInv /\ DataInv
  BY DEF ReadInv
<1>3. PICK drop \in SUBSET held :
               /\ WrittenBlocks \subseteq held' /\ sinks' \subseteq held'
               /\ WrittenBlocks \cap Range(retired') = {}
               /\ \A b \in Blocks : b \notin WrittenBlocks \ held /\ b \notin drop =>
                      \A i : Read(b, i)' = Read(b, i)
               /\ \A b \in drop : pass = 0 /\ b \notin WrittenBlocks /\ ~Complete(b)
               /\ \A b \in held' : b \notin WrittenBlocks =>
                      b \in held /\ (Complete(b)' <=> Complete(b))
               /\ \A b \in WrittenBlocks : fill'[b] = FillOf(b)
               /\ pass # 0 => \A b \in held : b \notin Range(retired) =>
                                  b \in held' \ Range(retired')
  BY <1>2, BuildFacts
<1>4. BatchInv'
  <2>1. RunningPlaced'
    BY <1>1, <1>2 DEF RunningPlaced, Scheduled, Running, BatchInv
  <2> QED
    BY <1>1, <1>2, <1>3, <2>1 DEF BatchInv
<1>5. RowInv'
  BY <1>1, <1>2 DEF RowInv, RowsDistinct, LabelsOfRows, SharedRows, Running, Indices, BlockAt,
              Accepted
<1>6. \A b : Whole(b)' <=> Whole(b)
  BY <1>1 DEF Whole, Running, Accepted, BlockAt
<1>7. BeforeInv'
  BY <1>1 DEF BeforeInv
<1>8. StepInv'
  <2>1. ASSUME NEW r \in Scheduled, NEW k \in (len[r] \div G) .. ((len[r] + q[r] - 1) \div G)
        PROVE  BlockAt(r, k) \in held' \ Range(retired')
    <3>1. CASE pass = 0
      <4>1. BlockAt(r, k) \in WrittenBlocks
        BY <1>2, <3>1, StepWritten
      <4> QED
        BY <1>3, <4>1
    <3>2. CASE pass # 0
      <4>1. BlockAt(r, k) \in held \ Range(retired)
        BY <1>1, <1>2, <3>2 DEF StepInv
      <4> QED
        BY <1>3, <3>2, <4>1
    <3> QED
      BY <3>1, <3>2
  <2>2. ASSUME NEW b \in held', Whole(b) PROVE Complete(b)'
    <3>1. CASE b \in WrittenBlocks
      <4>1. fill'[b] = G
        BY <1>2, <1>3, <2>2, <3>1, FilledWhole
      <4> QED
        BY <4>1, Numbers DEF Complete
    <3>2. CASE b \notin WrittenBlocks
      <4>1. b \in held /\ (Complete(b)' <=> Complete(b))
        BY <1>3, <3>2
      <4>2. Complete(b)
        BY <1>1, <1>2, <2>2, <3>2, <4>1 DEF BeforeInv, StepInv
      <4> QED
        BY <4>1, <4>2
    <3> QED
      BY <3>1, <3>2
  <2>3. Scheduled' = Scheduled /\ \A r, k : BlockAt(r, k)' = BlockAt(r, k)
    BY <1>1 DEF Scheduled, Running, BlockAt
  <2> QED
    BY <1>1, <1>6, <2>1, <2>2, <2>3 DEF StepInv
<1>9. ASSUME pc' # "exhausted", NEW b \in Blocks, NEW c \in Chains, NEW p \in 0 .. MaxLen,
             Wanted(b, c, p)
      PROVE  Good(b, c, p)'
  <2>1. Good(b, c, p)
    BY <1>1, <1>2, <1>9, DataOf
  <2>2. ASSUME Coming(b, c, p) PROVE Good(b, c, p)'
    <3>1. Coming(b, c, p)'
      BY <1>1, <2>2 DEF Coming, Scheduled, Running, Accepted, At, BlockAt
    <3> QED
      BY <3>1 DEF Good
  <2>3. CASE b \in WrittenBlocks \ held
    <3>1. Coming(b, c, p)
      BY <1>1, <1>2, <1>9, <2>3, WantedFresh
    <3> QED
      BY <2>2, <3>1
  <2>4. CASE b \notin WrittenBlocks \ held /\ b \notin drop /\ ~Coming(b, c, p)
    <3>1. Read(b, p % G)' = Read(b, p % G)
      BY <1>3, <2>4
    <3>2. Read(b, p % G) = Value(c, p)
      BY <2>1, <2>4 DEF Good
    <3> QED
      BY <3>1, <3>2 DEF Good
  <2>5. b \notin drop
    <3> SUFFICES ASSUME b \in drop PROVE FALSE
      OBVIOUS
    <3>1. pass = 0 /\ b \notin WrittenBlocks /\ ~Complete(b) /\ b \in held
      BY <1>3
    <3>2. Whole(b)
      <4>1. CASE label[b] # <<>>
        BY <4>1 DEF Whole
      <4>2. ASSUME NEW r \in Running, p < Accepted(r), At(r, p) = b PROVE Whole(b)
        BY <1>1, <1>2, <3>1, <4>2, WholeOrWritten, Numbers DEF BatchInv
      <4> QED
        BY <1>9, <4>1, <4>2, LabelNotEmpty DEF Wanted
    <3> QED
      BY <1>1, <1>2, <3>1, <3>2 DEF BeforeInv
  <2> QED
    BY <2>2, <2>3, <2>4, <2>5
<1>10. DataInv'
  <2>1. CASE pc' # "exhausted"
    <3>1. \A b \in Blocks, c \in Chains, p \in 0 .. MaxLen : Wanted(b, c, p) => Good(b, c, p)'
      BY <1>9, <2>1
    <3> QED
      BY <1>1, <1>2, <3>1, DataKept
  <2>2. CASE pc' = "exhausted"
    BY <2>2 DEF DataInv
  <2> QED
    BY <2>1, <2>2
<1> QED
  BY <1>4, <1>5, <1>7, <1>8, <1>10 DEF ReadInv

\* At first nothing is read.
LEMMA ReadInit == ASSUME KvarnAssumption PROVE Init => ReadInv
<1> SUFFICES ASSUME Init PROVE ReadInv
  OBVIOUS
<1>1. Running = {} /\ Scheduled = {}
  BY DEF Init, Running, Scheduled
<1>2. BatchInv
  BY Numbers DEF Init, BatchInv
<1>3. RowInv
  BY <1>1 DEF RowInv, RowsDistinct, LabelsOfRows, SharedRows
<1>4. BeforeInv
  BY <1>1 DEF BeforeInv, Init
<1>5. StepInv
  BY DEF StepInv, Init
<1>6. DataInv
  BY <1>1, LabelNotEmpty DEF DataInv, Init
<1> QED
  BY <1>2, <1>3, <1>4, <1>5, <1>6 DEF ReadInv

\* Every step keeps what is read.
LEMMA ReadStep ==
    ASSUME KvarnAssumption, ~HitsUnsettled
    PROVE  SlotInv /\ TypeInv /\ ReadInv /\ [Next]_vars => ReadInv'
<1> SUFFICES ASSUME SlotInv, TypeInv, ReadInv, [Next]_vars PROVE ReadInv'
  OBVIOUS
<1>1. ASSUME NEW r \in Reqs, Admit(r) PROVE ReadInv'
  BY <1>1, ReadAdmit
<1>2. ASSUME NEW r \in Reqs, PlacePrefill(r) PROVE ReadInv'
  <2>1. PICK n \in 1 .. Budget : Place(r, n, n, n)
    BY <1>2 DEF PlacePrefill
  <2>2. n \in Nat \ {0} /\ n \in 0 .. n /\ n \in 1 .. n /\ n <= n
    BY Numbers
  <2> QED
    BY <2>1, <2>2, ReadPlace
<1>3. ASSUME NEW r \in Reqs, PlaceVerify(r) PROVE ReadInv'
  <2>1. PICK d \in 1 .. Spec, k \in 0 .. Spec : k <= d /\ Place(r, d + 1, 1, k + 1)
    BY <1>3 DEF PlaceVerify
  <2> DEFINE n == d + 1
             m == k + 1
  <2>2. n \in Nat \ {0} /\ 1 \in 0 .. n /\ m \in 1 .. n /\ 1 <= m
    BY <2>1, Numbers
  <2>3. Place(r, n, 1, m)
    BY <2>1
  <2> HIDE DEF n, m
  <2> QED
    BY <2>2, <2>3, ReadPlace
<1>4. ASSUME NEW r \in Reqs, Leave(r) PROVE ReadInv'
  BY <1>4, ReadLeave
<1>5. CASE UNCHANGED vars
  <2>1. /\ UNCHANGED <<pc, pass, chain, table, len, q, acc, label>>
        /\ UNCHANGED <<held, retired, sinks, fill, pool, tile>>
    BY <1>5 DEF vars, engineVars, allocVars, dataVars
  <2>2. BatchInv'
    BY <2>1 DEF ReadInv, BatchInv, RunningPlaced, Running, Scheduled
  <2>3. RowInv'
    BY <2>1 DEF ReadInv, RowInv, RowsDistinct, LabelsOfRows, SharedRows, Running, Indices,
                BlockAt, Accepted
  <2>4. Running' = Running /\ Scheduled' = Scheduled /\ WrittenBlocks' = WrittenBlocks
        /\ Unsettled' = Unsettled
    BY <2>1 DEF Unsettled, WrittenBlocks, Written, Committed, SeqLen, QueryLen, BlockAt,
                Scheduled, Running
  <2>5. \A b : (Whole(b)' <=> Whole(b)) /\ (Complete(b)' <=> Complete(b))
    BY <2>1 DEF Whole, Complete, Running, Accepted, BlockAt
  <2>6. BeforeInv'
    BY <2>1, <2>4, <2>5 DEF ReadInv, BeforeInv, BlockAt
  <2>7. StepInv'
    BY <2>1, <2>4, <2>5 DEF ReadInv, StepInv, BlockAt
  <2>8. \A b, c, p : Good(b, c, p) => Good(b, c, p)'
    BY <2>1 DEF Good, Coming, Read, Scheduled, Running, Accepted, At, BlockAt
  <2>9. DataInv'
    BY <2>1, <2>8 DEF ReadInv, DataInv, Running, Accepted, At, BlockAt
  <2> QED
    BY <2>2, <2>3, <2>6, <2>7, <2>9 DEF ReadInv
<1> QED
  BY <1>1, <1>2, <1>3, <1>4, <1>5, ReadDispatch, ReadBuild, ReadStore, ReadDraft, ReadAccept
  DEF Next

\* What is read holds in every state.
LEMMA ReadInvariant ==
    ASSUME KvarnAssumption, ~HitsUnsettled PROVE KSpec => [](SlotInv /\ TypeInv /\ ReadInv)
<1> QED
  BY SlotInit, SlotStep, TypeInit, TypeStep, ReadInit, ReadStep, PTL DEF KSpec

\* Attention reads the key and value of a request's own tokens at every accepted position,
\* wherever the block is stored and whatever other requests share it, as long as no request
\* finds a block in the cache that has a slot and that the same step writes: no flush freezes
\* a block too early, and no slot is given up that holds the only copy (kvarn_attn.py:640-1012).
THEOREM ReadsOwnTokens == ASSUME KvarnAssumption, ~HitsUnsettled PROVE KSpec => []ReadsRight
<1>1. TypeInv /\ ReadInv => ReadsRight
  <2> SUFFICES ASSUME TypeInv, ReadInv, pc = "attend", NEW r \in Scheduled,
                      NEW p \in 0 .. len[r] + acc[r] - 1
               PROVE  Read(BlockAt(r, p \div G), p % G) = Value(chain[r], p)
    BY DEF ReadsRight
  <2>1. Good(At(r, p), chain[r], p)
    <3>1. r \in Running /\ pc # "exhausted"
      BY DEF Scheduled
    <3>2. len[r] + acc[r] = Accepted(r) /\ len[r] \in Nat /\ acc[r] \in Nat
      BY <3>1, RowFacts DEF Accepted, ReadInv
    <3>3. p \in 0 .. Accepted(r) - 1
      BY <3>2
    <3> QED
      BY <3>1, <3>3 DEF ReadInv, DataInv
  <2> QED
    BY <2>1 DEF Good, Coming, At
<1> QED
  BY <1>1, ReadInvariant, PTL
=============================================================================

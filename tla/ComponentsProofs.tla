-------------------------- MODULE ComponentsProofs --------------------------
(***************************************************************************)
(* The components that are checked side by side keep the invariants that   *)
(* are proved of each: as long as a behaviour is in a part it is a         *)
(* behaviour of that component, with the constants the part gives it, and  *)
(* no other part becomes it.                                               *)
(***************************************************************************)
EXTENDS Components, TLAPS

\* A behaviour in part "pool" is one of the component.
LEMMA PoolPart ==
    /\ Init /\ part = "pool" => Pool!Init
    /\ part = "pool" /\ [Next]_vars => (part = "pool")' /\ [Pool!Next]_(Pool!vars)
    /\ ~ (part = "pool") /\ [Next]_vars => ~ (part = "pool")'
<1>1. Init /\ part = "pool" => Pool!Init
  BY DEF Init
<1>2. part = "pool" /\ [Next]_vars => (part = "pool")' /\ [Pool!Next]_(Pool!vars)
  <2>1. CASE Next
    BY <2>1 DEF Next
  <2>2. CASE UNCHANGED vars
    BY <2>2 DEF vars, poolVars, Pool!engineVars, Pool!allocVars, Pool!dataVars, Pool!vars
  <2> QED
    BY <2>1, <2>2
<1>3. ~ (part = "pool") /\ [Next]_vars => ~ (part = "pool")'
  BY DEF Next, vars
<1> QED
  BY <1>1, <1>2, <1>3

\* A behaviour in part "drafter" is one of the component.
LEMMA DrafterPart ==
    /\ Init /\ part = "drafter" => Drafter!Init
    /\ part = "drafter" /\ [Next]_vars => (part = "drafter")' /\ [Drafter!Next]_(Drafter!vars)
    /\ ~ (part = "drafter") /\ [Next]_vars => ~ (part = "drafter")'
<1>1. Init /\ part = "drafter" => Drafter!Init
  BY DEF Init
<1>2. part = "drafter" /\ [Next]_vars => (part = "drafter")' /\ [Drafter!Next]_(Drafter!vars)
  <2>1. CASE Next
    BY <2>1 DEF Next
  <2>2. CASE UNCHANGED vars
    BY <2>2 DEF vars, poolVars, Drafter!engineVars, Drafter!allocVars, Drafter!dataVars,
               Drafter!vars
  <2> QED
    BY <2>1, <2>2
<1>3. ~ (part = "drafter") /\ [Next]_vars => ~ (part = "drafter")'
  BY DEF Next, vars
<1> QED
  BY <1>1, <1>2, <1>3

\* A behaviour in part "chunks" is one of the component.
LEMMA ChunksPart ==
    /\ Init /\ part = "chunks" => Chunks!Init
    /\ part = "chunks" /\ [Next]_vars => (part = "chunks")' /\ [Chunks!Next]_(Chunks!vars)
    /\ ~ (part = "chunks") /\ [Next]_vars => ~ (part = "chunks")'
<1>1. Init /\ part = "chunks" => Chunks!Init
  BY DEF Init
<1>2. part = "chunks" /\ [Next]_vars => (part = "chunks")' /\ [Chunks!Next]_(Chunks!vars)
  <2>1. CASE Next
    BY <2>1 DEF Next
  <2>2. CASE UNCHANGED vars
    BY <2>2 DEF vars, poolVars, Chunks!engineVars, Chunks!allocVars, Chunks!dataVars, Chunks!vars
  <2> QED
    BY <2>1, <2>2
<1>3. ~ (part = "chunks") /\ [Next]_vars => ~ (part = "chunks")'
  BY DEF Next, vars
<1> QED
  BY <1>1, <1>2, <1>3

\* A behaviour in part "offload" is one of the component.
LEMMA OffloadPart ==
    /\ Init /\ part = "offload" => Offload!Init
    /\ part = "offload" /\ [Next]_vars => (part = "offload")' /\ [Offload!Next]_(Offload!vars)
    /\ ~ (part = "offload") /\ [Next]_vars => ~ (part = "offload")'
<1>1. Init /\ part = "offload" => Offload!Init
  BY DEF Init
<1>2. part = "offload" /\ [Next]_vars => (part = "offload")' /\ [Offload!Next]_(Offload!vars)
  <2>1. CASE Next
    BY <2>1 DEF Next
  <2>2. CASE UNCHANGED vars
    BY <2>2 DEF vars, offVars, Offload!hostVars, Offload!eventVars, Offload!graphVars,
               Offload!deviceVars, Offload!vars
  <2> QED
    BY <2>1, <2>2
<1>3. ~ (part = "offload") /\ [Next]_vars => ~ (part = "offload")'
  BY DEF Next, vars
<1> QED
  BY <1>1, <1>2, <1>3

\* A behaviour in part "experts" is one of the component.
LEMMA ExpertsPart ==
    /\ Init /\ part = "experts" => Hot!Init
    /\ part = "experts" /\ [Next]_vars => (part = "experts")' /\ [Hot!Next]_(Hot!vars)
    /\ ~ (part = "experts") /\ [Next]_vars => ~ (part = "experts")'
<1>1. Init /\ part = "experts" => Hot!Init
  BY DEF Init
<1>2. part = "experts" /\ [Next]_vars => (part = "experts")' /\ [Hot!Next]_(Hot!vars)
  <2>1. CASE Next
    BY <2>1 DEF Next
  <2>2. CASE UNCHANGED vars
    BY <2>2 DEF vars, hotVars, Hot!vars
  <2> QED
    BY <2>1, <2>2
<1>3. ~ (part = "experts") /\ [Next]_vars => ~ (part = "experts")'
  BY DEF Next, vars
<1> QED
  BY <1>1, <1>2, <1>3

\* The model runner and the cache again, with their proofs.
RunnerP == INSTANCE ModelRunnerProofs WITH
    Reqs <- {1, 2}, Prompt <- 1, NumRows <- 2, NumSpec <- 1, MaxLen <- 4, MaxChunk <- 3,
    MaxInFlight <- 2, MaxPreemptions <- 1,
    written <- computed,
    Ratio <- 2, Drafts <- 2, StorageBlock <- 2, Table <- <<2, 0, 1>>, MaxRows <- 5, MaxReqs <- 3,
    Starts <- {0, 1, 2}, Queries <- {0, 1, 2, 5}, BlockTopK <- 2, BlockN <- 2, TargetSplits <- 2

\* The two instances of the model runner are one system.
LEMMA SameRunner ==
    (Runner!Init <=> RunnerP!Init) /\ (Runner!Next <=> RunnerP!Next) /\ Runner!vars = RunnerP!vars
<1>1. Runner!Init <=> RunnerP!Init
  BY Zenon DEF Runner!Init, Runner!Empty, Runner!Old, RunnerP!Init, RunnerP!Empty, RunnerP!Old
<1>2. Runner!Step <=> RunnerP!Step
  BY Zenon DEF Runner!Step, Runner!MayStart, Runner!InFlight, Runner!Placements, Runner!IsInjective,
               Runner!Remaining, Runner!Plans, Runner!Smaller, Runner!Execute, Runner!Added,
               Runner!Empty, Runner!Old, Runner!Updated, Runner!IsPrefilling, Runner!Orders,
               Runner!SetToSeqs, Runner!Cardinality, Runner!SortsBefore, Runner!SortKey,
               Runner!DecodeQueryLen, Runner!Prepared, Runner!DecodeInput, Runner!NumLogits,
               Runner!PrefillInput, RunnerP!Step, RunnerP!MayStart, RunnerP!InFlight,
               RunnerP!Placements, RunnerP!IsInjective, RunnerP!Remaining, RunnerP!Plans,
               RunnerP!Smaller, RunnerP!Execute, RunnerP!Added, RunnerP!Empty, RunnerP!Old,
               RunnerP!Updated, RunnerP!IsPrefilling, RunnerP!Orders, RunnerP!SetToSeqs,
               RunnerP!Cardinality, RunnerP!SortsBefore, RunnerP!SortKey, RunnerP!DecodeQueryLen,
               RunnerP!Prepared, RunnerP!DecodeInput, RunnerP!NumLogits, RunnerP!PrefillInput
<1>3. Runner!Sample <=> RunnerP!Sample
  BY Zenon DEF Runner!Sample, Runner!PostUpdate, Runner!NumRejected, Runner!Samples,
               Runner!Accepted, Runner!Wrong, Runner!ToSet, Runner!NumSampled, RunnerP!Sample,
               RunnerP!PostUpdate, RunnerP!NumRejected, RunnerP!Samples, RunnerP!Accepted,
               RunnerP!Wrong, RunnerP!ToSet, RunnerP!NumSampled
<1>4. Runner!Arrive <=> RunnerP!Arrive
  BY Zenon DEF Runner!Arrive, Runner!Drop, RunnerP!Arrive, RunnerP!Drop
<1>5. ASSUME NEW r, NEW kept PROVE Runner!Preempt(r, kept) <=> RunnerP!Preempt(r, kept)
  BY Zenon DEF Runner!Preempt, Runner!Drop, RunnerP!Preempt, RunnerP!Drop
<1>6. Runner!Next <=> RunnerP!Next
  BY <1>2, <1>3, <1>4, <1>5, Zenon DEF Runner!Next, RunnerP!Next
<1>7. Runner!vars = RunnerP!vars
  BY DEF Runner!vars, RunnerP!vars
<1> QED
  BY <1>1, <1>6, <1>7

\* A behaviour in part "runner" is one of the component.
LEMMA RunnerPart ==
    /\ Init /\ part = "runner" => RunnerP!Init
    /\ part = "runner" /\ [Next]_vars => (part = "runner")' /\ [RunnerP!Next]_(RunnerP!vars)
    /\ ~ (part = "runner") /\ [Next]_vars => ~ (part = "runner")'
<1>1. Init /\ part = "runner" => RunnerP!Init
  BY SameRunner DEF Init
<1>2. part = "runner" /\ [Next]_vars => (part = "runner")' /\ [RunnerP!Next]_(RunnerP!vars)
  <2>1. CASE Next
    BY <2>1, SameRunner DEF Next
  <2>2. CASE UNCHANGED vars
    BY <2>2 DEF vars, runVars, RunnerP!vars
  <2> QED
    BY <2>1, <2>2
<1>3. ~ (part = "runner") /\ [Next]_vars => ~ (part = "runner")'
  BY DEF Next, vars
<1> QED
  BY <1>1, <1>2, <1>3

\* The two instances of the cache are one system.
LEMMA SameQsa ==
    (Qsa!Init <=> RunnerP!Qsa!Init) /\ (Qsa!Next <=> RunnerP!Qsa!Next)
    /\ Qsa!vars = RunnerP!Qsa!vars
<1>1. Qsa!Init <=> RunnerP!Qsa!Init
  BY Zenon DEF Qsa!Init, Qsa!KeySlots, Qsa!PhysicalSlot, Qsa!Pad, Qsa!Columns, Qsa!Capacity,
               Qsa!Ceil, Qsa!Stale, RunnerP!Qsa!Init, RunnerP!Qsa!KeySlots,
               RunnerP!Qsa!PhysicalSlot, RunnerP!Qsa!Pad, RunnerP!Qsa!Columns,
               RunnerP!Qsa!Capacity, RunnerP!Qsa!Ceil, RunnerP!Qsa!Stale
<1>2. ASSUME NEW b, NEW raw PROVE Qsa!IndexStep(b, raw) <=> RunnerP!Qsa!IndexStep(b, raw)
  BY Zenon DEF Qsa!IndexStep, Qsa!StoreRows, Qsa!KeySlot, Qsa!RingSlot, Qsa!Closes, Qsa!Pooled,
               Qsa!Position, Qsa!Request, Qsa!OwnerOf, Qsa!QueryStart, Qsa!Offsets,
               Qsa!PhysicalSlot, Qsa!Pad, Qsa!Capacity, Qsa!Ceil, Qsa!FoldLeft,
               Qsa!MapThenFoldSet, Qsa!Max, RunnerP!Qsa!IndexStep, RunnerP!Qsa!StoreRows,
               RunnerP!Qsa!KeySlot, RunnerP!Qsa!RingSlot, RunnerP!Qsa!Closes, RunnerP!Qsa!Pooled,
               RunnerP!Qsa!Position, RunnerP!Qsa!Request, RunnerP!Qsa!OwnerOf,
               RunnerP!Qsa!QueryStart, RunnerP!Qsa!Offsets, RunnerP!Qsa!PhysicalSlot,
               RunnerP!Qsa!Pad, RunnerP!Qsa!Capacity, RunnerP!Qsa!Ceil, RunnerP!Qsa!FoldLeft,
               RunnerP!Qsa!MapThenFoldSet, RunnerP!Qsa!Max
<1>3. /\ Qsa!MaxLen = RunnerP!Qsa!MaxLen /\ Qsa!Rejected = RunnerP!Qsa!Rejected
      /\ Qsa!Stale = RunnerP!Qsa!Stale
  BY Zenon DEF Qsa!MaxLen, Qsa!Columns, Qsa!Rejected, Qsa!Stale, RunnerP!Qsa!MaxLen,
               RunnerP!Qsa!Columns, RunnerP!Qsa!Rejected, RunnerP!Qsa!Stale
<1>4. ASSUME NEW n, NEW a PROVE Qsa!Forward(n, a) <=> RunnerP!Qsa!Forward(n, a)
  BY <1>2, <1>3, Zenon DEF Qsa!Forward, RunnerP!Qsa!Forward
<1>5. Qsa!Draft <=> RunnerP!Qsa!Draft
  BY <1>2, <1>3, Zenon DEF Qsa!Draft, RunnerP!Qsa!Draft
<1>6. Qsa!Resume <=> RunnerP!Qsa!Resume
  BY <1>3, Zenon DEF Qsa!Resume, RunnerP!Qsa!Resume
<1>7. Qsa!Next <=> RunnerP!Qsa!Next
  BY <1>4, <1>5, <1>6, Zenon DEF Qsa!Next, RunnerP!Qsa!Next
<1>8. Qsa!vars = RunnerP!Qsa!vars
  BY DEF Qsa!vars, RunnerP!Qsa!vars
<1> QED
  BY <1>1, <1>7, <1>8

\* The constants of the cache are as assumed.
LEMMA QsaConstants == RunnerP!Qsa!QsaAssumption
BY Assumptions, Zenon
   DEF Assumptions, Qsa!QsaAssumption, Qsa!IsInjective, RunnerP!Qsa!QsaAssumption,
       RunnerP!Qsa!IsInjective

\* A behaviour in part "qsa" is one of the component.
LEMMA QsaPart ==
    /\ Init /\ part = "qsa" => RunnerP!Qsa!Init
    /\ part = "qsa" /\ [Next]_vars => (part = "qsa")' /\ [RunnerP!Qsa!Next]_(RunnerP!Qsa!vars)
    /\ ~ (part = "qsa") /\ [Next]_vars => ~ (part = "qsa")'
<1>1. Init /\ part = "qsa" => RunnerP!Qsa!Init
  BY SameQsa DEF Init
<1>2. part = "qsa" /\ [Next]_vars => (part = "qsa")' /\ [RunnerP!Qsa!Next]_(RunnerP!Qsa!vars)
  <2>1. CASE Next
    BY <2>1, SameQsa DEF Next
  <2>2. CASE UNCHANGED vars
    BY <2>2 DEF vars, qsaVars, RunnerP!Qsa!vars
  <2> QED
    BY <2>1, <2>2
<1>3. ~ (part = "qsa") /\ [Next]_vars => ~ (part = "qsa")'
  BY DEF Next, vars
<1> QED
  BY <1>1, <1>2, <1>3

-----------------------------------------------------------------------------
\* In each of the groups no slot of the pool is lost or handed out twice.
THEOREM PoolSlotsAccounted == Spec => []SlotsAccounted
<1>1. Pool!KSpec => []Pool!SlotsAccounted
  BY Assumptions, Pool!SlotsNeverLost DEF Assumptions
<1>2. Drafter!KSpec => []Drafter!SlotsAccounted
  BY Assumptions, Drafter!SlotsNeverLost DEF Assumptions
<1>3. Chunks!KSpec => []Chunks!SlotsAccounted
  BY Assumptions, Chunks!SlotsNeverLost DEF Assumptions
<1> QED
  BY <1>1, <1>2, <1>3, PoolPart, DrafterPart, ChunksPart, PTL
     DEF Spec, SlotsAccounted, Pool!KSpec, Drafter!KSpec, Chunks!KSpec

\* In each of the groups the first block of a request that runs keeps its slot while it is read.
THEOREM PoolSinksKept == Spec => []LiveSinkKept
<1>1. Pool!KSpec => []Pool!LiveSinkKept
  BY Assumptions, Pool!SinksStay DEF Assumptions
<1>2. Drafter!KSpec => []Drafter!LiveSinkKept
  BY Assumptions, Drafter!SinksStay DEF Assumptions
<1>3. Chunks!KSpec => []Chunks!LiveSinkKept
  BY Assumptions, Chunks!SinksStay DEF Assumptions
<1> QED
  BY <1>1, <1>2, <1>3, PoolPart, DrafterPart, ChunksPart, PTL
     DEF Spec, LiveSinkKept, Pool!KSpec, Drafter!KSpec, Chunks!KSpec

\* In none of the groups the pool is exhausted.
THEOREM PoolsSuffice == Spec => []PoolNeverExhausted
<1>1. Pool!KSpec => []Pool!PoolNeverExhausted
  BY Assumptions, Pool!PoolSuffices DEF Assumptions
<1>2. Drafter!KSpec => []Drafter!PoolNeverExhausted
  BY Assumptions, Drafter!PoolSuffices DEF Assumptions
<1>3. Chunks!KSpec => []Chunks!PoolNeverExhausted
  BY Assumptions, Chunks!PoolSuffices DEF Assumptions
<1> QED
  BY <1>1, <1>2, <1>3, PoolPart, DrafterPart, ChunksPart, PTL
     DEF Spec, PoolNeverExhausted, Pool!KSpec, Drafter!KSpec, Chunks!KSpec

\* In each of the groups attention reads the tokens of the request.
THEOREM PoolsReadRight == Spec => []ReadsRight
<1>1. Pool!KSpec => []Pool!ReadsRight
  BY Assumptions, Pool!ReadsOwnTokens DEF Assumptions
<1>2. Drafter!KSpec => []Drafter!ReadsRight
  BY Assumptions, Drafter!ReadsOwnTokens DEF Assumptions
<1>3. Chunks!KSpec => []Chunks!ReadsRight
  BY Assumptions, Chunks!ReadsOwnTokens DEF Assumptions
<1> QED
  BY <1>1, <1>2, <1>3, PoolPart, DrafterPart, ChunksPart, PTL
     DEF Spec, ReadsRight, Pool!KSpec, Drafter!KSpec, Chunks!KSpec

\* Every expert of the rank that a token is routed to contributes once, with its own weights.
THEOREM HotEachOnce == Spec => []EachExpertOnce
<1>1. Hot!Spec => []Hot!EachExpertOnce
  BY Assumptions, Hot!EachOnce DEF Assumptions
<1> QED
  BY <1>1, ExpertsPart, PTL DEF Spec, EachExpertOnce, Hot!Spec

\* The map, the slots and the copies of a cache that is replaced by use agree.
THEOREM HotMapsMatch == Spec => []SlotsMatchMap
<1>1. Hot!Spec => []Hot!SlotsMatchMap
  BY Assumptions, Hot!MapsMatch DEF Assumptions
<1> QED
  BY <1>1, ExpertsPart, PTL DEF Spec, SlotsMatchMap, Hot!Spec

\* Every kernel of the offloaded layers reads the weights of its own layer.
THEOREM OffloadRightWeights == Spec => []RightWeights
<1>1. Offload!Spec => []Offload!RightWeights
  BY Assumptions, Offload!KernelsReadTheirLayer DEF Assumptions, Offload!EvenSlots
<1> QED
  BY <1>1, OffloadPart, PTL DEF Spec, RightWeights, Offload!Spec

\* No graph capture ends with a copy that is not joined to it.
THEOREM OffloadCaptureJoined == Spec => []CaptureJoined
<1>1. Offload!Spec => []Offload!CaptureJoined
  BY Assumptions, Offload!CapturesJoin DEF Assumptions
<1> QED
  BY <1>1, OffloadPart, PTL DEF Spec, CaptureJoined, Offload!Spec

\* The steps of the model runner compute the right tokens at the right positions.
THEOREM RunnerInputsRight == Spec => []InputsRight
<1>1. RunnerP!Spec => []RunnerP!InputsRight
  BY Assumptions, RunnerP!StepsFedRight
     DEF Assumptions, Runner!RunnerAssumption, RunnerP!RunnerAssumption, Runner!IsFiniteSet,
         RunnerP!IsFiniteSet
<1>2. Runner!InputsRight <=> RunnerP!InputsRight
  BY Zenon
     DEF Runner!InputsRight, Runner!Wrong, Runner!NumLogits, Runner!DecodeQueryLen,
         RunnerP!InputsRight, RunnerP!Wrong, RunnerP!NumLogits, RunnerP!DecodeQueryLen
<1> QED
  BY <1>1, <1>2, RunnerPart, PTL DEF Spec, InputsRight, RunnerP!Spec

\* The compressed key of a complete group is pooled from the raw keys of its own tokens.
THEOREM QsaPooledRight == Spec => []KeysPooledRight
<1>1. RunnerP!Qsa!Spec => []RunnerP!Qsa!KeysPooledRight
  <2>1. RunnerP!Qsa!QsaAssumption
    BY QsaConstants
  <2> QED
    BY <2>1, RunnerP!PooledFromOwnTokens
<1>2. Qsa!KeysPooledRight <=> RunnerP!Qsa!KeysPooledRight
  BY Zenon DEF Qsa!KeysPooledRight, Qsa!PhysicalSlot, Qsa!Pad, RunnerP!Qsa!KeysPooledRight,
               RunnerP!Qsa!PhysicalSlot, RunnerP!Qsa!Pad
<1> QED
  BY <1>1, <1>2, QsaPart, PTL DEF Spec, KeysPooledRight, RunnerP!Qsa!Spec

\* No step changes the part a behaviour is about, nor its input.
LEMMA InputKept ==
    ASSUME Next
    PROVE  part' = part /\ input' = input
<1>1. UNCHANGED <<part, input>>
  BY Zenon DEF Next
<1> QED
  BY <1>1, Zenon

\* The best groups that a query chooses are attended once, with its open group and nothing
\* after it.
THEOREM QsaSelectsOnce == Spec => []SelectsOnce
<1> DEFINE Inv == part = "qsa query" => input \in (0 .. Qsa!MaxLen - 1) \X (1 .. Qsa!MaxLen)
<1>1. Init => Inv
  BY DEF Init
<1>2. Inv /\ [Next]_vars => Inv'
  <2>1. ASSUME Next PROVE part' = part /\ input' = input
    BY <2>1, InputKept
  <2>2. Qsa!MaxLen' = Qsa!MaxLen
    BY DEF Qsa!MaxLen, Qsa!Columns
  <2> QED
    BY <2>1, <2>2 DEF vars
<1>3. RunnerP!Qsa!QsaAssumption
  BY QsaConstants
<1>4. Qsa!MaxLen = RunnerP!Qsa!MaxLen /\ Qsa!MaxLen \in Nat
  BY DEF Qsa!MaxLen, Qsa!Columns, RunnerP!Qsa!MaxLen, RunnerP!Qsa!Columns
<1>5. ASSUME NEW p, NEW l PROVE Qsa!SelectsOnce(p, l) <=> RunnerP!Qsa!SelectsOnce(p, l)
  BY Zenon DEF Qsa!SelectsOnce, Qsa!Rankings, Qsa!TopK, Qsa!Smaller, Qsa!Columns, Qsa!Visible,
             Qsa!Pad, Qsa!IsInjective, Qsa!Cardinality, Qsa!Reads, Qsa!Selected, Qsa!Width,
             Qsa!SplitTiles, Qsa!NumTiles, Qsa!NumSplits, Qsa!Ceil, RunnerP!Qsa!SelectsOnce,
             RunnerP!Qsa!Rankings, RunnerP!Qsa!TopK, RunnerP!Qsa!Smaller, RunnerP!Qsa!Columns,
             RunnerP!Qsa!Visible, RunnerP!Qsa!Pad, RunnerP!Qsa!IsInjective,
             RunnerP!Qsa!Cardinality, RunnerP!Qsa!Reads, RunnerP!Qsa!Selected, RunnerP!Qsa!Width,
             RunnerP!Qsa!SplitTiles, RunnerP!Qsa!NumTiles, RunnerP!Qsa!NumSplits,
             RunnerP!Qsa!Ceil
<1>6. Inv => SelectsOnce
  <2> DEFINE n == Qsa!MaxLen
             m == input[1]
             l == input[2]
  <2>0. n \in Nat /\ n = RunnerP!Qsa!MaxLen
    BY <1>4
  <2> HIDE DEF n
  <2>1. SUFFICES ASSUME input \in (0 .. n - 1) \X (1 .. n), m < l
                 PROVE  Qsa!SelectsOnce(m, l)
    BY DEF SelectsOnce, n
  <2>2. m \in 0 .. n - 1 /\ l \in 1 .. n
    BY <2>1
  <2> HIDE DEF m, l
  <2>3. m \in Nat /\ l \in Nat /\ m < l /\ l <= RunnerP!Qsa!MaxLen
    BY <2>0, <2>1, <2>2
  <2>4. RunnerP!Qsa!SelectsOnce(m, l)
    BY <1>3, <2>3, RunnerP!QuerySelectsOnce
  <2> QED
    BY <1>5, <2>4
<1> QED
  BY <1>1, <1>2, <1>6, PTL DEF Spec

\* Each matrix of each physical expert is loaded once, from the expert it is a copy of, but for
\* the copies that a fused tensor leaves unfilled.
THEOREM ExpertPartsLoaded == Spec => []EveryPartLoaded
<1> DEFINE Inv == part = "weights" => input \in Weights!Configs
<1>1. Init => Inv
  BY DEF Init
<1>2. Inv /\ [Next]_vars => Inv'
  <2>1. ASSUME Next PROVE part' = part /\ input' = input
    BY <2>1, InputKept
  <2> QED
    BY <2>1 DEF vars
<1>3. ASSUME NEW c PROVE Weights!EveryPartLoaded(c) <=> Hot!Loader!EveryPartLoaded(c)
  <2>1. /\ Weights!Physical(c) = Hot!Loader!Physical(c)
        /\ Weights!Shards = Hot!Loader!Shards
        /\ Weights!AllExperts = Hot!Loader!AllExperts
    BY Zenon DEF Weights!Physical, Weights!Shards, Weights!AllExperts, Hot!Loader!Physical,
                 Hot!Loader!Shards, Hot!Loader!AllExperts
  <2>2. Weights!CkptTensors(c) = Hot!Loader!CkptTensors(c)
    BY <2>1, Zenon DEF Weights!CkptTensors, Hot!Loader!CkptTensors
  <2>3. Weights!ExpertMapping(c) = Hot!Loader!ExpertMapping(c)
    BY <2>1, SMT DEF Weights!ExpertMapping, Hot!Loader!ExpertMapping
  <2>4. ASSUME NEW e PROVE Weights!HalfOf(e) = Hot!Loader!HalfOf(e)
    BY <2>1, Zenon DEF Weights!HalfOf, Hot!Loader!HalfOf
  <2>5. ASSUME NEW t PROVE Weights!Writes(c, t) = Hot!Loader!Writes(c, t)
    BY <2>1, <2>3, <2>4, SMT DEF Weights!Writes, Hot!Loader!Writes
  <2>6. ASSUME NEW S PROVE Weights!Cardinality(S) = Hot!Loader!Cardinality(S)
    BY Zenon DEF Weights!Cardinality, Hot!Loader!Cardinality
  <2>7. \A t : Weights!Writes(c, t) = Hot!Loader!Writes(c, t)
    BY <2>5, Zenon
  <2>8. \A S : Weights!Cardinality(S) = Hot!Loader!Cardinality(S)
    BY <2>6, Zenon
  <2> DEFINE W(t) == Weights!Writes(c, t)
             V(t) == Hot!Loader!Writes(c, t)
             D == Weights!CkptTensors(c)
             E == Hot!Loader!CkptTensors(c)
             wa == UNION {{[t |-> t, w |-> w] : w \in W(t)} : t \in D}
             wb == UNION {{[t |-> t, w |-> w] : w \in V(t)} : t \in E}
  <2>9. wa = wb
    <3>1. D = E /\ \A t : W(t) = V(t)
      BY <2>2, <2>7, Zenon
    <3> HIDE DEF W, V, D, E
    <3> QED
      BY <3>1, SMT
  <2> DEFINE at(X, p, s) == {x \in X : x.w.into = p /\ x.w.shard = s}
             good(X, p, s, n) ==
                 /\ n = IF c.layout = "fused" /\ p >= 2 THEN 0 ELSE 1
                 /\ \A x \in at(X, p, s) :
                       /\ x.w.from = p % 2
                       /\ x.t.part = "w13" => x.w.half = IF s = "w1" THEN 0 ELSE 1
  <2>10. Weights!EveryPartLoaded(c) <=>
            \A p \in Weights!Physical(c), s \in Weights!Shards :
               good(wa, p, s, Weights!Cardinality(at(wa, p, s)))
    BY Zenon DEF Weights!EveryPartLoaded
  <2>11. Hot!Loader!EveryPartLoaded(c) <=>
            \A p \in Hot!Loader!Physical(c), s \in Hot!Loader!Shards :
               good(wb, p, s, Hot!Loader!Cardinality(at(wb, p, s)))
    BY Zenon DEF Hot!Loader!EveryPartLoaded
  <2> HIDE DEF at, good, wa, wb
  <2> QED
    BY <2>1, <2>8, <2>9, <2>10, <2>11, Zenon
<1>4. Weights!Configs = Hot!Loader!Configs
  BY Zenon DEF Weights!Configs, Hot!Loader!Configs
<1>5. Inv => EveryPartLoaded
  BY <1>3, <1>4, Hot!PartsLoaded DEF EveryPartLoaded
<1> QED
  BY <1>1, <1>2, <1>5, PTL DEF Spec
=============================================================================

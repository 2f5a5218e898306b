----------------------------- MODULE Components -----------------------------
(***************************************************************************)
(* Components that do not talk to each other, checked side by side: a      *)
(* behaviour picks one of them in its first state and is a behaviour of    *)
(* that one from then on.  A component without state of its own is a       *)
(* function of the input it is given.  What is between them is in the      *)
(* modules themselves: each has its environment.                           *)
(***************************************************************************)
EXTENDS Integers, Sequences, TLC

CONSTANTS Reqs, Chains, Blocks, MoeLayers

VARIABLES
    part,       \* the component
    input,      \* of a component without state
    \* KvarnPool
    pc, pass, admits, chain, table, len, q, acc, label, held, freeSlots, sinks, retired, fill,
    pool, tile,
    \* KvarnAttention
    batch, set, causal, padded,
    \* HotExperts and PrefetchOffload
    mode, map, rows, hot, stage, ids, out,
    phase, layer, passes, inCapture, eventValid, event, barrier, runs, copies, joined, computeQ,
    computeDone, reading, copyQ, copyDone, writing, slot,
    \* QsaCache
    computed, drafted, ring, keys,
    \* ModelRunner
    status, known, announced, left, inFlight, preemptions, rowOf, states, step,
    \* ConvSlots, of PleLayer and GatedDelta
    numSpec, seen, accepted, conv, chosen, ssm

poolVars == <<pc, pass, admits, chain, table, len, q, acc, label, held, freeSlots, sinks, retired,
              fill, pool, tile>>
attnVars == <<batch, set, causal, padded>>
hotVars  == <<map, rows, hot, stage, ids, out>>
offVars  == <<phase, layer, passes, inCapture, eventValid, event, barrier, runs, copies, joined,
              computeQ, computeDone, reading, copyQ, copyDone, writing, slot>>
qsaVars  == <<computed, drafted, ring, keys>>
runVars  == <<status, known, announced, left, inFlight, preemptions, rowOf, states, step>>
pleVars  == <<numSpec, seen, accepted, conv, chosen, ssm>>
vars == <<part, input, poolVars, attnVars, mode, hotVars, offVars, qsaVars, runVars, pleVars>>

\* A group of the target model, short of slots; one of the drafter; and chunks of
\* several blocks.
Pool == INSTANCE KvarnPoolProofs WITH
    G <- 2, Budget <- 2, Spec <- 1, Drafts <- 0, PoolSlots <- 4, MaxLen <- 3, MaxAdmits <- 3,
    HitsUnsettled <- FALSE

Drafter == INSTANCE KvarnPoolProofs WITH
    G <- 2, Budget <- 2, Spec <- 1, Drafts <- 1, PoolSlots <- 6, MaxLen <- 6, MaxAdmits <- 2,
    HitsUnsettled <- FALSE

Chunks == INSTANCE KvarnPoolProofs WITH
    Reqs <- {CHOOSE r \in Reqs : TRUE},
    G <- 2, Budget <- 4, Spec <- 1, Drafts <- 0, PoolSlots <- 5, MaxLen <- 8, MaxAdmits <- 1,
    HitsUnsettled <- FALSE

Attention == INSTANCE KvarnAttention WITH
    G <- 2, NumSpec <- 1, Lengths <- {0, 1, 3}, Queries <- {1, 2, 4}, MaxReqs <- 2,
    ScratchRows <- 10, Slice <- 3, VerifyQuery <- 2, VerifyBlocks <- 3, Splits <- 3

Hot == INSTANCE HotExpertsProofs WITH
    Layers <- MoeLayers,
    NumExperts <- 4, Ownerships <- {{0, 1, 3}}, Rankings <- {<<2, 0, 3, 1>>}, Capacity <- 2,
    TopK <- 1, MaxTokens <- 3, StageCapacity <- 2, Batches <- {1, 2, 3},
    Hidden <- 16, Channels <- 16, PackFactor <- 8, Tile <- 16, NumLogical <- 2,
    GroupSizes <- {4, 16}

Offload == INSTANCE PrefetchProofs WITH NumLayers <- 4, PrefetchStep <- 2, MaxPasses <- 5

\* Shards that are padded; shards that cut a group.
Weights == INSTANCE ExpertWeights WITH
    H <- 16, I <- 16, P <- 8, Tile <- 16, NumLogical <- 2, GroupSizes <- {4, 16}

Wide == INSTANCE ExpertWeights WITH
    H <- 16, I <- 48, P <- 8, Tile <- 8, NumLogical <- 2, GroupSizes <- {16}

Qsa == INSTANCE QsaCache WITH
    R <- 2, NumSpec <- 2, StorageBlock <- 2, Table <- <<2, 0, 1>>, MaxRows <- 5, MaxReqs <- 3,
    Starts <- {0, 1, 2}, Queries <- {0, 1, 2, 5}, BlockTopK <- 2, BlockN <- 2, TargetSplits <- 2

Runner == INSTANCE ModelRunner WITH
    Reqs <- {1, 2}, Prompt <- 1, NumRows <- 2, NumSpec <- 1, MaxLen <- 4, MaxChunk <- 3,
    MaxInFlight <- 2, MaxPreemptions <- 1

\* Sizes that are rounded to decodes; sizes that are whole decodes.
Graphs == INSTANCE CudaGraphs WITH
    Sizes <- {2, 4, 5, 8}, MaxNumReqs <- 3, QueryLens <- {2, 3}, LoraCases <- {0, 2}

WholeGraphs == INSTANCE CudaGraphs WITH
    Sizes <- {4, 8}, MaxNumReqs <- 3, QueryLens <- {2, 4}, LoraCases <- {0, 2}

\* Drafts, rollback and padded graphs; requests of three kinds in a batch; the linear
\* attention beside them.
Ple == INSTANCE PleLayer WITH
    computed <- seen, batch <- chosen,
    NumReqs <- 2, Kernel <- 3, Dilation <- 1, NumSpecs <- {0, 2}, NgramSize <- 3, EosAt <- {2},
    Prompt <- 3, MaxLen <- 6, MaxNumSeqs <- 3, CaptureSize <- 9

PleKinds == INSTANCE PleLayer WITH
    computed <- seen, batch <- chosen,
    NumReqs <- 3, Kernel <- 3, Dilation <- 1, NumSpecs <- {1}, NgramSize <- 3, EosAt <- {1},
    Prompt <- 2, MaxLen <- 3, MaxNumSeqs <- 3, CaptureSize <- 6

Delta == INSTANCE GatedDelta WITH
    computed <- seen, batch <- chosen,
    NumReqs <- 2, Kernel <- 3, Dilation <- 1, NumSpecs <- {0, 1},
    Prompt <- 2, MaxLen <- 5, MaxNumSeqs <- 3, CaptureSize <- 6

ASSUME Assumptions ==
    /\ Pool!KvarnAssumption /\ Drafter!KvarnAssumption /\ Chunks!KvarnAssumption
    /\ Pool!SlotsSuffice /\ Drafter!SlotsSuffice /\ Chunks!SlotsSuffice
    /\ Attention!AttentionAssumption
    /\ Hot!ExpertsAssumption /\ Offload!OffloadAssumption /\ Qsa!QsaAssumption
    /\ Runner!RunnerAssumption /\ Graphs!GraphAssumption /\ WholeGraphs!GraphAssumption
    /\ Ple!PleLayerAssumption /\ PleKinds!PleLayerAssumption /\ Delta!GatedDeltaAssumption
-----------------------------------------------------------------------------
\* The variables of the components that were not picked.
NoPool == pc = <<>> /\ pass = <<>> /\ admits = <<>> /\ chain = <<>> /\ table = <<>> /\ len = <<>>
          /\ q = <<>> /\ acc = <<>> /\ label = <<>> /\ held = <<>> /\ freeSlots = <<>>
          /\ sinks = <<>> /\ retired = <<>> /\ fill = <<>> /\ pool = <<>> /\ tile = <<>>
NoAttn == batch = <<>> /\ set = <<>> /\ causal = <<>> /\ padded = <<>>
NoHot  == map = <<>> /\ rows = <<>> /\ hot = <<>> /\ stage = <<>> /\ ids = <<>> /\ out = <<>>
NoOff  == phase = <<>> /\ layer = <<>> /\ passes = <<>> /\ inCapture = <<>> /\ eventValid = <<>>
          /\ event = <<>> /\ barrier = <<>> /\ runs = <<>> /\ copies = <<>> /\ joined = <<>>
          /\ computeQ = <<>> /\ computeDone = <<>> /\ reading = <<>> /\ copyQ = <<>>
          /\ copyDone = <<>> /\ writing = <<>> /\ slot = <<>>
NoQsa  == computed = <<>> /\ drafted = <<>> /\ ring = <<>> /\ keys = <<>>
NoRun  == status = <<>> /\ known = <<>> /\ announced = <<>> /\ left = <<>> /\ inFlight = <<>>
          /\ preemptions = <<>> /\ rowOf = <<>> /\ states = <<>> /\ step = <<>>
NoSsm  == ssm = <<>>
NoPle  == numSpec = <<>> /\ seen = <<>> /\ accepted = <<>> /\ conv = <<>> /\ chosen = <<>> /\ NoSsm
NoInput == input = <<>>

NoState == NoPool /\ NoAttn /\ mode = <<>> /\ NoHot /\ NoOff /\ NoQsa /\ NoRun /\ NoPle

\* One component has its initial state, the variables of the others are empty.
Init ==
    \/ /\ part = "pool" /\ Pool!Init
       /\ NoInput /\ NoAttn /\ mode = <<>> /\ NoHot /\ NoOff /\ NoQsa /\ NoRun /\ NoPle
    \/ /\ \/ part = "drafter" /\ Drafter!Init
          \/ part = "chunks" /\ Chunks!Init
       /\ NoInput /\ NoAttn /\ mode = <<>> /\ NoHot /\ NoOff /\ NoQsa /\ NoRun /\ NoPle
    \/ /\ part = "attention" /\ Attention!Init
       /\ NoInput /\ NoPool /\ mode = <<>> /\ NoHot /\ NoOff /\ NoQsa /\ NoRun /\ NoPle
    \/ /\ part = "experts" /\ Hot!Init
       /\ NoInput /\ NoPool /\ NoAttn /\ NoOff /\ NoQsa /\ NoRun /\ NoPle
    \/ /\ part = "offload" /\ Offload!Init
       /\ NoInput /\ NoPool /\ NoAttn /\ NoHot /\ NoQsa /\ NoRun /\ NoPle
    \/ /\ part = "qsa" /\ Qsa!Init
       /\ NoInput /\ NoPool /\ NoAttn /\ mode = <<>> /\ NoHot /\ NoOff /\ NoRun /\ NoPle
    \/ /\ part = "runner" /\ Runner!Init
       /\ NoInput /\ NoPool /\ NoAttn /\ mode = <<>> /\ NoHot /\ NoOff /\ NoQsa /\ NoPle
    \/ /\ \/ part = "ple layer" /\ Ple!Init /\ NoSsm
          \/ part = "ple kinds" /\ PleKinds!Init /\ NoSsm
          \/ part = "linear attention" /\ Delta!Init
       /\ NoInput /\ NoPool /\ NoAttn /\ mode = <<>> /\ NoHot /\ NoOff /\ NoQsa /\ NoRun
    \/ part = "weights" /\ input \in {c \in Weights!Configs : Weights!Accepted(c)} /\ NoState
    \/ part = "wide weights" /\ input \in {c \in Wide!Configs : Wide!Accepted(c)} /\ NoState
    \/ part = "qsa batch" /\ input \in Qsa!Batches /\ NoState
    \/ part = "qsa query" /\ input \in (0 .. Qsa!MaxLen - 1) \X (1 .. Qsa!MaxLen) /\ NoState
    \/ part = "graphs" /\ input \in Graphs!Configs \X Graphs!Batches /\ NoState
    \/ part = "whole graphs" /\ input \in WholeGraphs!Configs \X WholeGraphs!Batches /\ NoState

Next ==
    \/ /\ part = "pool" /\ Pool!Next
       /\ UNCHANGED <<part, input, attnVars, mode, hotVars, offVars, qsaVars, runVars, pleVars>>
    \/ /\ part = "drafter" /\ Drafter!Next
       /\ UNCHANGED <<part, input, attnVars, mode, hotVars, offVars, qsaVars, runVars, pleVars>>
    \/ /\ part = "chunks" /\ Chunks!Next
       /\ UNCHANGED <<part, input, attnVars, mode, hotVars, offVars, qsaVars, runVars, pleVars>>
    \/ /\ part = "attention" /\ Attention!Next
       /\ UNCHANGED <<part, input, poolVars, mode, hotVars, offVars, qsaVars, runVars, pleVars>>
    \/ /\ part = "experts" /\ Hot!Next
       /\ UNCHANGED <<part, input, poolVars, attnVars, offVars, qsaVars, runVars, pleVars>>
    \/ /\ part = "offload" /\ Offload!Next
       /\ UNCHANGED <<part, input, poolVars, attnVars, hotVars, qsaVars, runVars, pleVars>>
    \/ /\ part = "qsa" /\ Qsa!Next
       /\ UNCHANGED <<part, input, poolVars, attnVars, mode, hotVars, offVars, runVars, pleVars>>
    \/ /\ part = "runner" /\ Runner!Next
       /\ UNCHANGED <<part, input, poolVars, attnVars, mode, hotVars, offVars, qsaVars, pleVars>>
    \/ /\ part = "ple layer" /\ Ple!Next /\ UNCHANGED ssm
       /\ UNCHANGED <<part, input, poolVars, attnVars, mode, hotVars, offVars, qsaVars, runVars>>
    \/ /\ part = "ple kinds" /\ PleKinds!Next /\ UNCHANGED ssm
       /\ UNCHANGED <<part, input, poolVars, attnVars, mode, hotVars, offVars, qsaVars, runVars>>
    \/ /\ part = "linear attention" /\ Delta!Next
       /\ UNCHANGED <<part, input, poolVars, attnVars, mode, hotVars, offVars, qsaVars, runVars>>

Spec == Init /\ [][Next]_vars
-----------------------------------------------------------------------------
\* Of two states that differ in what the components never read again one is
\* explored.  The blocks of the pool are interchangeable.
View == <<part, input, attnVars, mode, offVars, qsaVars, pleVars,
          IF part \in {"pool", "drafter"} THEN Pool!View ELSE <<>>,
          IF part = "chunks" THEN Chunks!View ELSE <<>>,
          IF part = "experts" THEN Hot!View ELSE <<>>,
          IF part = "runner" THEN Runner!View ELSE <<>>>>
Symmetry == Permutations(Blocks)
-----------------------------------------------------------------------------
\* Every variable has its type.
TypeOK ==
    /\ part = "pool" => Pool!TypeOK
    /\ part = "drafter" => Drafter!TypeOK
    /\ part = "chunks" => Chunks!TypeOK
    /\ part = "attention" => Attention!TypeOK
    /\ part = "experts" => Hot!TypeOK
    /\ part = "offload" => Offload!TypeOK
    /\ part = "qsa" => Qsa!TypeOK
    /\ part = "runner" => Runner!TypeOK
    /\ part = "ple layer" => Ple!TypeOK
    /\ part = "ple kinds" => PleKinds!TypeOK
    /\ part = "linear attention" => Delta!TypeOK

\* The properties of the modules, which say there what they are about.
ReadsRight ==
    /\ part = "pool" => Pool!ReadsRight
    /\ part = "drafter" => Drafter!ReadsRight
    /\ part = "chunks" => Chunks!ReadsRight
PoolNeverExhausted ==
    /\ part = "pool" => Pool!PoolNeverExhausted
    /\ part = "drafter" => Drafter!PoolNeverExhausted
    /\ part = "chunks" => Chunks!PoolNeverExhausted
LiveSinkKept ==
    /\ part = "pool" => Pool!LiveSinkKept
    /\ part = "drafter" => Drafter!LiveSinkKept
    /\ part = "chunks" => Chunks!LiveSinkKept
SlotsAccounted ==
    /\ part = "pool" => Pool!SlotsAccounted
    /\ part = "drafter" => Drafter!SlotsAccounted
    /\ part = "chunks" => Chunks!SlotsAccounted
AttendsOnce     == part = "attention" => Attention!AttendsOnce
EachExpertOnce  == part = "experts" => Hot!EachExpertOnce
SlotsMatchMap   == part = "experts" => Hot!SlotsMatchMap
RightWeights    == part = "offload" => Offload!RightWeights
CaptureJoined   == part = "offload" => Offload!CaptureJoined
RightOperands ==
    /\ part = "weights" => Weights!RightOperands(input)
    /\ part = "wide weights" => Wide!RightOperands(input)
EveryPartLoaded == part = "weights" => Weights!EveryPartLoaded(input)
KeysPooledRight == part = "qsa" => Qsa!KeysPooledRight
EachGroupOnce   == part = "qsa batch" => Qsa!EachGroupOnce(input)
SelectsOnce     ==
    part = "qsa query" /\ input[1] < input[2] => Qsa!SelectsOnce(input[1], input[2])
InputsRight     == part = "runner" => Runner!InputsRight
RowsRight       ==
    /\ part = "ple layer" => Ple!RowsRight
    /\ part = "ple kinds" => PleKinds!RowsRight
    /\ part = "linear attention" => Delta!StatesRight
GraphFits ==
    /\ part = "graphs" => Graphs!GraphFits(input[1], input[2])
    /\ part = "whole graphs" => WholeGraphs!GraphFits(input[1], input[2])
=============================================================================

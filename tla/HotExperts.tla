----------------------------- MODULE HotExperts -----------------------------
(***************************************************************************)
(* The hot experts of a quantized mixture-of-experts layer                 *)
(* (compressed_tensors_moe_wna16.py).                                      *)
(*                                                                         *)
(* The rows of a layer, one for each expert of this rank, are in host      *)
(* memory.  There are four ways to have the frequent ones on the device:   *)
(* fixed copies of the hottest rows, with one kernel for them and one for  *)
(* the others ("split"); those copies and the other rows a batch needs     *)
(* gathered into buffers that all layers share ("stage"); copies that are  *)
(* replaced by use ("lru"); and a permutation that puts the hottest rows   *)
(* into the part of the tensor that is on the device ("vmm").  In each a   *)
(* map from experts to rows says what a kernel reads, -1 for no row; a     *)
(* large batch is computed from the host rows ("plain").                   *)
(***************************************************************************)
EXTENDS Integers, Sequences, FiniteSets, Functions, SequencesExt

CONSTANTS
    Layers,
    NumExperts,     \* global_num_experts
    Ownerships,     \* the sets of experts a rank may have
    Rankings,       \* the orders, hottest first, that the file may give
    Capacity,       \* VLLM_WNA16_STATIC_HOT_CACHE_SIZE
    TopK,           \* experts_per_token
    MaxTokens,      \* VLLM_WNA16_STATIC_HOT_CACHE_MAX_TOKENS
    StageCapacity,  \* VLLM_WNA16_STATIC_STAGE_CAPACITY
    Batches         \* bound: tokens of a batch

Experts == 0 .. NumExperts - 1
None == -1
Modes == {"plain", "split", "stage", "lru", "vmm"}

ExpertsAssumption ==
    /\ Ownerships \subseteq SUBSET Experts
    /\ \A r \in Rankings : r \in Seq(Experts) /\ IsInjective(r)
    /\ {NumExperts, Capacity, TopK, MaxTokens, StageCapacity} \subseteq Nat \ {0}
    /\ Batches \subseteq Nat

VARIABLES
    mode,
    map,        \* layer.expert_map: the row of an expert
    rows,       \* of each layer: what its rows hold
    hot,        \* of each layer: _StaticHotExpertCache
    stage,      \* _StaticStageBuffers
    ids, out    \* the batch computed: its layer and experts, and the rows used
vars == <<mode, map, rows, hot, stage, ids, out>>

\* The weights of expert e in layer l; rows no one has written.
Weights(l, e) == <<l, e>>
Unwritten == <<>>

NoMap == [e \in Experts |-> None]
Position(s, x) == (CHOOSE i \in DOMAIN s : s[i] = x) - 1

\* The numbers of a set, the smallest first.
Ascending(S) == CHOOSE s \in SetToSeqs(S) : \A i, j \in DOMAIN s : i < j => s[i] < s[j]

\* The rows of a rank are in the order of its experts.
OwnMap(owned) ==
    [e \in Experts |-> IF e \in owned THEN Position(Ascending(owned), e) ELSE None]
-----------------------------------------------------------------------------
(* Initialization.                                                         *)

\* Experts that get a copy: the first of the ranking that are local.
HotIds(m, ranking) ==
    LET local == Ascending({i \in DOMAIN ranking : m[ranking[i]] >= 0})
    IN  [k \in 1 .. (IF Len(local) < Capacity THEN Len(local) ELSE Capacity) |->
            ranking[local[k]]]

\* maybe_init_static_hot_cache.  The copies are one based here, their numbers
\* in the maps are not.
InitCache(l, m, rowsOf, ranking, how) ==
    LET chosen == HotIds(m, ranking)
        n == Len(chosen)
    IN  [slots |-> chosen,
         rows  |-> [s \in 1 .. n |-> rowsOf[m[chosen[s]] + 1]],
         map   |-> [e \in Experts |-> IF e \in Range(chosen) THEN Position(chosen, e) ELSE None],
         cold  |-> [e \in Experts |-> IF how # "lru" /\ e \in Range(chosen) THEN None ELSE m[e]],
         ages  |-> [s \in 1 .. n |-> n + 1 - s],
         clock |-> n]

\* maybe_init_mixed_vmm_hot_cache: which old row each new row is.
NewToOld(m, ranking, n) ==
    LET chosen == HotIds(m, ranking)
        first  == [i \in DOMAIN chosen |-> m[chosen[i]]]
    IN  first \o Ascending((0 .. n - 1) \ Range(first))

Renumbered(old, newToOld) == IF old = None THEN None ELSE Position(newToOld, old)

\* _permute_expert_rows_kernel.
Permuted(rowsOf, newToOld) == [n \in DOMAIN newToOld |-> rowsOf[newToOld[n] + 1]]

Init ==
    \E owned \in Ownerships, ranking \in Rankings, how \in Modes :
        LET m     == OwnMap(owned)
            order == Ascending(owned)
            host(l) == [i \in DOMAIN order |-> Weights(l, order[i])]
            moved == NewToOld(m, ranking, Len(order))
        IN  /\ mode = how
            /\ map = IF how = "vmm" THEN [e \in Experts |-> Renumbered(m[e], moved)] ELSE m
            /\ rows = [l \in Layers |->
                  IF how = "vmm" THEN Permuted(host(l), moved) ELSE host(l)]
            /\ hot = [l \in Layers |-> InitCache(l, m, host(l), ranking, how)]
            /\ stage = [map |-> NoMap, rows |-> [i \in 1 .. StageCapacity |-> Unwritten]]
            /\ ids = <<>> /\ out = <<>>
-----------------------------------------------------------------------------
(* A forward pass of a layer, apply().                                     *)

\* A kernel adds, for each routed expert, the product with the row the map
\* gives; experts without one are left to other ranks.
Kernel(batch, m, r) ==
    [i \in DOMAIN batch |->
        IF batch[i] # None /\ m[batch[i]] >= 0 THEN <<r[m[batch[i]] + 1]>> ELSE <<>>]

Both(a, b) == [i \in DOMAIN a |-> a[i] \o b[i]]

Small(batch) == Len(batch) <= MaxTokens * TopK
Cached(l) == mode \in {"split", "stage", "lru"} /\ hot[l].slots # <<>>

\* Mutant of FitsLru: only the miss lists limit the batch.
FitsLruMutant(l, batch) == Len(batch) <= MaxTokens * TopK

FitsLru(l, batch) == Len(batch) <= MaxTokens * TopK /\ Len(batch) <= Len(hot[l].slots)
FitsStage(batch) == Len(batch) <= StageCapacity

\* No cache, or a batch too large for it.
ApplyPlain(l, batch) ==
    /\ out = <<>>
    /\ \/ ~Cached(l) \/ ~Small(batch)
       \/ mode = "lru" /\ ~FitsLru(l, batch)
       \/ mode = "stage" /\ ~FitsStage(batch)
    /\ out' = Kernel(batch, map, rows[l])
    /\ ids' = [layer |-> l, experts |-> batch]
    /\ UNCHANGED <<mode, map, rows, hot, stage>>

\* Two kernels, over the copies and over the other rows.
ApplySplit(l, batch) ==
    /\ out = <<>> /\ mode = "split" /\ Cached(l) /\ Small(batch)
    /\ out' = Both(Kernel(batch, hot[l].cold, rows[l]), Kernel(batch, hot[l].map, hot[l].rows))
    /\ ids' = [layer |-> l, experts |-> batch]
    /\ UNCHANGED <<mode, map, rows, hot, stage>>

\* _prepare_static_stage_map_kernel: of the places that name an expert any one
\* is stored last.
StageMaps(batch) ==
    LET local == {e \in Range(batch) \ {None} : map[e] >= 0}
    IN  {m \in [Experts -> {None} \union {i - 1 : i \in DOMAIN batch}] :
            \A e \in Experts : IF e \in local THEN m[e] # None /\ batch[m[e] + 1] = e
                                              ELSE m[e] = None}

\* _hybrid_gather_expert_rows_kernel: a row of the stage for expert e.
Gathered(l, e) ==
    IF hot[l].map[e] >= 0 THEN hot[l].rows[hot[l].map[e] + 1] ELSE rows[l][map[e] + 1]

ApplyStage(l, batch) ==
    /\ out = <<>> /\ mode = "stage" /\ Cached(l) /\ Small(batch) /\ FitsStage(batch)
    /\ \E m \in StageMaps(batch) :
          LET r == [i \in DOMAIN stage.rows |->
                       IF i \in DOMAIN batch /\ batch[i] # None /\ map[batch[i]] >= 0
                       THEN Gathered(l, batch[i]) ELSE stage.rows[i]]
          IN  /\ stage' = [map |-> m, rows |-> r]
              /\ out' = Kernel(batch, m, r)
    /\ ids' = [layer |-> l, experts |-> batch]
    /\ UNCHANGED <<mode, map, rows, hot>>
-----------------------------------------------------------------------------
(* _update_lru_expert_map_kernel.                                          *)

\* Slots that hold an expert of the batch.
Protected(slots, batch) == {s \in DOMAIN slots : slots[s] \in Range(batch)}

\* The slot used longest ago, the first of them; some are left because a batch
\* has no more experts than there are slots.
Victim(c, kept) ==
    LET open == (DOMAIN c.slots) \ kept
        oldest == {s \in open : \A t \in open : c.ages[s] <= c.ages[t]}
    IN  IF open = {} THEN 1 ELSE CHOOSE s \in oldest : \A t \in oldest : s <= t

\* Mutant of Evict: the expert that loses its slot keeps its place in the map.
EvictMutant(m, old, e, slot) == [m EXCEPT ![e] = slot - 1]

Evict(m, old, e, slot) == [m EXCEPT ![old] = None, ![e] = slot - 1]

\* One expert of the batch: a hit, a miss that takes a slot, or neither.  A
\* repeated expert whose miss took a slot is a hit if the store is visible to
\* the load that follows.
Request(c, batch, i, visible) ==
    LET e       == batch[i]
        repeat  == \E k \in 1 .. i - 1 : batch[k] = e
        local   == e # None /\ c.cold[e] >= 0
        isHit   == local /\ c.map[e] >= 0 /\ (visible \/ e \notin c.taken)
        isMiss  == local /\ ~isHit /\ ~repeat
        victim  == Victim(c, c.kept)
        slot    == IF isHit THEN c.map[e] + 1 ELSE victim
    IN  [c EXCEPT
            !.map   = IF isMiss THEN Evict(@, c.slots[victim], e, victim) ELSE @,
            !.slots = IF isMiss THEN [@ EXCEPT ![victim] = e] ELSE @,
            !.ages  = IF isHit \/ isMiss THEN [@ EXCEPT ![slot] = c.clock + i] ELSE @,
            !.kept  = IF isMiss THEN @ \union {victim} ELSE @,
            !.taken = IF isMiss THEN @ \union {e} ELSE @,
            !.misses = Append(@, IF isMiss THEN <<c.cold[e], victim>> ELSE <<None, None>>)]

Updated(c, batch, visible) ==
    LET start == [slots |-> c.slots, map |-> c.map, cold |-> c.cold, ages |-> c.ages,
                  clock |-> c.clock,
                  kept |-> Protected(c.slots, batch), taken |-> {}, misses |-> <<>>]
        after[i \in 0 .. Len(batch)] ==
            IF i = 0 THEN start ELSE Request(after[i - 1], batch, i, visible)
    IN  after[Len(batch)]

\* _gather_lru_expert_rows_kernel: the missed rows are copied to their slots.
Fetched(l, r, misses) ==
    [s \in DOMAIN r |->
        IF \E i \in DOMAIN misses : misses[i][2] = s
        THEN rows[l][misses[CHOOSE i \in DOMAIN misses : misses[i][2] = s][1] + 1]
        ELSE r[s]]

ApplyLru(l, batch) ==
    /\ out = <<>> /\ mode = "lru" /\ Cached(l) /\ Small(batch) /\ FitsLru(l, batch)
    /\ \E visible \in BOOLEAN :
          LET u == Updated(hot[l], batch, visible)
              c == [slots |-> u.slots, rows |-> Fetched(l, hot[l].rows, u.misses),
                    map |-> u.map, cold |-> u.cold, ages |-> u.ages,
                    clock |-> u.clock + Len(batch)]
          IN  /\ hot' = [hot EXCEPT ![l] = c]
              /\ out' = Kernel(batch, c.map, c.rows)
    /\ ids' = [layer |-> l, experts |-> batch]
    /\ UNCHANGED <<mode, map, rows, stage>>
-----------------------------------------------------------------------------
\* The experts of a token differ; a padding token has none.
TokenIds == {s \in [1 .. TopK -> Experts] : IsInjective(s)} \union {[k \in 1 .. TopK |-> None]}
BatchIds ==
    UNION {{[i \in 1 .. n * TopK |-> b[(i - 1) \div TopK + 1][((i - 1) % TopK) + 1]] :
               b \in [1 .. n -> TokenIds]} : n \in Batches}

\* The output of the layer is returned.
Return ==
    /\ out # <<>> /\ out' = <<>> /\ ids' = <<>>
    /\ UNCHANGED <<mode, map, rows, hot, stage>>

Next ==
    \/ \E l \in Layers, batch \in BatchIds :
          \/ ApplyPlain(l, batch) \/ ApplySplit(l, batch)
          \/ ApplyStage(l, batch) \/ ApplyLru(l, batch)
    \/ Return

Spec == Init /\ [][Next]_vars
-----------------------------------------------------------------------------
TypeOK ==
    /\ mode \in Modes /\ map \in [Experts -> -1 .. NumExperts - 1]
    /\ \A l \in Layers :
          /\ hot[l].map \in [Experts -> -1 .. Capacity - 1]
          /\ Len(hot[l].slots) <= Capacity /\ hot[l].clock \in Nat
    /\ DOMAIN stage.rows = 1 .. StageCapacity

\* Every expert of this rank that a token is routed to contributes once, with
\* its own weights, whatever was evicted, gathered, split off or permuted for
\* the batch, and the experts of other ranks do not.
EachExpertOnce ==
    out # <<>> => \A i \in DOMAIN out :
        LET e == ids.experts[i]
        IN  out[i] = IF e # None /\ map[e] >= 0 THEN <<Weights(ids.layer, e)>> ELSE <<>>

\* In a cache that is replaced by use the map and the slots say the same, and
\* the copy in a slot is of the expert the slot names.
SlotsMatchMap ==
    mode = "lru" => \A l \in Layers : LET c == hot[l] IN
        /\ \A e \in Experts : c.map[e] # None => c.slots[c.map[e] + 1] = e
        /\ \A s \in DOMAIN c.slots : /\ c.map[c.slots[s]] = s - 1
                                     /\ c.rows[s] = Weights(l, c.slots[s])

\* Only the order of the ages matters to what the cache does next.
View == <<mode, map, rows, stage, ids, out,
          [l \in Layers |-> <<hot[l].slots, hot[l].map, hot[l].rows, hot[l].cold,
              [s \in DOMAIN hot[l].ages |->
                  Cardinality({t \in DOMAIN hot[l].ages : hot[l].ages[t] < hot[l].ages[s]})]>>]>>
=============================================================================

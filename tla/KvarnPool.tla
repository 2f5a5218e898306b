------------------------------ MODULE KvarnPool ------------------------------
(***************************************************************************)
(* The KVarN cache of one KV-cache group (backends/kvarn_attn.py).         *)
(*                                                                         *)
(* A block of G tokens is stored in one of two places: a full-precision    *)
(* slot of a small pool, while tokens are written to it or it is the first *)
(* block of a request (a sink), or a quantized tile, which is written once *)
(* from the slot (a flush) and cannot be written token by token.  The      *)
(* metadata builder decides before every forward pass which blocks need a  *)
(* slot, which are flushed, and which slots are given up; all it knows of  *)
(* the requests is the lengths and block tables of the batch.              *)
(*                                                                         *)
(* The engine around it is external: it hands out blocks, shares them      *)
(* between requests with the same prefix, takes them back, and decides how *)
(* many tokens each request computes in a step and how many of them are    *)
(* accepted.                                                               *)
(***************************************************************************)
EXTENDS Integers, Sequences, FiniteSets, Functions, SequencesExt

CONSTANTS
    Reqs,               \* requests that may run at a time, max_num_seqs
    Chains,             \* the token sequences they compute
    Blocks,             \* the blocks of the group
    G,                  \* tokens of a block and of a tile
    Budget,             \* max_num_batched_tokens
    Spec,               \* draft tokens a step may verify
    Drafts,             \* passes of the drafter that follow the first
    PoolSlots,          \* slots of the pool
    MaxLen,             \* bound: tokens of a request
    MaxAdmits,          \* bound: requests admitted in all
    HitsUnsettled       \* a prefix hit may name a block that has a slot and
                        \* that this step writes

KvarnAssumption ==
    /\ IsFiniteSet(Blocks) /\ G \in Nat \ {0} /\ Budget \in Nat \ {0}
    /\ Spec \in Nat /\ Drafts \in Nat /\ PoolSlots \in Nat /\ MaxLen \in Nat /\ MaxAdmits \in Nat
    /\ HitsUnsettled \in BOOLEAN /\ IsFiniteSet(Reqs)

\* The key and value of position p of a chain, or of anything else: a rejected
\* draft, rows no one wrote.
Value(c, p) == <<c, p>>
Junk == <<>>
NoChain == <<>>
Contents == [0 .. G - 1 -> {Value(c, p) : c \in Chains, p \in 0 .. MaxLen} \union {Junk}]
Empty == [i \in 0 .. G - 1 |-> Junk]

VARIABLES
    pc,                         \* "schedule", "build", "store", "attend", "exhausted"
    pass,                       \* 0: the pass over the scheduled tokens, then the drafts
    admits,                     \* bound: requests admitted so far
    chain, table, len,          \* the running requests: what they compute, their
                                \* block tables, their accepted tokens
    q, acc,                     \* tokens of this step and how many are accepted
    label,                      \* the prefix cache: chain and index of a block
    held,                       \* blocks with a slot, _block_to_slot_dict
    freeSlots,                  \* how many are left, len(_free_slots)
    sinks, retired,             \* _global_sink_blocks, _retired_sinks (oldest first)
    fill,                       \* _block_fill
    pool, tile                  \* what the slot and the tile of a block hold

engineVars == <<admits, chain, table, len, q, acc, label>>
allocVars  == <<held, freeSlots, sinks, retired, fill>>
dataVars   == <<pool, tile>>
vars == <<pc, pass, engineVars, allocVars, dataVars>>

Running   == {r \in Reqs : table[r] # <<>>}
Scheduled == {r \in Running : q[r] > 0}
BlockAt(r, k) == table[r][k + 1]
FreeBlocks == Blocks \ UNION {Range(table[r]) : r \in Reqs}

\* What the builder is told of a request: seq_lens and the query length.  In a
\* pass of the drafter the accepted tokens and the drafts so far.
SeqLen(r)   == IF pass = 0 THEN len[r] + q[r] ELSE len[r] + acc[r] + pass
QueryLen(r) == IF pass = 0 THEN q[r] ELSE 1
Committed(r) == SeqLen(r) - QueryLen(r)

Init ==
    /\ pc = "schedule" /\ pass = 0
    /\ admits = 0
    /\ chain = [r \in Reqs |-> NoChain]
    /\ table = [r \in Reqs |-> <<>>]
    /\ len = [r \in Reqs |-> 0]
    /\ q = [r \in Reqs |-> 0] /\ acc = [r \in Reqs |-> 0]
    /\ label = [b \in Blocks |-> <<>>]
    /\ held = {} /\ freeSlots = PoolSlots
    /\ sinks = {} /\ retired = <<>>
    /\ fill = [b \in Blocks |-> 0]
    /\ pool = [b \in Blocks |-> Empty] /\ tile = [b \in Blocks |-> Empty]
-----------------------------------------------------------------------------
(* The engine.                                                             *)

\* A running request that is left out of the batch is one whose prefill stopped
\* at the end of a block.
RunningPlaced == \A r \in Running \ Scheduled : len[r] % G = 0

\* The tokens of a batch that has f[r] of each request r.
Total(f) == FoldFunction(+, 0, f)

TokensPlaced == Total(q)

\* Blocks that the pass writes, with how full each is afterwards.
Written(r) == {k \in 0 .. Len(table[r]) - 1 :
                  Committed(r) \div G <= k /\ k <= (SeqLen(r) - 1) \div G}
WrittenBlocks == UNION {{BlockAt(r, k) : k \in Written(r)} : r \in Scheduled}
\* Blocks that this step writes although they have a slot already.
Unsettled == held \cap WrittenBlocks

CacheHits(c, h) ==
    {bs \in [1 .. h -> Blocks] : \A k \in 1 .. h : label[bs[k]] = <<c, k - 1>>}

\* After the running requests a new one is admitted, with a prefix of its
\* blocks from the cache.  At least one of its tokens is left to compute.
Admit(r) ==
    /\ pc = "schedule" /\ r \notin Running /\ admits < MaxAdmits /\ RunningPlaced
    /\ admits' = admits + 1
    /\ \E c \in Chains, h \in 0 .. (MaxLen - Drafts - 1) \div G :
          \E bs \in CacheHits(c, h), first \in FreeBlocks :
              /\ HitsUnsettled \/ Range(bs) \cap Unsettled = {}
              /\ first \notin Range(bs)
              /\ chain' = [chain EXCEPT ![r] = c]
              /\ len'   = [len EXCEPT ![r] = h * G]
              /\ table' = [table EXCEPT ![r] = Append(bs, first)]
              /\ label' = [label EXCEPT ![first] = <<>>]
    /\ UNCHANGED <<pc, pass, q, acc, allocVars, dataVars>>

\* n tokens of a request are scheduled, sure of them accepted whatever the
\* drafts are.  Blocks that are full by then enter the cache at once.
Place(r, n, sure, kept) ==
    LET last == (len[r] + n + Drafts - 1) \div G
        need == last + 1 - Len(table[r])
    IN  /\ pc = "schedule" /\ r \in Running /\ q[r] = 0
        /\ TokensPlaced + n <= Budget /\ len[r] + n + Drafts <= MaxLen
        /\ \E new \in [1 .. (IF need > 0 THEN need ELSE 0) -> FreeBlocks] :
              /\ IsInjective(new)
              /\ LET row == table[r] \o new
                     full(b) == \E k \in 0 .. (len[r] + sure) \div G - 1 : row[k + 1] = b
                 IN  /\ table' = [table EXCEPT ![r] = row]
                     /\ label' = [b \in Blocks |->
                            IF full(b)
                            THEN <<chain[r], (CHOOSE k \in DOMAIN row : row[k] = b) - 1>>
                            ELSE IF b \in Range(new) THEN <<>> ELSE label[b]]
        /\ q' = [q EXCEPT ![r] = n]
        /\ acc' = [acc EXCEPT ![r] = kept]
        /\ UNCHANGED <<pc, pass, admits, chain, len, allocVars, dataVars>>

PlacePrefill(r) == \E n \in 1 .. Budget : Place(r, n, n, n)
PlaceVerify(r)  == \E d \in 1 .. Spec, k \in 0 .. Spec : k <= d /\ Place(r, d + 1, 1, k + 1)

\* A request ends, is aborted or is preempted: its blocks are free, and those
\* that are in the cache stay there until they are taken again.  It happens
\* before the step is put together.
Leave(r) ==
    /\ pc = "schedule" /\ r \in Running /\ Scheduled = {}
    /\ table' = [table EXCEPT ![r] = <<>>]
    /\ len' = [len EXCEPT ![r] = 0]
    /\ chain' = [chain EXCEPT ![r] = NoChain]
    /\ UNCHANGED <<pc, pass, admits, q, acc, label, allocVars, dataVars>>

\* The batch is complete.
Dispatch ==
    /\ pc = "schedule" /\ Scheduled # {}
    /\ RunningPlaced
    /\ pc' = "build"
    /\ UNCHANGED <<pass, engineVars, allocVars, dataVars>>
-----------------------------------------------------------------------------
(* The metadata builder, KVarNMetadataBuilder.build.                       *)

RowsOf(r, k) == IF SeqLen(r) < (k + 1) * G THEN SeqLen(r) - k * G ELSE G

FirstBlocks == {BlockAt(r, 0) : r \in Scheduled}

\* (1) A first block is a sink from the step that writes it.
SinksMarked(written) == sinks \union (FirstBlocks \cap written)

\* Mutant of Needed: a sink does not keep its slot unless it is written.
NeededMutant(written, marked) == written

Needed(written, marked) == written \union (FirstBlocks \cap marked)

\* A retired sink named by this step lives again.  One that was taken for
\* another place than the first of a request is no sink any more.
Relabelled(needed) == {b \in Range(retired) \cap needed : b \notin FirstBlocks}

\* Mutant of FullBefore: drafts that may be rejected count as committed.
FullBeforeMutant(r) == SeqLen(r) \div G

\* Blocks of a request that are complete before this pass.
FullBefore(r) == Committed(r) \div G

\* (2) Backward from there, the blocks that hold a slot and are no sinks.
WalkBack(r, marked) ==
    LET flushable(k) == BlockAt(r, k) \in held \ marked
    IN  {BlockAt(r, k) : k \in {k \in 1 .. FullBefore(r) - 1 :
            \A j \in k .. FullBefore(r) - 1 : flushable(j)}}

Complete(b) == fill[b] >= G

\* Mutant of SlotsGiven: the slots of partial blocks are lost.
SlotsGivenMutant(flush, drop) == Cardinality(flush)

SlotsGiven(flush, drop) == Cardinality(flush) + Cardinality(drop)

\* Mutant of Evicted: retired sinks keep their slots.
EvictedMutant(short, old) == {}

\* (3) When no slot is free the oldest retired sinks are flushed for theirs.
Evicted(short, old) == {old[i] : i \in {i \in DOMAIN old : i <= short}}

\* What is left of a dictionary, in its order, when some keys are removed.
Kept(old, gone) ==
    {s \in SetToSeqs(Range(old) \ gone) : \A i, j \in DOMAIN s : i < j =>
        \E m, n \in DOMAIN old : m < n /\ old[m] = s[i] /\ old[n] = s[j]}

\* _block_fill of a block the pass writes.
FillOf(b) ==
    LET r == CHOOSE r \in Scheduled : \E k \in Written(r) : BlockAt(r, k) = b
    IN  RowsOf(r, CHOOSE k \in Written(r) : BlockAt(r, k) = b)

\* (2b) is about slots of blocks that nothing in the batch writes: a complete
\* sink is retired, any other complete block flushed, the rest given up.
Build ==
    LET written == WrittenBlocks
        marked  == SinksMarked(written)
        needed  == Needed(written, marked)
        current == marked \ Relabelled(needed)
        walked  == IF pass = 0 THEN UNION {WalkBack(r, current) : r \in Scheduled} ELSE {}
        unused  == IF pass = 0 THEN held \ (needed \union walked) ELSE {}
        retire  == {b \in unused : Complete(b) /\ b \in current}
        flush   == walked \union {b \in unused : Complete(b) /\ b \notin current}
        drop    == {b \in unused : ~Complete(b)}
        free    == freeSlots + SlotsGiven(flush, drop)
        fresh   == needed \ (held \ flush)
    IN  /\ pc = "build"
        /\ \E kept \in Kept(retired, needed), newest \in SetToSeqs(retire \ Range(retired)) :
              LET old     == kept \o newest
                  evicted == Evicted(Cardinality(fresh) - free, old)
                  gone    == flush \union drop \union evicted
                  left    == free + Cardinality(evicted) - Cardinality(fresh)
              IN  /\ pc' = IF left < 0 THEN "exhausted" ELSE "store"
                  /\ held' = (held \ gone) \union fresh
                  /\ freeSlots' = left
                  /\ tile' = [b \in Blocks |->
                                IF b \in flush \union evicted THEN pool[b]
                                ELSE IF b \in fresh THEN Empty ELSE tile[b]]
                  /\ pool' = [b \in Blocks |->
                                IF b \in gone \union fresh THEN Empty ELSE pool[b]]
                  /\ sinks' = current \ (drop \union evicted)
                  /\ retired' \in Kept(old, evicted)
                  /\ fill' = [b \in Blocks |-> IF b \in gone THEN 0
                                               ELSE IF b \in written THEN FillOf(b) ELSE fill[b]]
        /\ UNCHANGED <<pass, engineVars>>
-----------------------------------------------------------------------------
(* The forward pass: do_kv_cache_update writes, then attention reads.       *)

\* Positions that the pass writes to row i of block b, with their request.
Writes(b, i) ==
    {w \in Scheduled \X (0 .. MaxLen) :
        /\ w[2] \in Committed(w[1]) .. SeqLen(w[1]) - 1
        /\ BlockAt(w[1], w[2] \div G) = b /\ w[2] % G = i}

Stored(w) == IF w[2] < len[w[1]] + acc[w[1]] THEN Value(chain[w[1]], w[2]) ELSE Junk

\* Only the pool is written.  A token whose block has no slot is dropped.
Store ==
    /\ pc = "store" /\ pc' = "attend"
    /\ LET stored == held \cap WrittenBlocks
       IN  pool' = [b \in Blocks |-> IF b \notin stored THEN pool[b] ELSE [i \in 0 .. G - 1 |->
               IF Writes(b, i) = {} THEN pool[b][i]
               ELSE Stored(CHOOSE w \in Writes(b, i) : TRUE)]]
    /\ UNCHANGED <<pass, engineVars, allocVars, tile>>

\* Every kernel reads a block from its slot if it has one, else from its tile.
Read(b, i) == IF b \in held THEN pool[b][i] ELSE tile[b][i]

\* The next pass of the drafter, over the accepted tokens and the draft tokens
\* so far.  There are none in a group of the target model.
Draft ==
    /\ pc = "attend" /\ pass < Drafts
    /\ pc' = "build" /\ pass' = pass + 1
    /\ UNCHANGED <<engineVars, allocVars, dataVars>>

\* The step ends with the accepted tokens.
Accept ==
    /\ pc = "attend" /\ pc' = "schedule" /\ pass' = 0
    /\ len' = [r \in Reqs |-> len[r] + acc[r]]
    /\ q' = [r \in Reqs |-> 0] /\ acc' = [r \in Reqs |-> 0]
    /\ UNCHANGED <<admits, chain, table, label, allocVars, dataVars>>

Next ==
    \/ \E r \in Reqs : Admit(r) \/ PlacePrefill(r) \/ PlaceVerify(r) \/ Leave(r)
    \/ Dispatch \/ Build \/ Store \/ Draft \/ Accept

KSpec == Init /\ [][Next]_vars
-----------------------------------------------------------------------------
TypeOK ==
    /\ pc \in {"schedule", "build", "store", "attend", "exhausted"} /\ pass \in 0 .. Drafts
    /\ chain \in [Reqs -> Chains \union {NoChain}] /\ table \in [Reqs -> Seq(Blocks)]
    /\ len \in [Reqs -> 0 .. MaxLen] /\ q \in [Reqs -> 0 .. Budget] /\ acc \in [Reqs -> 0 .. Budget]
    /\ label \in [Blocks -> {<<>>} \union (Chains \X (0 .. MaxLen))]
    /\ held \subseteq Blocks /\ freeSlots \in Int
    /\ sinks \subseteq Blocks /\ retired \in Seq(Blocks) /\ fill \in [Blocks -> 0 .. G]
    /\ pool \in [Blocks -> Contents] /\ tile \in [Blocks -> Contents]

\* Attention reads, at every position of a request that is accepted, the key
\* and value of that position of its own tokens, wherever the block is stored:
\* no flush freezes a block too early, no slot is given up that still holds
\* the only copy, and a block found in the cache is whole.
ReadsRight ==
    pc = "attend" =>
        \A r \in Scheduled : \A p \in 0 .. len[r] + acc[r] - 1 :
            Read(BlockAt(r, p \div G), p % G) = Value(chain[r], p)

\* The builder never raises "KVarN pool exhausted": the sinks and tails of a
\* full batch find slots, whatever retired sinks are kept.
PoolNeverExhausted == pc # "exhausted"

\* The first block of a running request that is a sink is in the pool and
\* cannot be evicted under it: it is not among the retired.
LiveSinkKept ==
    pc = "attend" =>
        \A b \in FirstBlocks \cap sinks : b \in held /\ b \notin Range(retired)

\* No slot is lost and none is handed out twice.
SlotsAccounted == freeSlots + Cardinality(held) = PoolSlots

\* What a free block holds that is not in the cache and has no slot is never read again.
Live(b) == b \notin FreeBlocks \/ label[b] # <<>> \/ b \in held
View == <<pc, pass, engineVars, allocVars,
          [b \in Blocks |-> IF Live(b) THEN <<pool[b], tile[b]>> ELSE <<>>]>>
=============================================================================

--------------------------- MODULE KvarnAttention ---------------------------
(***************************************************************************)
(* Which keys a query of the KVarN backend attends (backends/kvarn_attn.py,*)
(* ops/triton_kvarn_decode.py, ops/triton_kvarn_prefill_direct.py).        *)
(*                                                                         *)
(* forward() has one route per shape of the batch and per setting of the   *)
(* environment, and each kernel cuts the context in its own way: in splits *)
(* that are combined afterwards, in slices of a running softmax, in groups *)
(* of requests packed into one scratch buffer.  A kernel is represented by *)
(* the sequence of key sets it sums over for one query; where the key of a *)
(* position is stored is the matter of KvarnPool.                          *)
(***************************************************************************)
EXTENDS Integers, Sequences, FiniteSets, SequencesExt

CONSTANTS
    G,                  \* tokens of a block
    NumSpec,            \* num_speculative_tokens
    Lengths, Queries,   \* bound: cached tokens and query lengths of a request
    MaxReqs,            \* bound: requests of a batch
    ScratchRows,        \* rows of the packed scratch, _fa_K_buf
    Slice,              \* keys of a slice of the streaming softmax
    VerifyQuery, VerifyBlocks,  \* KVARN_FUSED_VERIFY_MAXQ, _MIN_BLOCKS
    Splits              \* splits of a long context, adaptive_num_kv_splits

AttentionAssumption ==
    /\ {G, MaxReqs, ScratchRows, Slice, Splits} \subseteq Nat \ {0}
    /\ NumSpec \in Nat /\ Lengths \subseteq Nat /\ Queries \subseteq Nat \ {0}

\* A request has cached tokens and new ones, which are its queries.
Requests == [cached : Lengths, new : Queries]
Batches == UNION {[1 .. n -> Requests] : n \in 1 .. MaxReqs}

\* The environment: KVARN_FUSED_VERIFY, _FUSED_DECODE, _DIRECT_DECODE,
\* _SHARED_VERIFY, and whether the head size suits FlashAttention.
\* Whether the longest context is worth splitting (at least 16 blocks), and
\* whether few programs would run without.
Settings == [verify : BOOLEAN, fused : BOOLEAN, direct : BOOLEAN, shared : BOOLEAN,
             flash : BOOLEAN, long : BOOLEAN, few : BOOLEAN]

VARIABLES
    batch,      \* the requests of the step, <<>> before it is chosen
    set,        \* the settings
    causal,     \* FALSE for the cross-attention of a drafter
    padded      \* rows a captured graph has beyond the tokens of the batch
vars == <<batch, set, causal, padded>>

\* Queries of at most this length count as decodes; a batch has them first.
Threshold(s) == IF s.verify THEN 1 + NumSpec ELSE 1
DecodesFirst(b, s) ==
    \A i, k \in DOMAIN b : i < k /\ b[k].new <= Threshold(s) => b[i].new <= Threshold(s)

Ceil(n, d) == (n + d - 1) \div d
Smaller(m, n) == IF m <= n THEN m ELSE n
SeqLen(r) == batch[r].cached + batch[r].new
Keys(r, from, to) == {<<r, p>> : p \in from .. to - 1}
-----------------------------------------------------------------------------
(* The plan of the metadata builder.                                       *)

DecodeReqs == {r \in DOMAIN batch : batch[r].new <= Threshold(set)}
NumDecodes == Cardinality(DecodeReqs)
DecodeTokens == UNION {Keys(r, 0, batch[r].new) : r \in DecodeReqs}
MaxQueryLen == CHOOSE n \in Queries : /\ \E r \in DOMAIN batch : batch[r].new = n
                                      /\ \A r \in DOMAIN batch : batch[r].new <= n

\* Decodes of several tokens get one row each, with a causal length.  Mutant of
\* RowLimit: the last token of a query is left out.
RowLimitMutant(r, j) == IF causal THEN batch[r].cached + j ELSE SeqLen(r)

RowLimit(r, j) == IF causal THEN batch[r].cached + j + 1 ELSE SeqLen(r)

\* Rows beyond the batch are zeroed in the pinned buffers.
PaddedLimit == 0

HasRows == Cardinality(DecodeTokens) > NumDecodes

\* The length all decodes share, if it is at least 2 and the mask is causal.
UniformQuery ==
    IF causal /\ \E n \in Queries : n >= 2 /\ \A r \in DecodeReqs : batch[r].new = n
    THEN batch[1].new ELSE 0

HasCachedMultiquery == \E r \in DOMAIN batch : batch[r].new > 1 /\ batch[r].cached > 0

\* Greedy groups of requests that fit the scratch, as pairs <<first, last>>;
\* <<>> if one request is wider than the scratch.  Mutant of Overflows: the
\* request that fills the scratch up is counted only afterwards.
OverflowsMutant(acc, s) == acc > ScratchRows

Overflows(acc, s) == acc + s > ScratchRows

ScratchGroups(reqs) ==
    LET add(g, r) ==
            IF Overflows(g.acc, SeqLen(r))
            THEN [done |-> Append(g.done, <<g.start, r - 1>>), start |-> r, acc |-> SeqLen(r)]
            ELSE [g EXCEPT !.acc = g.acc + SeqLen(r)]
        last == FoldLeft(add, [done |-> <<>>, start |-> Head(reqs), acc |-> 0], reqs)
    IN  IF \E i \in DOMAIN reqs : SeqLen(reqs[i]) > ScratchRows THEN <<>>
        ELSE Append(last.done, <<last.start, Last(reqs)>>)
-----------------------------------------------------------------------------
(* The kernels.  A limit is the number of keys a row may see.              *)

\* The splits of a context differ in their blocks.
BlocksPerSplitMutant(limit, splits) == Ceil(limit, G) \div splits
BlocksPerSplit(limit, splits) == Ceil(Ceil(limit, G), splits)

SplitBlocksOf(limit, splits, s) ==
    LET per == BlocksPerSplit(limit, splits)
    IN  s * per .. Smaller((s + 1) * per, Ceil(limit, G)) - 1

BlockKeys(r, k, limit) == Keys(r, k * G, Smaller((k + 1) * G, limit))

\* _kvarn_fused_decode_kernel: the blocks of a row in one loop.
Single(r, limit) == <<UNION {BlockKeys(r, k, limit) : k \in 0 .. Ceil(limit, G) - 1}>>

\* _kvarn_fused_decode_stage1: a program for each split.
Stage1(r, limit) ==
    [s \in 1 .. Splits |->
        UNION {BlockKeys(r, k, limit) : k \in SplitBlocksOf(limit, Splits, s - 1)}]

\* _kvarn_fused_verify_stage1: the tokens of a request share the splits of its
\* whole length, which is the limit of its last row.
VerifyStage1(r, j, qlen, splits) ==
    LET seq   == RowLimit(r, qlen - 1)
        limit == seq - qlen + j + 1
    IN  [s \in 1 .. splits |->
            UNION {BlockKeys(r, k, seq) : k \in SplitBlocksOf(seq, splits, s - 1)}
                \cap Keys(r, 0, limit)]

\* _kvarn_prefill_direct_kernel has no mask but the length of the sequence.
Direct(r, seq) == <<UNION {BlockKeys(r, k, seq) : k \in 0 .. Ceil(seq, G) - 1}>>

\* _kvarn_build_packed_kv_kernel writes the sequences of a group one after the
\* other; rows that do not exist are not written.
Base(g, r) == FoldLeft(LAMBDA n, x : n + x, 0, [i \in 1 .. r - g[1] |-> SeqLen(g[1] + i - 1)])
PackedRow(g, i) ==
    {key \in UNION {Keys(r, 0, SeqLen(r)) : r \in g[1] .. g[2]} :
        Base(g, key[1]) + key[2] = i /\ i < ScratchRows}

\* flash_attn_varlen over the packed rows, its mask aligned to the last key.
Packed(g, r, j, masked) ==
    LET seen == IF masked THEN SeqLen(r) - batch[r].new + j + 1 ELSE SeqLen(r)
    IN  <<UNION {PackedRow(g, i) : i \in Base(g, r) .. Base(g, r) + seen - 1}>>

\* _sdpa_streaming: slices below the cached length need no mask.
Streaming(r, j) ==
    [s \in 1 .. Ceil(SeqLen(r), Slice) |->
        LET to == Smaller(s * Slice, SeqLen(r))
        IN  {x \in Keys(r, (s - 1) * Slice, to) :
                to > batch[r].cached => x[2] <= batch[r].cached + j}]

\* _prefill_first_chunk sees the keys of this step alone.
FirstChunk(r, j) ==
    <<Keys(r, batch[r].cached, IF causal THEN batch[r].cached + j + 1 ELSE SeqLen(r))>>
-----------------------------------------------------------------------------
(* The routes.                                                             *)

Ascending(reqs) == SetToSortSeq(reqs, <)

\* kvarn_decode_attention.
DecodeDriver(r, reqs) ==
    IF ~set.fused THEN Packed(<<Head(reqs), Last(reqs)>>, r, 0, FALSE)
    ELSE IF set.long /\ set.few THEN Stage1(r, SeqLen(r))
    ELSE Single(r, SeqLen(r))

\* kvarn_verify_attention: rows of a request, alone or together.
VerifyDriver(r, j, qlen) ==
    IF qlen >= 2 /\ set.shared
    THEN VerifyStage1(r, j, qlen, IF set.long /\ set.few THEN Splits ELSE 1)
    ELSE IF set.long THEN Stage1(r, RowLimit(r, j))
    ELSE Single(r, RowLimit(r, j))

\* _fused_verify_path makes the rows itself, always causal.
FusedVerify(r, j) ==
    LET limit == batch[r].cached + j + 1
    IN  IF set.long THEN Stage1(r, limit) ELSE Single(r, limit)

\* _decode_path_slow.
Slow(r, j) == IF batch[r].new = 1 THEN Direct(r, SeqLen(r)) ELSE Streaming(r, j)

\* _cached_multiquery_path for the requests reqs of the batch.
CachedMultiquery(r, j, reqs) ==
    LET groups == ScratchGroups(reqs)
        long   == \E x \in DOMAIN batch : Ceil(SeqLen(x), G) >= VerifyBlocks
    IN  IF set.verify /\ MaxQueryLen <= VerifyQuery /\ long THEN FusedVerify(r, j)
        ELSE IF ~set.flash \/ groups = <<>> THEN Slow(r, j)
        ELSE LET g == CHOOSE g \in Range(groups) : g[1] <= r /\ r <= g[2]
             IN  Packed(g, r, j, causal)

\* _decode_path.
DecodePath(r, reqs) ==
    IF set.direct THEN Direct(r, SeqLen(r)) ELSE DecodeDriver(r, reqs)

\* The prefill part of a batch, _mixed_batch_path or the whole of it.
PrefillPart(r, j, reqs) ==
    IF HasCachedMultiquery THEN CachedMultiquery(r, j, reqs) ELSE FirstChunk(r, j)

\* The decode part.
DecodePart(r, j, reqs) ==
    IF HasRows THEN VerifyDriver(r, j, UniformQuery) ELSE DecodePath(r, reqs)

\* forward(): a batch of decodes, of prefills, or of both.
Attended(r, j) ==
    LET decodes  == Ascending(DecodeReqs)
        prefills == Ascending(DOMAIN batch \ DecodeReqs)
    IN  IF r \in DecodeReqs THEN DecodePart(r, j, decodes) ELSE PrefillPart(r, j, prefills)
-----------------------------------------------------------------------------
Init == batch = <<>> /\ set \in Settings /\ causal = TRUE /\ padded = 0

\* A drafter's batch is made of decodes of one length.  Without the fused
\* kernel a decode batch is packed as a whole and must fit the scratch.
Build ==
    /\ batch = <<>>
    /\ batch' \in Batches /\ DecodesFirst(batch', set)
    /\ causal' \in BOOLEAN /\ padded' \in 0 .. 1 /\ UNCHANGED set
    /\ ~causal' \/ padded' > 0 => \A r \in DOMAIN batch' : batch'[r].new = Threshold(set)
    /\ ~set.fused => FoldLeft(LAMBDA n, x : n + x.cached + x.new, 0, batch') <= ScratchRows

Next == Build

Spec == Init /\ [][Next]_vars

TypeOK ==
    /\ batch \in Batches \union {<<>>} /\ set \in Settings /\ causal \in BOOLEAN
    /\ padded \in 0 .. 1

\* Whatever route a batch takes, each of its queries sums over every key of
\* its own sequence up to itself exactly once: no split, slice or group
\* forgets a key, counts one twice or sees one of another request.  A row
\* that only pads the batch attends nothing.
AttendsOnce ==
    /\ \A r \in DOMAIN batch : \A j \in 0 .. batch[r].new - 1 :
          LET parts == Attended(r, j)
              sees  == IF causal THEN batch[r].cached + j + 1 ELSE SeqLen(r)
          IN  /\ UNION Range(parts) = Keys(r, 0, sees)
              /\ \A s, t \in DOMAIN parts : s # t => parts[s] \cap parts[t] = {}
    /\ padded > 0 => UNION Range(Stage1(1, PaddedLimit)) = {}
=============================================================================

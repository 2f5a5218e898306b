---------------------------- MODULE ExpertWeights ----------------------------
(***************************************************************************)
(* From a quantized checkpoint to the operands of an expert kernel         *)
(* (routed_experts.py, compressed_tensors_moe_wna16.py, auto_gptq.py,      *)
(* oracle/int_wna16.py).                                                   *)
(*                                                                         *)
(* An expert has the matrices w1 and w3, loaded as the two halves of w13,  *)
(* and w2.  A matrix is stored as words of P small integers, with a scale  *)
(* and maybe a zero point for each group of input channels.  The loader    *)
(* cuts every tensor for the rank, create_weights decides the shapes it    *)
(* cuts for, and a conversion for each backend pads, transposes, repacks   *)
(* or dequantizes the result.                                              *)
(*                                                                         *)
(* There is no state: an operator is applied to the configuration c of a   *)
(* layer.  An integer, a scale and a zero point are known by the matrix,   *)
(* the input channel or group and the output channel they belong to.       *)
(***************************************************************************)
EXTENDS Integers, FiniteSets, Sequences, SequencesExt

CONSTANTS
    H, I,           \* hidden_size, intermediate size of all ranks together
    P,              \* pack_factor
    Tile,           \* multiple that a Marlin tile needs of the channels
    NumLogical,     \* experts of the checkpoint
    GroupSizes      \* group sizes of checkpoints

\* kind: the checkpoint, compressed-tensors, GPTQ or AWQ; its layout; refine:
\* VLLM_WNA16_TP_SCALE_REFINE; actorder: activation order by groups; redundant:
\* physical experts that are further copies.
Configs == [kind : {"ct", "gptq", "awq"}, layout : {"separate", "per_expert", "fused"},
            backend : {"marlin", "triton", "humming", "xpu", "emulation", "flashinfer"},
            tp : {1, 2}, ep : BOOLEAN, redundant : {0, 1}, refine : {1, 2}, actorder : BOOLEAN,
            zp : BOOLEAN, gs : GroupSizes]

Ranks(c) == 0 .. c.tp - 1
N(c) == I \div c.tp             \* intermediate_size_per_partition
Range0(n) == [i \in 1 .. n |-> i - 1]

Inputs(s)  == IF s = "w2" THEN I ELSE H
Outputs(s) == IF s = "w2" THEN H ELSE I

\* g_idx: with activation order the groups of a matrix are interleaved.
GroupOf(c, s, k) ==
    IF c.actorder THEN k % (Inputs(s) \div c.gs) ELSE k \div c.gs

\* Without zero points an integer has a fixed bias.
Bias == <<>>

\* What an input channel k of an output channel n is to be multiplied by.
Reference(c, s, k, n) ==
    [int |-> <<s, k, n>>, scale |-> <<s, GroupOf(c, s, k), n>>,
     zero |-> IF c.zp THEN <<s, GroupOf(c, s, k), n>> ELSE Bias]
-----------------------------------------------------------------------------
(* Tensors, as sequences of rows.  (Concatenation with the empty sequence  *)
(* has TLC evaluate a row once.)                                           *)

Built(rows, cols, At(_, _)) ==
    [i \in 1 .. rows |-> [j \in 1 .. cols |-> At(i, j)] \o <<>>] \o <<>>
Matrix(rows, cols, At(_, _)) == Built(rows, cols, LAMBDA i, j : At(i - 1, j - 1))
Transpose(t) == IF t = <<>> THEN t ELSE Built(Len(t[1]), Len(t), LAMBDA i, j : t[j][i])

\* A kernel that is given too few rows reads what is behind them.
Beyond == <<"beyond">>
At2(t, i, j) ==
    IF i + 1 \in DOMAIN t /\ j + 1 \in DOMAIN t[i + 1] THEN t[i + 1][j + 1] ELSE Beyond
Rows(t, from, n) == SubSeq(t, from + 1, from + n)
Cols(t, from, n) == [i \in DOMAIN t |-> SubSeq(t[i], from + 1, from + n)]
Size(t, dim) == IF dim = 0 THEN Len(t) ELSE Len(t[1])
Narrow(t, dim, from, n) == IF dim = 0 THEN Rows(t, from, n) ELSE Cols(t, from, n)
Join(dim, a, b) == IF dim = 0 THEN a \o b ELSE [i \in DOMAIN a |-> a[i] \o b[i]]
RepeatCols(t, n) == [i \in DOMAIN t |-> [j \in 1 .. n * Len(t[i]) |-> t[i][(j - 1) \div n + 1]]]

\* torch.nn.functional.pad: a word, scale or zero point of zeros.
Zeros == <<>>
PadCols(t, n) == [i \in DOMAIN t |-> [j \in 1 .. n |-> IF j <= Len(t[i]) THEN t[i][j] ELSE Zeros]]

\* The column, of eight, that an AWQ word holds at position i, and its inverse.
ColumnAt(i) == IF i < P \div 2 THEN 2 * i ELSE 2 * (i - P \div 2) + 1

\* Mutant of PositionOf: the permutation is applied where its inverse is due.
PositionOfMutant(j) == ColumnAt(j)
PositionOf(j) == CHOOSE i \in 0 .. P - 1 : ColumnAt(i) = j

Word(Of(_)) == [i \in 1 .. P |-> Of(i - 1)]
Inside(word, i) == IF word \in {Zeros, Beyond} THEN word ELSE word[i + 1]
-----------------------------------------------------------------------------
(* The checkpoint (external).  Compressed-tensors has the output channels  *)
(* first and packs input channels, GPTQ the input channels first; AWQ      *)
(* packs output channels.  Zero points are packed along the outputs.       *)

CkptInts(c, s) ==
    LET int(k, n) == <<s, k, n>>
        byInput == Matrix(Inputs(s) \div P, Outputs(s),
                          LAMBDA w, n : Word(LAMBDA i : int(w * P + i, n)))
    IN  IF c.kind = "ct" THEN Transpose(byInput)
        ELSE IF c.kind = "gptq" THEN byInput
        ELSE Matrix(Inputs(s), Outputs(s) \div P,
                    LAMBDA k, w : Word(LAMBDA i : int(k, w * P + ColumnAt(i))))

CkptScales(c, s) ==
    LET t == Matrix(Inputs(s) \div c.gs, Outputs(s), LAMBDA g, n : <<s, g, n>>)
    IN  IF c.kind = "ct" THEN Transpose(t) ELSE t

CkptZeros(c, s) ==
    LET t == Matrix(Inputs(s) \div c.gs, Outputs(s) \div P,
                    LAMBDA g, w : Word(LAMBDA i :
                        <<s, g, w * P + (IF c.kind = "awq" THEN ColumnAt(i) ELSE i)>>))
    IN  IF c.kind = "ct" THEN Transpose(t) ELSE t

CkptGroups(c, s) == Matrix(Inputs(s), 1, LAMBDA k, z : GroupOf(c, s, k))
-----------------------------------------------------------------------------
(* Which configurations come up: __init__, create_weights and the oracle.  *)

\* is_transposed: the parameter has the input channels first.
IsTransposed(c) == c.backend # "flashinfer"

\* Scales are duplicated only where a shard boundary cuts a group.
ScaleRefine(c) == IF c.kind # "ct" \/ N(c) % c.gs = 0 THEN 1 ELSE c.refine
GroupSize(c) == c.gs \div ScaleRefine(c)

\* w2 scales of all ranks, which activation order needs.
LoadFullW2(c) == c.actorder

RefineAccepted(c) ==
    ScaleRefine(c) > 1 => ~c.ep /\ c.tp > 1 /\ ~c.zp /\ c.gs % ScaleRefine(c) = 0

\* Only compressed-tensors refuses groups that the boundary of a shard cuts.
ShapesAccepted(c) ==
    c.kind = "ct" => /\ H % GroupSize(c) = 0
                     /\ LoadFullW2(c) \/ N(c) % GroupSize(c) = 0

\* marlin_moe_padded_intermediate (external).
PaddedN(c) == Tile * ((N(c) + Tile - 1) \div Tile)

\* check_moe_marlin_supports_config (external): whole groups, and whole tiles where
\* the channels may not be padded.
MarlinSupports(c) == N(c) % GroupSize(c) = 0 /\ (c.actorder => PaddedN(c) = N(c))

\* The emulation divides the channels of w2 among the rows of its scales, and the
\* product with them needs a row for each.
EmulationDivides(c) ==
    LET rows == (IF LoadFullW2(c) THEN I ELSE N(c)) \div c.gs
    IN  rows > 0 /\ N(c) % rows = 0

\* _backend_incompatibility_reason, what the two methods assert, and where a
\* conversion raises.
BackendAccepted(c) ==
    /\ c.backend = "flashinfer" => c.kind = "ct" /\ ~c.zp     \* others may have biases
    /\ c.backend = "triton" => c.kind # "awq" /\ ~c.actorder
    /\ c.backend # "marlin" /\ c.kind = "ct" => ~c.actorder /\ ~c.zp
    /\ c.backend = "xpu" => ~c.zp                   \* the kernel's integers are biased
    /\ c.backend = "marlin" => MarlinSupports(c)
    /\ c.backend = "emulation" => EmulationDivides(c)

\* Checkpoints that exist: AWQ has zero points and no activation order, the
\* GPTQ types are symmetric, fused tensors are those of compressed-tensors.  With
\* expert parallelism no matrix is cut.
CheckpointExists(c) ==
    /\ c.kind = "awq" => c.zp /\ ~c.actorder
    /\ c.kind = "gptq" => ~c.zp
    /\ c.layout # "separate" => c.kind = "ct"
    /\ c.ep => c.tp = 1

Accepted(c) ==
    CheckpointExists(c) /\ RefineAccepted(c) /\ ShapesAccepted(c) /\ BackendAccepted(c)
-----------------------------------------------------------------------------
(* The loader, RoutedExperts.                                              *)

Physical(c) == 0 .. NumLogical + c.redundant - 1
Shards == {"w1", "w2", "w3"}
AllExperts == -1

\* The tensors of a checkpoint: "fused", one for all experts; "per_expert", w1
\* and w3 together.
CkptTensors(c) ==
    LET parts == IF c.layout = "separate" THEN Shards ELSE {"w13", "w2"}
    IN  [expert : IF c.layout = "fused" THEN {AllExperts} ELSE 0 .. NumLogical - 1, part : parts]

\* build_expert_params_mapping: what of a tensor's name an entry matches, the
\* shard it is for and an index, which is a physical expert or, in the entries
\* for all experts, the half of w13.
ExpertMapping(c) ==
    {[expert |-> AllExperts, part |-> "w13", shard |-> "w1", index |-> 0],
     [expert |-> AllExperts, part |-> "w13", shard |-> "w3", index |-> 1],
     [expert |-> AllExperts, part |-> "w2",  shard |-> "w2", index |-> 0]}
    \cup
    {[expert |-> p % NumLogical, part |-> e[1], shard |-> e[2], index |-> p] :
        p \in Physical(c), e \in {<<"w13", "w1">>, <<"w13", "w3">>} \cup {<<w, w>> : w \in Shards}}

\* Which half of w13 is taken.  Mutant of HalfOf: the index is taken for it in
\* every entry.
HalfOfMutant(e) == e.index
HalfOf(e) == IF e.expert = AllExperts THEN e.index ELSE IF e.shard = "w1" THEN 0 ELSE 1

\* load_weights: what is written for tensor t, by the entries that match it.
Writes(c, t) ==
    {[into |-> IF t.expert = AllExperts THEN x ELSE e.index, shard |-> e.shard,
      from |-> IF t.expert = AllExperts THEN x ELSE t.expert,
      half |-> IF t.part = "w13" THEN HalfOf(e) ELSE 0] :
        e \in {m \in ExpertMapping(c) : m.expert = t.expert /\ m.part = t.part},
        x \in IF t.expert = AllExperts THEN 0 .. NumLogical - 1 ELSE {0}}

\* The dimension that is cut, of weights, scales and zero points alike.
ShardDim(c, s) == IF IsTransposed(c) = (s = "w2") THEN 0 ELSE 1

\* weight_loader turns compressed-tensors input channels first.
Oriented(c, t) == IF c.kind = "ct" /\ IsTransposed(c) THEN Transpose(t) ELSE t

\* The part of a rank, by the size in the checkpoint.
Part(c, t, dim, rank) ==
    LET per == Size(t, dim) \div c.tp IN Narrow(t, dim, per * rank, per)

\* repeat_interleave of the group dimension, before the part is cut.
Refined(c, s) ==
    IF c.kind = "ct" THEN RepeatCols(CkptScales(c, s), ScaleRefine(c)) ELSE CkptScales(c, s)

Tensor(c, what, s) ==
    CASE what = "ints" -> CkptInts(c, s)
      [] what = "scales" -> Refined(c, s)
      [] what = "zeros" -> CkptZeros(c, s)

\* A fused tensor is split before its halves are loaded.
Chunk(t, i) == Narrow(t, 0, i * (Len(t) \div 2), Len(t) \div 2)
FromCheckpoint(c, what, s) ==
    IF c.layout = "separate" \/ s = "w2" THEN Tensor(c, what, s)
    ELSE Chunk(Join(0, Tensor(c, what, "w1"), Tensor(c, what, "w3")), IF s = "w1" THEN 0 ELSE 1)

LoadW13(c, rank, what) ==
    LET dim == ShardDim(c, "w1")
        half(s) == Part(c, Oriented(c, FromCheckpoint(c, what, s)), dim, rank)
    IN  Join(dim, half("w1"), half("w3"))

LoadW2(c, rank, what, full) ==
    LET t == Oriented(c, FromCheckpoint(c, what, "w2"))
    IN  IF full THEN t ELSE Part(c, t, ShardDim(c, "w2"), rank)

LoadGroupIndex(c, s, rank) ==
    IF s = "w2" THEN Part(c, CkptGroups(c, s), 0, rank) ELSE CkptGroups(c, s)

Loaded(c, rank) ==
    [w13 |-> LoadW13(c, rank, "ints"),
     w2  |-> LoadW2(c, rank, "ints", FALSE),
     s13 |-> LoadW13(c, rank, "scales"),
     s2  |-> LoadW2(c, rank, "scales", LoadFullW2(c)),
     z13 |-> IF c.zp THEN LoadW13(c, rank, "zeros") ELSE <<>>,
     z2  |-> IF c.zp THEN LoadW2(c, rank, "zeros", LoadFullW2(c)) ELSE <<>>,
     g13 |-> LoadGroupIndex(c, "w1", rank),
     g2  |-> LoadGroupIndex(c, "w2", rank)]
-----------------------------------------------------------------------------
(* Conversion.  The result gives, for input channel k and output channel n *)
(* of a matrix, the three operands; w13 has 2 * channels outputs.          *)

\* _pad_w13_shard_cols and _pad_rows.  Mutant: the halves are padded together.
PadHalvesMutant(t, unit, padded) == PadCols(t, 2 * padded)
PadHalves(t, unit, padded) ==
    Join(1, PadCols(Cols(t, 0, unit), padded), PadCols(Cols(t, unit, unit), padded))
PadRows(t, n) ==
    [i \in 1 .. n |-> IF i <= Len(t) THEN t[i] ELSE [j \in DOMAIN t[1] |-> Zeros]]

\* argsort of the group indices, and the rows in that order.
SortIndices(g) == SortSeq(Range0(Len(g)), LAMBDA a, b :
    g[a + 1][1] < g[b + 1][1] \/ (g[a + 1][1] = g[b + 1][1] /\ a < b))
SortedRow(g, k) ==
    LET order == SortIndices(g)
        at == CHOOSE p \in DOMAIN order : order[p] = k
    IN  g[order[at] + 1][1]

\* The kernels that are given the group indices.
UsesOrder(c) == c.actorder /\ c.backend \in {"marlin", "humming"}

\* The row, of so many, that a kernel takes the scale of channel k from.
ScaleRow(c, s, g, rows, k) ==
    IF UsesOrder(c) THEN SortedRow(g, k)
    ELSE IF c.backend = "emulation" THEN k \div ((IF s = "w2" THEN N(c) ELSE H) \div rows)
    ELSE k \div GroupSize(c)

ZeroOf(c, z, row, n) ==
    IF ~c.zp THEN Bias
    ELSE Inside(At2(z, row, n \div P), IF c.kind = "awq" THEN PositionOf(n % P) ELSE n % P)

\* Kernels for input channels packed, inputs first (Marlin after its repack).
InputsFirst(c, w, f, z, row, k, n) ==
    [int |-> Inside(At2(w, k \div P, n), k % P), scale |-> At2(f, row, n),
     zero |-> ZeroOf(c, z, row, n)]

\* Outputs first: Triton, XPU, Humming of compressed-tensors, FlashInfer.
OutputsFirst(c, w, f, row, k, n) ==
    [int |-> Inside(At2(w, n, k \div P), k % P), scale |-> At2(f, n, row), zero |-> Bias]

\* AWQ words, for Marlin and dequantized for the emulation.
OutputsPacked(c, w, f, z, row, k, n) ==
    [int |-> Inside(At2(w, k, n \div P), PositionOf(n % P)), scale |-> At2(f, row, n),
     zero |-> ZeroOf(c, z, row, n)]

\* _process_weights_marlin pads the channels.
MarlinPadded(c, l) ==
    LET n == N(c)  m == PaddedN(c)
    IN  IF m = n THEN l ELSE [l EXCEPT
            !.w13 = PadHalves(@, n, m),  !.w2 = PadRows(@, m \div P),
            !.s13 = PadHalves(@, n, m),  !.s2 = PadRows(@, m \div GroupSize(c)),
            !.z13 = IF c.zp THEN PadHalves(@, n \div P, m \div P) ELSE @,
            !.z2  = IF c.zp THEN PadRows(@, m \div GroupSize(c)) ELSE @]

\* _process_awq_weights_marlin pads along the words.
AwqPadded(c, l) ==
    LET n == N(c)  m == PaddedN(c)
    IN  IF m = n THEN l ELSE [l EXCEPT
            !.w13 = PadHalves(@, n \div P, m \div P), !.w2 = PadRows(@, m),
            !.s13 = PadHalves(@, n, m), !.z13 = PadHalves(@, n \div P, m \div P),
            !.s2 = PadRows(@, m \div GroupSize(c)), !.z2 = PadRows(@, m \div GroupSize(c))]

\* The kernels that read the output channels first.
OutputsAreFirst(c) ==
    \/ c.backend \in {"triton", "xpu", "flashinfer"}
    \/ c.backend = "humming" /\ c.kind = "ct"

\* _process_weights_xpu, the Triton branch and the Humming adapter turn weights
\* and scales; FlashInfer's were loaded that way.
Turned(c, l) ==
    IF c.backend = "flashinfer" THEN l
    ELSE [l EXCEPT !.w13 = Transpose(@), !.w2 = Transpose(@),
                   !.s13 = Transpose(@), !.s2 = Transpose(@)]

\* convert_to_wna16_moe_kernel_format.
Converted(c, l) ==
    IF c.backend = "marlin" THEN IF c.kind = "awq" THEN AwqPadded(c, l) ELSE MarlinPadded(c, l)
    ELSE IF OutputsAreFirst(c) THEN Turned(c, l)
    ELSE l

Operands(c, t, s, k, n) ==
    LET w == IF s = "w2" THEN t.w2 ELSE t.w13
        f == IF s = "w2" THEN t.s2 ELSE t.s13
        z == IF s = "w2" THEN t.z2 ELSE t.z13
        g == IF s = "w2" THEN t.g2 ELSE t.g13
        row == ScaleRow(c, s, g, Len(f), k)
    IN  IF c.kind = "awq" THEN OutputsPacked(c, w, f, z, row, k, n)
        ELSE IF OutputsAreFirst(c) THEN OutputsFirst(c, w, f, row, k, n)
        ELSE InputsFirst(c, w, f, z, row, k, n)
-----------------------------------------------------------------------------
ChannelsOf(c) == IF c.backend = "marlin" THEN PaddedN(c) ELSE N(c)

\* An operand is the one the checkpoint has, or its channel only pads.
Matches(c, operand, s, k, n, pads) ==
    IF pads THEN operand.scale = Zeros ELSE operand = Reference(c, s, k, n)

RankRight(c, t, start) ==
    /\ \A i \in 0 .. ChannelsOf(c) - 1, k \in 0 .. H - 1, s \in {"w1", "w3"} :
          Matches(c, Operands(c, t, s, k, IF s = "w3" THEN ChannelsOf(c) + i ELSE i),
                  s, k, start + i, i >= N(c))
    /\ \A i \in 0 .. N(c) - 1, h \in 0 .. H - 1 :
          Matches(c, Operands(c, t, "w2", i, h), "w2", start + i, h, FALSE)

\* Two defects.  XPU and the emulation accept activation order and ignore the
\* group indices, and the indices still count the groups of the checkpoint where
\* each of its scales has been duplicated: with more groups than one, channels get
\* another group's scale.
OrderLost(c) ==
    /\ c.actorder /\ (~UsesOrder(c) \/ ScaleRefine(c) > 1)
    /\ \E s \in {"w1", "w2"} : Inputs(s) > c.gs

\* GPTQ and AWQ shapes are accepted where the boundary of a rank cuts a group, and
\* the scale that two ranks need is loaded by one of them or none.
GroupsCut(c) == c.kind # "ct" /\ ~LoadFullW2(c) /\ N(c) % c.gs # 0

\* In every configuration that comes up but those of the two defects, and in none
\* of theirs, each channel of a rank is computed with the integers, scales and zero
\* points the checkpoint has for it: the ranks' channels are those of the layer in
\* order, and a channel that only pads is multiplied by zero.
RightOperands(c) ==
    (\A rank \in Ranks(c) : RankRight(c, Converted(c, Loaded(c, rank)), rank * N(c)))
        <=> ~(OrderLost(c) \/ GroupsCut(c))

\* Every physical expert gets each of its matrices once, from the expert of the
\* checkpoint it is a copy of, and w1 and w3 are not confused: load_weights with
\* build_expert_params_mapping.  But a fused tensor fills the logical experts only:
\* the redundant copies keep what they were allocated with.
EveryPartLoaded(c) ==
    \A p \in Physical(c), s \in Shards :
        LET written == UNION {{[t |-> t, w |-> w] : w \in Writes(c, t)} : t \in CkptTensors(c)}
            here == {x \in written : x.w.into = p /\ x.w.shard = s}
        IN  /\ Cardinality(here) = IF c.layout = "fused" /\ p >= NumLogical THEN 0 ELSE 1
            /\ \A x \in here : /\ x.w.from = p % NumLogical
                               /\ x.t.part = "w13" => x.w.half = IF s = "w1" THEN 0 ELSE 1
=============================================================================

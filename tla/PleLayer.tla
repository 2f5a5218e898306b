------------------------------ MODULE PleLayer ------------------------------
(***************************************************************************)
(* The PLE layer of Qwen3.8-Flash-Next (ple_layer.py) and the metadata of  *)
(* its short convolution (short_conv_attn.py): which tokens the n-gram     *)
(* embedding hashes and which inputs the dilated convolution reads for a   *)
(* token, whatever batch the token arrives in.                             *)
(***************************************************************************)
EXTENDS ConvSlots

CONSTANTS
    NgramSize,
    EosAt       \* positions of end-of-sequence tokens

PleLayerAssumption == SlotsAssumption /\ NgramSize \in Nat \ {0, 1} /\ EosAt \subseteq Nat

vars == slotVars
Eos  == <<0, 0>>
-----------------------------------------------------------------------------
(* The metadata of the convolution.                                        *)

\* Requests are grouped by the mask and their length, not by their position.
Group(row) == IF IsSpec(row) THEN "spec" ELSE IF row.q = 1 THEN "decode" ELSE "prefill"
RowsIn(b, g) == SelectSeq([i \in DOMAIN b |-> i], LAMBDA i : Group(b[i]) = g)

\* token_perm: the tokens of a group, in their order in the batch.
TokensIn(b, g) ==
    LET starts == Starts(Queries(b))
    IN  SelectSeq([t \in 1 .. starts[Len(b) + 1] |-> t],
                  LAMBDA t : Group(b[RequestAt(starts, t - 1)]) = g)

\* build with a mask.
MaskedMetadata(b, pads) ==
    LET spec == RowsIn(b, "spec")
        rest == RowsIn(b, "decode") \o RowsIn(b, "prefill")
    IN  [masked       |-> TRUE,
         specSlots    |-> [i \in DOMAIN spec |-> b[spec[i]].req] \o Times(pads, 0),
         specStarts   |-> Starts([i \in DOMAIN spec |-> b[spec[i]].q] \o Times(pads, 0)),
         accepted     |-> [i \in DOMAIN spec |-> accepted[b[spec[i]].req]] \o Times(pads, 1),
         specTokens   |-> TokensIn(b, "spec"),
         slots        |-> [i \in DOMAIN rest |-> b[rest[i]].req],
         starts       |-> Starts([i \in DOMAIN rest |-> b[rest[i]].q]),
         initial      |-> [i \in DOMAIN rest |-> computed[b[rest[i]].req] > 0],
         decodes      |-> Len(RowsIn(b, "decode")),
         otherTokens  |-> TokensIn(b, "decode") \o TokensIn(b, "prefill")]

\* _build_non_spec_metadata.  The batch is split where its first longer query is
\* (split_decodes_and_prefills); padded rows are decodes.
LeadingDecodes(b) == Cardinality({i \in DOMAIN b : \A j \in 1 .. i : b[j].q = 1})
PlainMetadata(b, pads) ==
    [masked       |-> FALSE,
     specSlots    |-> <<>>, specStarts |-> <<0>>, accepted |-> <<>>, specTokens |-> <<>>,
     slots        |-> [i \in DOMAIN b |-> b[i].req] \o Times(pads, 0),
     starts       |-> Starts(Queries(b) \o Times(pads, 0)),
     initial      |-> [i \in DOMAIN b |-> computed[b[i].req] > 0] \o Times(pads, FALSE),
     decodes      |-> LeadingDecodes(b) + pads,
     otherTokens  |-> [t \in 1 .. Len(Tokens(b)) + pads |-> t]]

Metadata(b, pads) == IF Masked(b) THEN MaskedMetadata(b, pads) ELSE PlainMetadata(b, pads)

\* _short_conv_dilated_dispatch
Dispatch(m, x) ==
    LET spec == IF ~m.masked THEN [out |-> <<>>, state |-> conv]
                ELSE SpecBatched(conv, m, IF m.slots = <<>> THEN x ELSE Picked(x, m.specTokens))
        rest == Picked(x, m.otherTokens)
        decode == DecodeBatched(spec.state, m, SubSeq(rest, 1, m.decodes))
        prefill == IF Len(m.slots) = m.decodes THEN [out |-> <<>>, state |-> decode.state]
                   ELSE PrefillBatched(decode.state, m, SubSeq(rest, m.decodes + 1, Len(rest)))
    IN  IF m.slots = <<>> THEN spec
        ELSE [out   |-> Merged(Len(x), m.specTokens, spec.out, m.otherTokens,
                               decode.out \o prefill.out),
              state |-> prefill.state]

\* qwen3_8_flash_next_ple_short_conv
ShortConv(b, pads) ==
    LET m == Metadata(b, pads)
        x == Tokens(b) \o Times(pads * (numSpec + 1), Stale)
    IN  IF ~m.masked /\ m.decodes = 0 /\ Len(m.slots) = 1 THEN SinglePrefill(conv, m, x)
        ELSE Dispatch(m, x)
-----------------------------------------------------------------------------
(* The n-gram embedding.                                                   *)

Token(v) == IF v # Stale /\ Larger(v[2], 0 - v[2]) - 1 \in EosAt THEN Eos ELSE v

\* _prepare_ngram_context: the tokens before the first one of the step.
Context(r) ==
    [c \in 1 .. NgramSize - 1 |->
        LET at == computed[r] - NgramSize + c
        IN  IF at >= 0 THEN Token(<<r, at + 1>>) ELSE Eos]

\* The scatter of forward_impl: of two tokens in a place the later one stays.
Scattered(x, starts, width, valid) ==
    LET num == Len(starts) - 1
        row(t) == Smaller(RequestAt(starts, t - 1), num)
        col(t) == 1 + Smaller(Larger(t - 1 - starts[row(t)], 0), width - 1)
    IN  [i \in 1 .. num |-> [c \in 1 .. width |->
            LET here == {t \in 1 .. valid : row(t) = i /\ col(t) = c}
            IN  IF here = {} THEN Eos
                ELSE Token(x[CHOOSE t \in here : \A u \in here : u <= t])]]

\* _shift_precompute, _shift_apply
PositionInSegment(line, at) ==
    at - 1 - (CHOOSE e \in 0 .. at - 1 :
                 /\ e > 0 => line[e] = Eos
                 /\ \A later \in e + 1 .. at - 1 : line[later] # Eos)
Shifted(line, at, shift) ==
    IF shift = 0 \/ (at - shift >= 1 /\ PositionInSegment(line, at) >= shift)
    THEN line[at - shift] ELSE Eos

\* forward_impl: what is hashed for the tokens of a batch.  On the GPU a line is as wide as
\* any batch; the offload process gets the padded tokens, the offsets of the real requests
\* and lines as wide as the longest query.
Ngrams(b, pads, extra, offloaded) ==
    LET x == Tokens(b) \o Times(pads * (numSpec + 1) + extra, Stale)
        starts == Starts(Queries(b) \o Times(IF offloaded THEN 0 ELSE pads, 0))
        longest == CHOOSE q \in {b[i].q : i \in DOMAIN b} : \A i \in DOMAIN b : b[i].q <= q
        width == IF offloaded THEN longest ELSE Len(x)
        valid == IF offloaded THEN starts[Len(starts)] ELSE Len(x)
        packed == Scattered(x, starts, width, valid)
        lines == [i \in DOMAIN packed |->
            (IF i <= Len(b) THEN Context(b[i].req) ELSE Times(NgramSize - 1, Eos)) \o packed[i]]
        row(t) == Smaller(RequestAt(starts, t - 1), Len(starts) - 1)
        col(t) == Smaller(t - 1 - starts[row(t)], width - 1)
    IN  [t \in DOMAIN x |-> [s \in 0 .. NgramSize - 1 |->
            Shifted(lines[row(t)], col(t) + NgramSize, s)]]
-----------------------------------------------------------------------------
Init == SlotsInit

Forward ==
    /\ batch # <<>>
    /\ conv' = ShortConv(batch.rows, batch.pads).state
    /\ Advance

Next == Schedule \/ Forward \/ \E r \in Requests : Restart(r)
Spec == Init /\ [][Next]_vars
-----------------------------------------------------------------------------
TypeOK == SlotsTypeOK

\* What is hashed: the tokens before it, up to the last end of a sequence.
Hashed(row, k, n) ==
    IF \E e \in 1 .. n : Token(Before(row, k, e)) = Eos THEN Eos ELSE Token(Before(row, k, n))

\* Whatever batch a token arrives in - a chunk of a prompt, a decode, a draft after a step
\* whose drafts were rejected, a padded graph, a slot somebody else left - the convolution
\* reads the inputs at its taps before it and the embedding hashes the tokens before it
\* (on the GPU and in the offload process); padding leaves the null block alone.
RowsRight ==
    batch # <<>> =>
        LET b == batch.rows
            starts == Starts(Queries(b))
            short == ShortConv(b, batch.pads)
        IN  /\ \A i \in DOMAIN b : \A k \in 1 .. b[i].q :
                   short.out[starts[i] + k] = [t \in Taps |-> Before(b[i], k, t)]
            /\ short.state[0] = conv[0]
            /\ \A extra \in 0 .. 1 - batch.pads, offloaded \in BOOLEAN :
                   LET hashed == Ngrams(b, batch.pads, extra, offloaded)
                   IN  \A i \in DOMAIN b : \A k \in 1 .. b[i].q :
                           hashed[starts[i] + k] =
                               [s \in 0 .. NgramSize - 1 |-> Hashed(b[i], k, s)]
=============================================================================

------------------------------ MODULE GatedDelta -----------------------------
(***************************************************************************)
(* The linear attention (gated delta net) of qwen_gdn_linear_attn.py: how  *)
(* the tokens of a batch get to the convolution and the recurrence, and    *)
(* which state each kernel starts from and leaves.  A recurrent state is   *)
(* the sequence of what it has absorbed; a request has one for every token *)
(* of a step with drafts.  The kernels and the metadata are of upstream.   *)
(***************************************************************************)
EXTENDS ConvSlots

GatedDeltaAssumption == SlotsAssumption /\ Dilation = 1

VARIABLE ssm    \* slot -> draft -> recurrent state
vars == <<slotVars, ssm>>

\* What the deployment selects: the fused decode kernel (VLLM_GDN_DECODE_KERNEL), whether
\* it takes the heads and the number of drafts of the model, and
\* VLLM_ENABLE_FLA_PACKED_RECURRENT_DECODE.
Settings == {s \in [fused : BOOLEAN, mtp : BOOLEAN, packed : BOOLEAN] : s.mtp => s.fused}
-----------------------------------------------------------------------------
(* GDNAttentionMetadata.  Beside drafts all other rows are prefills;       *)
(* without drafts the rows before the first chunk of a prompt are decodes. *)

Metadata(b, pads) ==
    LET masked == Masked(b)
        rows(spec) == SelectSeq([i \in DOMAIN b |-> i], LAMBDA i : (masked /\ IsSpec(b[i])) = spec)
        starts == Starts(Queries(b))
        tokens(spec) == SelectSeq([t \in 1 .. starts[Len(b) + 1] |-> t],
            LAMBDA t : (masked /\ IsSpec(b[RequestAt(starts, t - 1)])) = spec)
        spec == rows(TRUE)
        rest == rows(FALSE)
        specPads == IF masked THEN pads ELSE 0
        restPads == pads - specPads
        decode(i) == b[i].q = 1 /\ computed[b[i].req] >= Prompt
        leading == Cardinality({i \in DOMAIN b : \A j \in 1 .. i : decode(j)})
    IN  [masked      |-> masked,
         specSlots   |-> [i \in DOMAIN spec |-> b[spec[i]].req] \o Times(specPads, 0),
         specStarts  |-> Starts([i \in DOMAIN spec |-> b[spec[i]].q] \o Times(specPads, 0)),
         accepted    |-> [i \in DOMAIN spec |-> accepted[b[spec[i]].req]] \o Times(specPads, 1),
         specTokens  |-> tokens(TRUE),
         slots       |-> [i \in DOMAIN rest |-> b[rest[i]].req] \o Times(restPads, 0),
         starts      |-> Starts([i \in DOMAIN rest |-> b[rest[i]].q] \o Times(restPads, 1)),
         initial     |-> [i \in DOMAIN rest |-> computed[b[rest[i]].req] > 0]
                             \o Times(restPads, FALSE),
         otherTokens |-> tokens(FALSE),
         decodes     |-> IF masked THEN 0 ELSE leading + pads,
         prefills    |-> IF masked THEN Len(rest) ELSE Len(b) - leading,
         actual      |-> starts[Len(b) + 1] + pads * (numSpec + 1)]
-----------------------------------------------------------------------------
(* The kernels.  They are fed the output of the convolution at a token     *)
(* with the gates of one.                                                  *)

Fed(reads, gates) == [t \in DOMAIN reads |-> <<reads[t], gates[t]>>]

\* fused_sigmoid_gating_delta_rule_update with inplace_final_state: it starts from the state
\* of the last accepted token and leaves one for every token of the step.
Recurrent(state, slots, starts, from, x) ==
    LET absorbed(i, k) ==
            (IF slots[i] = 0 THEN <<>> ELSE state[slots[i]][from[i] - 1])
                \o SubSeq(x, starts[i] + 1, starts[i] + k)
        row(t) == RequestAt(starts, t - 1)
    IN  [out   |-> [t \in DOMAIN x |->
                       IF row(t) > Len(slots) THEN <<>> ELSE absorbed(row(t), t - starts[row(t)])],
         state |-> [s \in DOMAIN state |-> [k \in 0 .. numSpec |->
                       LET here == {i \in DOMAIN slots : slots[i] = s /\ starts[i] + k < starts[i + 1]}
                       IN  IF s = 0 \/ here = {} THEN state[s][k]
                           ELSE absorbed(CHOOSE i \in here : TRUE, k + 1)]]]

\* chunk_gated_delta_rule, with the gather before it and the scatter after it.
Chunked(state, slots, starts, initial, x) ==
    LET absorbed(i, k) ==
            (IF initial[i] THEN state[slots[i]][0] ELSE <<>>)
                \o SubSeq(x, starts[i] + 1, starts[i] + k)
        row(t) == RequestAt(starts, t - 1)
    IN  [out   |-> [t \in DOMAIN x |-> absorbed(row(t), t - starts[row(t)])],
         state |-> [s \in DOMAIN state |->
                       IF \E i \in DOMAIN slots : slots[i] = s
                       THEN LET i == CHOOSE i \in DOMAIN slots : slots[i] = s
                            IN  [state[s] EXCEPT ![0] = absorbed(i, starts[i + 1] - starts[i])]
                       ELSE state[s]]]
-----------------------------------------------------------------------------
(* _forward_core                                                           *)

\* Decodes of a batch without drafts are peeled off its prefills.
SplitNonSpec(m) == ~m.masked /\ m.prefills > 0 /\ m.decodes > 0

\* a_prefill, b_prefill.  Mutant: the decodes are peeled off the convolution's output only.
PrefillGatesMutant(m, gates) == IF m.masked THEN Picked(gates, m.otherTokens) ELSE gates
PrefillGates(m, gates) ==
    IF m.masked THEN Picked(gates, m.otherTokens)
    ELSE IF SplitNonSpec(m) THEN SubSeq(gates, m.decodes + 1, Len(gates))
    ELSE gates

\* The multi-query part of the convolution.
ConvSpec(m, x) ==
    IF ~m.masked THEN [out |-> <<>>, state |-> conv]
    ELSE SpecBatched(conv, m, IF m.prefills + m.decodes = 0 THEN x ELSE Picked(x, m.specTokens))

\* Its remaining part.
ConvRest(m, state, x) ==
    LET rest == IF m.masked THEN Picked(x, m.otherTokens) ELSE x
    IN  IF m.prefills > 0 THEN PrefillBatched(state, [m EXCEPT !.decodes = 0], rest)
        ELSE IF m.decodes > 0
        THEN DecodeBatched(state, [m EXCEPT !.initial = [i \in DOMAIN m.slots |-> TRUE]], rest)
        ELSE [out |-> <<>>, state |-> state]

\* The recurrence of the rows with drafts.
RecurrentSpec(m, reads, gates) ==
    IF ~m.masked THEN [out |-> <<>>, state |-> ssm]
    ELSE Recurrent(ssm, m.specSlots, m.specStarts, m.accepted,
             Fed(reads, IF m.prefills + m.decodes = 0 THEN gates ELSE Picked(gates, m.specTokens)))

\* The recurrence of the others: the peeled decodes first.
RecurrentRest(m, state, reads, gates) ==
    LET peeled == IF SplitNonSpec(m) THEN m.decodes ELSE 0
        first == Recurrent(state, SubSeq(m.slots, 1, peeled), SubSeq(m.starts, 1, peeled + 1),
                           Times(peeled, 1),
                           Fed(SubSeq(reads, 1, peeled), SubSeq(gates, 1, peeled)))
        starts == [i \in 1 .. Len(m.slots) - peeled + 1 |->
                      m.starts[peeled + i] - m.starts[peeled + 1]]
        chunks == Chunked(first.state, SubSeq(m.slots, peeled + 1, Len(m.slots)), starts,
                          SubSeq(m.initial, peeled + 1, Len(m.slots)),
                          Fed(SubSeq(reads, peeled + 1, Len(reads)), PrefillGates(m, gates)))
    IN  IF m.prefills > 0 THEN [out |-> first.out \o chunks.out, state |-> chunks.state]
        ELSE IF m.decodes > 0
        THEN Recurrent(state, m.slots, m.starts, Times(m.decodes, 1), Fed(reads, gates))
        ELSE [out |-> <<>>, state |-> state]

\* _forward_core_decode_non_spec: every token is a request of its own.
DecodeNonSpec(m, x, gates) ==
    LET reads == DecodeBatched(conv, [m EXCEPT !.initial = [i \in DOMAIN m.slots |-> TRUE]], x)
        states == Recurrent(ssm, m.slots, [i \in 1 .. Len(x) + 1 |-> i - 1], Times(Len(x), 1),
                            Fed(reads.out, gates))
    IN  [out |-> states.out, conv |-> reads.state, ssm |-> states.state]

ForwardCore(m, x, gates, packed) ==
    LET spec == ConvSpec(m, x)
        rest == ConvRest(m, spec.state, x)
        specStates == RecurrentSpec(m, spec.out, gates)
        states == RecurrentRest(m, specStates.state, rest.out, gates)
    IN  IF packed /\ ~m.masked /\ m.prefills = 0 /\ m.decodes > 0 THEN DecodeNonSpec(m, x, gates)
        ELSE [out  |-> IF ~m.masked THEN states.out
                       ELSE IF states.out = <<>> THEN specStates.out
                       ELSE Merged(Len(x), m.specTokens, specStates.out, m.otherTokens, states.out),
              conv |-> rest.state,
              ssm  |-> states.state]
-----------------------------------------------------------------------------
(* The layer: the core, and the norm gated by z.                           *)

Normed(out, z) == [t \in DOMAIN out |-> <<out[t], z[t]>>]

CanUseFusedMtp(m, mtp) == m.masked /\ m.decodes = 0 /\ Len(m.specSlots) > 0 /\ mtp

\* _forward_core_decode_spec_fused_norm: the kernel norms what it computes.
DecodeSpecFusedNorm(m, x) ==
    LET reads == SpecBatched(conv, m, x)
        states == Recurrent(ssm, m.specSlots, m.specStarts, m.accepted, Fed(reads.out, x))
    IN  [out |-> Normed(states.out, x), conv |-> reads.state, ssm |-> states.state]

\* What the core computes, normed.
WithNorm(core, z) == [core EXCEPT !.out = Normed(core.out, z)]

\* _forward_core_fused_norm
FusedNorm(m, x, s) ==
    IF CanUseFusedMtp(m, s.mtp) /\ m.prefills = 0 THEN DecodeSpecFusedNorm(m, x)
    ELSE WithNorm(ForwardCore(m, x, x, s.packed), x)

\* The layer, for the metadata and the hidden states of a batch.
Layer(m, x, s) ==
    IF s.fused THEN FusedNorm(m, x, s) ELSE WithNorm(ForwardCore(m, x, x, s.packed), x)

\* forward_cuda.  The inputs, gates and z of a token are those of its hidden state; the
\* hidden states may be padded beyond the tokens of the metadata.
ForwardCuda(b, pads, s) ==
    LET m == Metadata(b, pads)
    IN  Layer(m, SubSeq(Tokens(b) \o Times(pads * (numSpec + 1) + 1, Stale), 1, m.actual), s)
-----------------------------------------------------------------------------
StaleState == [k \in 0 .. numSpec |-> <<<<[t \in Taps |-> Stale], Stale>>>>]

Init == SlotsInit /\ ssm = [s \in 0 .. NumReqs |-> StaleState]

Forward ==
    /\ batch # <<>>
    /\ \E s \in Settings :
          LET layer == ForwardCuda(batch.rows, batch.pads, s)
          IN  conv' = layer.conv /\ ssm' = layer.ssm
    /\ Advance

Next ==
    \/ Schedule /\ UNCHANGED ssm
    \/ Forward
    \/ \E r \in Requests : Restart(r) /\ ssm' = [ssm EXCEPT ![r] = StaleState]
Spec == Init /\ [][Next]_vars
-----------------------------------------------------------------------------
TypeOK ==
    /\ SlotsTypeOK
    /\ \A s \in 0 .. NumReqs : DOMAIN ssm[s] = 0 .. numSpec

\* All tokens up to one, each with the window the convolution reads at it.
Absorbed(row, k) ==
    [n \in 1 .. computed[row.req] + k |->
        LET at == n - computed[row.req]
        IN  <<[t \in Taps |-> Before(row, at, t)], Before(row, at, 0)>>]

\* Whatever batch a token arrives in and whichever kernels the deployment selects, its
\* output is computed from exactly the tokens of its request up to it, in order and each
\* with its own gates - none of a rejected draft, of another request or of the one that had
\* the slot before - and is normed once with its own z; padding leaves the null block alone.
StatesRight ==
    batch # <<>> =>
        LET b == batch.rows
            starts == Starts(Queries(b))
        IN  \A s \in Settings :
                LET layer == ForwardCuda(b, batch.pads, s)
                IN  /\ \A i \in DOMAIN b : \A k \in 1 .. b[i].q :
                           layer.out[starts[i] + k] = <<Absorbed(b[i], k), Inputs(b[i])[k]>>
                    /\ layer.ssm[0] = ssm[0] /\ layer.conv[0] = conv[0]
=============================================================================

------------------------------ MODULE ConvSlots ------------------------------
(***************************************************************************)
(* Convolutions with a state (the short convolution of ple_layer.py and    *)
(* that of the linear attention layers), and the batches they run on.      *)
(*                                                                         *)
(* A slot keeps the last inputs of a request.  After a step with drafts it *)
(* holds every candidate, and the next step starts from the window that    *)
(* ends at the last accepted one.  The input at position p of request r is *)
(* <<r, p + 1>>, a draft that will be rejected <<r, -(p + 1)>>.            *)
(***************************************************************************)
EXTENDS Integers, Sequences, FiniteSets, SequencesExt

CONSTANTS
    NumReqs,    \* requests; the slot of request r is r, slot 0 is the null block
    Kernel, Dilation,
    NumSpecs,   \* num_spec_tokens
    Prompt,
    MaxLen,     \* bound: positions of a request
    MaxNumSeqs, CaptureSize     \* max_cudagraph_capture_size

SlotsAssumption ==
    /\ {NumReqs, Dilation, Prompt, MaxLen, MaxNumSeqs, CaptureSize} \subseteq Nat \ {0}
    /\ Kernel \in Nat \ {0, 1} /\ NumSpecs \subseteq Nat

VARIABLES
    numSpec,    \* of this deployment
    computed,   \* num_computed_tokens of a request
    accepted,   \* num_accepted_tokens of its last step
    conv,       \* the slots: columns of inputs
    batch       \* the step to run, <<>> for none
slotVars == <<numSpec, computed, accepted, conv, batch>>

Requests == 1 .. NumReqs
Zero  == <<0, 0>>
Stale == <<0, 1>>   \* of another sequence, or of a padded row
Smaller(m, n) == IF m <= n THEN m ELSE n
Larger(m, n) == IF m <= n THEN n ELSE m

\* conv_state_len, and get_state_shape: the columns of a slot.
StateLen == (Kernel - 1) * Dilation
Columns == 0 .. StateLen + numSpec - 1
Taps == {k * Dilation : k \in 0 .. Kernel - 1}
-----------------------------------------------------------------------------
(* A batch.  A row has the number of its tokens, of its drafts (-1 for a   *)
(* prefill or a plain decode) and of the tokens that will be accepted.     *)

Inputs(row) ==
    [k \in 1 .. row.q |->
        LET at == computed[row.req] + k IN <<row.req, IF k > row.acc THEN 0 - at ELSE at>>]
Tokens(b) == FlattenSeq([i \in DOMAIN b |-> Inputs(b[i])])
Times(n, v) == [k \in 1 .. n |-> v]

\* query_start_loc of queries qs
Starts(qs) ==
    LET at[i \in 1 .. Len(qs) + 1] == IF i = 1 THEN 0 ELSE at[i - 1] + qs[i - 1]
    IN  [i \in 1 .. Len(qs) + 1 |-> at[i]]
Queries(b) == [i \in DOMAIN b |-> b[i].q]

\* searchsorted: the request a token at a position belongs to.
RequestAt(starts, position) ==
    1 + Cardinality({i \in 2 .. Len(starts) : starts[i] <= position})

IsSpec(row) == row.drafts >= 0
Masked(b) == numSpec > 0 /\ \E i \in DOMAIN b : IsSpec(b[i])
-----------------------------------------------------------------------------
(* The convolution.  A history is a window followed by tokens; the output  *)
(* at a token is what it reads.  A row of the null block reads and writes  *)
(* nothing.                                                                *)

History(window, tokens) ==
    [c \in 0 .. StateLen + Len(tokens) - 1 |->
        IF c < StateLen THEN window[c] ELSE tokens[c - StateLen + 1]]
Read(history, col, valid) ==
    [t \in Taps |-> IF valid THEN history[col + StateLen - t] ELSE Zero]

\* The window of a request without speculation.
Window(state, slot, initial) ==
    [c \in 0 .. StateLen - 1 |-> IF slot # 0 /\ initial THEN state[slot][c] ELSE Zero]

\* The first n columns of a slot, taken from a history.
Stored(columns, history, from, n) ==
    [c \in DOMAIN columns |-> IF c < n THEN history[from + c] ELSE columns[c]]

\* index_copy_: no two rows have a slot but the null block's.
Put(state, slots, stored) ==
    [s \in DOMAIN state |->
        IF \E i \in DOMAIN slots : slots[i] = s
        THEN stored[CHOOSE i \in DOMAIN slots : slots[i] = s] ELSE state[s]]

\* A tensor [request, column] of the tokens of requests that start at starts.
Packed(x, starts, width) ==
    [i \in 1 .. Len(starts) - 1 |->
        [c \in 1 .. width |->
            LET at == starts[i] + c
            IN  IF at <= starts[i + 1] /\ at <= Len(x) THEN x[at] ELSE Zero]]

\* _short_conv_dilated_decode_batched
DecodeBatched(state, m, x) ==
    LET slot(i) == m.slots[i]
        history(i) == History(Window(state, slot(i), m.initial[i]), <<x[i]>>)
    IN  [out   |-> [i \in DOMAIN x |-> Read(history(i), 0, slot(i) # 0)],
         state |-> Put(state, SubSeq(m.slots, 1, Len(x)),
                       [i \in DOMAIN x |-> Stored(state[slot(i)], history(i), 1,
                                                  IF slot(i) # 0 THEN StateLen ELSE 0)])]

\* _short_conv_dilated_prefill_batched
PrefillBatched(state, m, x) ==
    LET num == Len(m.slots) - m.decodes
        slot(i) == m.slots[m.decodes + i]
        starts == [i \in 1 .. num + 1 |-> m.starts[m.decodes + i] - m.starts[m.decodes + 1]]
        length(i) == starts[i + 1] - starts[i]
        width == CHOOSE w \in {length(i) : i \in 1 .. num} : \A i \in 1 .. num : length(i) <= w
        packed == Packed(x, starts, width)
        history == [i \in 1 .. num |->
            History(Window(state, slot(i), m.initial[m.decodes + i]), packed[i])]
    IN  [out   |-> [t \in DOMAIN x |->
                       LET i == RequestAt(starts, t - 1)
                       IN  Read(history[i], t - 1 - starts[i], slot(i) # 0)],
         state |-> Put(state, [i \in 1 .. num |-> slot(i)],
                       [i \in 1 .. num |-> Stored(state[slot(i)], history[i], length(i),
                                                  IF slot(i) # 0 THEN StateLen ELSE 0)])]

\* _short_conv_single_prefill_inplace
SinglePrefill(state, m, x) ==
    LET slot == m.slots[1]
        history == History(Window(state, slot, m.initial[1]), x)
    IN  [out   |-> [t \in DOMAIN x |-> Read(history, t - 1, slot # 0)],
         state |-> Put(state, <<slot>>, <<Stored(state[slot], history, Len(x), StateLen)>>)]

\* rollback_offsets.  Mutant: one column too far.
RollbackMutant(slot, a) == IF slot = 0 THEN 0 ELSE Larger(0, Smaller(a, numSpec))
Rollback(slot, a) == IF slot = 0 THEN 0 ELSE Larger(0, Smaller(a - 1, numSpec))

\* _short_conv_dilated_spec_batched: padded tokens go to a row that is dropped.
SpecBatched(state, m, x) ==
    LET num == Len(m.specSlots)
        slot(i) == m.specSlots[i]
        length(i) == m.specStarts[i + 1] - m.specStarts[i]
        window(i) == [c \in 0 .. StateLen - 1 |->
                         IF slot(i) = 0 THEN Zero
                         ELSE state[slot(i)][Rollback(slot(i), m.accepted[i]) + c]]
        packed == Packed(x, m.specStarts, numSpec + 1)
        history == [i \in 1 .. num |-> History(window(i), packed[i])]
        real(t) == t <= m.specStarts[num + 1]
    IN  [out   |-> [t \in DOMAIN x |->
                       LET i == IF real(t) THEN RequestAt(m.specStarts, t - 1) ELSE num
                       IN  Read(history[i], IF real(t) THEN t - 1 - m.specStarts[i] ELSE 0,
                                real(t))],
         state |-> Put(state, m.specSlots,
                       [i \in 1 .. num |->
                           Stored(state[slot(i)], history[i], 1,
                                  IF slot(i) # 0 THEN StateLen + length(i) - 1 ELSE 0)])]

Picked(x, order) == [k \in DOMAIN order |-> x[order[k]]]
Merged(n, order, outs, others, otherOuts) ==
    [t \in 1 .. n |->
        IF \E k \in DOMAIN order : order[k] = t
        THEN outs[CHOOSE k \in DOMAIN order : order[k] = t]
        ELSE otherOuts[CHOOSE k \in DOMAIN others : others[k] = t]]
-----------------------------------------------------------------------------
(* The environment.                                                        *)

SlotsInit ==
    /\ numSpec \in NumSpecs
    /\ computed = [r \in Requests |-> 0]
    /\ accepted = [r \in Requests |-> 1]
    /\ conv = [s \in 0 .. NumReqs |-> [c \in Columns |-> Stale]]
    /\ batch = <<>>

\* What the scheduler may give a request.  A decode without a mask follows no rejected
\* draft: its window is not rolled back.
RowsOf(r) ==
    IF computed[r] < Prompt
    THEN {[req |-> r, q |-> q, drafts |-> -1, acc |-> q] : q \in 1 .. Prompt - computed[r]}
    ELSE {row \in {[req |-> r, q |-> d + 1, drafts |-> d, acc |-> a] :
                      d \in 0 .. numSpec, a \in 1 .. numSpec + 1} :
             numSpec > 0 /\ row.acc <= row.q /\ computed[r] + row.q <= MaxLen}
         \cup {row \in {[req |-> r, q |-> 1, drafts |-> -1, acc |-> 1]} :
                  accepted[r] = 1 /\ computed[r] < MaxLen}

\* sort_batch_req_ids: drafts first, then queries of the length of a decode with drafts.
SortKey(row) ==
    row.q + (IF row.q = numSpec + 1 THEN 0 ELSE MaxLen) + (IF row.drafts > 0 THEN 0 ELSE 2 * MaxLen)

\* decode_cudagraph_max_bs and decode_cudagraph_max_tokens
GraphReqs == Smaller(MaxNumSeqs, CaptureSize)
GraphTokens == Smaller(MaxNumSeqs * (numSpec + 1), CaptureSize)

\* A full graph is replayed for a uniform batch of decodes only.
Replayed(b, pads) ==
    /\ Len(b) + pads <= GraphReqs /\ (Len(b) + pads) * (numSpec + 1) <= GraphTokens
    /\ \A i \in DOMAIN b :
           b[i].q = numSpec + 1 /\ (IsSpec(b[i]) <=> numSpec > 0) /\ computed[b[i].req] >= Prompt

Schedule ==
    /\ batch = <<>>
    /\ \E row \in [Requests -> UNION {RowsOf(r) : r \in Requests} \cup {<<>>}] :
          /\ \A r \in Requests : row[r] = <<>> \/ row[r] \in RowsOf(r)
          /\ \E b \in SetToSeqs({row[r] : r \in Requests} \ {<<>>}) \ {<<>>}, pads \in 0 .. 1 :
                /\ \A i, j \in DOMAIN b : i < j => SortKey(b[i]) <= SortKey(b[j])
                /\ pads > 0 => Replayed(b, pads)
                /\ batch' = [rows |-> b, pads |-> pads]
    /\ UNCHANGED <<numSpec, computed, accepted, conv>>

\* The tokens a step computes for a request, and how many of them it accepts.
Advance ==
    LET rowOf(r) == CHOOSE i \in DOMAIN batch.rows : batch.rows[i].req = r
        members == {batch.rows[i].req : i \in DOMAIN batch.rows}
        acc(r) == batch.rows[rowOf(r)].acc
    IN  /\ computed' = [r \in Requests |->
               IF r \in members THEN computed[r] + acc(r) ELSE computed[r]]
        /\ accepted' = [r \in Requests |->
               IF r \notin members THEN accepted[r]
               ELSE IF IsSpec(batch.rows[rowOf(r)]) THEN acc(r) ELSE 1]
        /\ batch' = <<>>
        /\ UNCHANGED numSpec

\* A request is preempted, or finishes and another one gets its slot: what is in the
\* slot is of another sequence.
Restart(r) ==
    /\ batch = <<>> /\ computed[r] > 0
    /\ computed' = [computed EXCEPT ![r] = 0]
    /\ accepted' = [accepted EXCEPT ![r] = 1]
    /\ conv' = [conv EXCEPT ![r] = [c \in Columns |-> Stale]]
    /\ UNCHANGED <<numSpec, batch>>
-----------------------------------------------------------------------------
Rows ==
    [req : Requests, q : 1 .. MaxLen, drafts : -1 .. numSpec, acc : 1 .. MaxLen]
SlotsTypeOK ==
    /\ numSpec \in NumSpecs
    /\ computed \in [Requests -> 0 .. MaxLen]
    /\ accepted \in [Requests -> 1 .. numSpec + 1]
    /\ \A s \in 0 .. NumReqs : DOMAIN conv[s] = Columns
    /\ batch # <<>> => /\ \A i \in DOMAIN batch.rows : batch.rows[i] \in Rows
                       /\ batch.pads \in 0 .. 1

\* The input that belongs n positions before the k-th token of a row.
Before(row, k, n) ==
    IF k - n >= 1 THEN Inputs(row)[k - n]
    ELSE IF computed[row.req] + k - n >= 1 THEN <<row.req, computed[row.req] + k - n>>
    ELSE Zero
=============================================================================

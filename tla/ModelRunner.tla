----------------------------- MODULE ModelRunner -----------------------------
(***************************************************************************)
(* The model runner of a GPU worker (v1/worker/gpu/model_runner.py): what  *)
(* it keeps of a request between steps and the input it builds from it.    *)
(*                                                                         *)
(* The scheduler runs ahead: it announces the next step before it has the  *)
(* tokens of the last one, counts drafts as computed until it learns that  *)
(* they were rejected, and gives no token of a decode.  The runner takes   *)
(* them from its own rows, which sampling updates on the GPU.              *)
(*                                                                         *)
(* The token that belongs at position p of a request is p, whenever it is  *)
(* sampled.  The steps of one worker are sequential: execute_model, then   *)
(* sample_tokens.  This is the worker of the last pipeline rank.           *)
(***************************************************************************)
EXTENDS Integers, Sequences, FiniteSets, SequencesExt

CONSTANTS
    Reqs,
    Prompt,         \* tokens of a prompt
    NumRows,        \* max_num_reqs
    NumSpec,        \* num_speculative_steps
    MaxLen,         \* bound: tokens of a request
    MaxChunk,       \* bound: tokens of a prefill chunk
    MaxInFlight,    \* steps announced whose output has not arrived
    MaxPreemptions  \* bound

RunnerAssumption ==
    /\ IsFiniteSet(Reqs) /\ NumSpec \in Nat
    /\ {Prompt, NumRows, MaxLen, MaxChunk, MaxInFlight} \subseteq Nat \ {0} /\ MaxPreemptions \in Nat
    /\ Prompt < MaxLen

VARIABLES
    \* the scheduler
    status,     \* of a request: waiting, running or finished
    known,      \* its tokens, prompt and output that has arrived
    announced,  \* its computed tokens, drafts in flight counted as accepted
    left,       \* preempted or finished since the last step: the runner drops them
    inFlight,   \* outputs that have not arrived: request -> tokens and rejections
    preemptions,
    \* the runner
    rowOf,      \* req_id_to_index, 0 for none
    states,     \* the state of a row
    step        \* execute_model_state: the entries of a step that is not sampled yet
vars == <<status, known, announced, left, inFlight, preemptions, rowOf, states, step>>

Old   == -1     \* left in a buffer
Wrong == -2     \* a draft the target does not choose
DecodeQueryLen == 1 + NumSpec
Smaller(m, n) == IF m <= n THEN m ELSE n
Empty == [prefill |-> 0, computed |-> 0, upper |-> 0, sampled |-> Old,
          drafts |-> [i \in 1 .. NumSpec |-> Old]]
-----------------------------------------------------------------------------
(* Bookkeeping at the start of execute_model.                              *)

\* finish_requests, _remove_request
Remaining(gone) == [r \in Reqs |-> IF r \in gone THEN 0 ELSE rowOf[r]]

\* add_requests: a new request gets a row nobody has.
Placements(new, owner) ==
    {place \in [new -> 1 .. NumRows] :
        IsInjective(place) /\ \A r \in new : place[r] \notin {owner[o] : o \in Reqs}}

\* What an earlier request left in the row counts as Old.
Added(n, start) == [Empty EXCEPT !.prefill = n, !.computed = start, !.upper = start]

\* update_requests: what the scheduler takes to be computed, an upper bound.
Updated(row, computed) == [row EXCEPT !.upper = computed]

\* gather_batch_req_state.  Mutant: only the first chunk of a prompt is a prefill.
IsPrefillingMutant(row) == row.upper = 0 /\ row.prefill > 0
IsPrefilling(row) == Smaller(row.upper, row.prefill) < row.prefill
-----------------------------------------------------------------------------
(* The input of a step.  An entry is a request with its row, the number of *)
(* its tokens and how many of them are drafts.                             *)

\* sort_batch_req_ids: drafts first, then queries of the length of a decode.
\* Mutant: all others in one class, the longer queries first.
SortKeyMutant(e) == <<IF e.drafts > 0 THEN 0 ELSE 1, 0 - e.q>>
SortKey(e) == <<IF e.drafts > 0 THEN 0 ELSE 1, IF e.q = DecodeQueryLen THEN 0 ELSE 1, e.q>>

SortsBefore(a, b) ==
    \E i \in DOMAIN SortKey(a) :
        /\ SortKey(a)[i] < SortKey(b)[i]
        /\ \A j \in 1 .. i - 1 : SortKey(a)[j] = SortKey(b)[j]

\* What a stable sort makes of the orders the scheduler may give.
Orders(entries) ==
    {s \in SetToSeqs(entries) : \A i, j \in DOMAIN s : i < j => ~ SortsBefore(s[j], s[i])}

\* prepare_prefill_inputs: the tokens of a row that is not past its prefill.
PrefillInput(row, e) ==
    [j \in 1 .. e.q |->
        IF row.computed < row.prefill /\ row.computed + j <= row.prefill
        THEN row.computed + j - 1 ELSE Old]

\* combine_sampled_and_draft_tokens: the last token sampled and the drafts, at the
\* end of the query, unless that ends within the prefill.
NumLogits(e) == 1 + e.drafts

DecodeInput(row, e, input) ==
    IF row.computed + e.q <= row.prefill THEN input
    ELSE [j \in 1 .. e.q |->
            LET k == j - (e.q - NumLogits(e))
            IN  CASE k < 1 -> input[j]
                  [] k = 1 -> row.sampled
                  [] OTHER -> row.drafts[k - 1]]

\* prepare_inputs: the kernel for prefills runs if some request is prefilling.
Prepared(e, row, hasPrefill) ==
    [req |-> e.req, row |-> e.row, q |-> e.q, drafts |-> e.drafts,
     start |-> row.computed, upper |-> row.upper + e.q,
     input |-> DecodeInput(row, e, IF hasPrefill THEN PrefillInput(row, e)
                                   ELSE [j \in 1 .. e.q |-> Old])]
-----------------------------------------------------------------------------
(* The scheduler, as far as the runner sees it.                            *)

InFlight(r) == \E i \in DOMAIN inFlight : r \in DOMAIN inFlight[i]
Drop(outputs, gone) ==
    [i \in DOMAIN outputs |-> [r \in DOMAIN outputs[i] \ gone |-> outputs[i][r]]]

\* A waiting request starts where its cached prefix ends; a running one goes on with
\* its prompt or with one token and drafts, whose values it does not know.
MayStart(r) == status[r] = "waiting" /\ ~ InFlight(r) /\ r \notin left
Plans(r) ==
    IF status[r] = "waiting"
    THEN {[start |-> p[1], q |-> p[2], drafts |-> 0] : p \in
            {p \in (0 .. known[r] - 1) \X (1 .. MaxChunk) : p[1] \in {0, 2} /\ p[1] + p[2] <= known[r]}}
    ELSE LET prefill == states[rowOf[r]].prefill
             at == announced[r]
         IN  IF at < prefill
             THEN {[start |-> at, q |-> q, drafts |-> 0] : q \in 1 .. Smaller(MaxChunk, prefill - at)}
             ELSE {[start |-> at, q |-> 1 + k, drafts |-> k] :
                    k \in {n \in {0, NumSpec} : at + 1 + n <= MaxLen}}

\* execute_model: bookkeeping, then the input of the step.
Execute(new, cached, plan, place) ==
    LET scheduled == new \union cached
        owner == [r \in Reqs |-> IF r \in new THEN place[r] ELSE Remaining(left)[r]]
        of(i) == {r \in scheduled : owner[r] = i}
        row(i) == LET r == CHOOSE o \in of(i) : TRUE
                  IN  IF of(i) = {} THEN states[i]
                      ELSE IF r \in new THEN Added(known[r], plan[r].start)
                      ELSE Updated(states[i], plan[r].start)
        entries == {[req |-> r, row |-> owner[r], q |-> plan[r].q, drafts |-> plan[r].drafts] :
                        r \in scheduled}
        hasPrefill == \E r \in scheduled : IsPrefilling(row(owner[r]))
    IN  /\ rowOf' = owner
        /\ states' = [i \in 1 .. NumRows |-> row(i)]
        /\ \E s \in Orders(entries) :
            step' = [i \in DOMAIN s |-> Prepared(s[i], row(s[i].row), hasPrefill)]
        /\ status' = [r \in Reqs |-> IF r \in new THEN "running" ELSE status[r]]
        /\ announced' = [r \in Reqs |-> IF r \in scheduled THEN plan[r].start + plan[r].q
                                        ELSE announced[r]]
        /\ left' = {}
        /\ UNCHANGED <<known, inFlight, preemptions>>

Step ==
    /\ step = <<>> /\ Len(inFlight) < MaxInFlight
    /\ \E new \in SUBSET {r \in Reqs : MayStart(r)}, cached \in SUBSET {r \in Reqs : status[r] = "running"} :
        /\ new \union cached \union left # {}
        /\ \E place \in Placements(new, Remaining(left)) :
           \E plan \in [new \union cached -> UNION {Plans(r) : r \in new \union cached}] :
            /\ \A r \in new \union cached : plan[r] \in Plans(r)
            /\ Execute(new, cached, plan, place)

\* sample: the drafts up to the first that is wrong, and one token more; none in the
\* middle of a prompt.
Accepted(e) ==
    CHOOSE a \in 0 .. e.drafts :
        /\ \A i \in 1 .. a : e.input[e.q - e.drafts + i] # Wrong
        /\ a < e.drafts => e.input[e.q - e.drafts + a + 1] = Wrong
Samples(e) == e.start + e.q >= states[e.row].prefill
NumSampled(e) == IF Samples(e) THEN Accepted(e) + 1 ELSE 0
NumRejected(e) == IF Samples(e) THEN e.drafts - Accepted(e) ELSE 0

\* postprocess_sampled (post_update), and the drafts proposed for what follows.
PostUpdate(row, e, right) ==
    LET next == e.start + e.q - NumRejected(e)
    IN  [row EXCEPT !.computed = next,
                    !.sampled = IF Samples(e) THEN next ELSE row.sampled,
                    !.drafts = [i \in 1 .. NumSpec |-> IF Samples(e) /\ i <= right THEN next + i ELSE Wrong]]

\* sample_tokens
Sample ==
    /\ step # <<>>
    /\ \E right \in [DOMAIN step -> 0 .. NumSpec] :
        states' = [i \in 1 .. NumRows |->
                    IF \E k \in DOMAIN step : step[k].row = i
                    THEN LET k == CHOOSE n \in DOMAIN step : step[n].row = i
                         IN  PostUpdate(states[i], step[k], right[k])
                    ELSE states[i]]
    /\ inFlight' = Append(inFlight,
            [r \in {e.req : e \in {x \in ToSet(step) : status[x.req] = "running"}} |->
                LET e == CHOOSE x \in ToSet(step) : x.req = r
                IN  [tokens |-> NumSampled(e), rejected |-> NumRejected(e)]])
    /\ step' = <<>>
    /\ UNCHANGED <<status, known, announced, left, preemptions, rowOf>>

\* An output arrives; a request may stop with it.
Arrive ==
    /\ inFlight # <<>>
    /\ LET out == Head(inFlight)
           n == [r \in Reqs |-> IF r \in DOMAIN out THEN known[r] + out[r].tokens ELSE known[r]]
           stopped == {r \in DOMAIN out : status[r] = "running" /\ n[r] >= MaxLen}
       IN  /\ known' = n
           /\ announced' = [r \in Reqs |-> IF r \in DOMAIN out /\ status[r] = "running"
                                           THEN announced[r] - out[r].rejected ELSE announced[r]]
           /\ status' = [r \in Reqs |-> IF r \in stopped \/ n[r] >= MaxLen THEN "finished" ELSE status[r]]
           /\ left' = left \union stopped
           /\ inFlight' = Drop(Tail(inFlight), stopped)
    /\ UNCHANGED <<preemptions, rowOf, states, step>>

\* A request is preempted while nothing of it is being sampled; its outputs in
\* flight are kept or dropped.
Preempt(r, kept) ==
    /\ status[r] = "running" /\ step = <<>> /\ preemptions < MaxPreemptions
    /\ status' = [status EXCEPT ![r] = "waiting"]
    /\ left' = left \union {r}
    /\ inFlight' = IF kept THEN inFlight ELSE Drop(inFlight, {r})
    /\ preemptions' = preemptions + 1
    /\ UNCHANGED <<known, announced, rowOf, states, step>>

Init ==
    /\ status = [r \in Reqs |-> "waiting"]
    /\ known = [r \in Reqs |-> Prompt]
    /\ announced = [r \in Reqs |-> 0]
    /\ left = {} /\ inFlight = <<>> /\ preemptions = 0
    /\ rowOf = [r \in Reqs |-> 0]
    /\ states = [i \in 1 .. NumRows |-> Empty]
    /\ step = <<>>

Next ==
    \/ Step
    \/ Sample
    \/ Arrive
    \/ \E r \in Reqs, kept \in BOOLEAN : Preempt(r, kept)

Spec == Init /\ [][Next]_vars
-----------------------------------------------------------------------------
\* A row, what a step brings of a request, and an entry of a step.
RowSet == [prefill : 0 .. MaxLen, computed : 0 .. MaxLen, upper : 0 .. MaxLen, sampled : Int,
           drafts : [1 .. NumSpec -> Int]]
Outcomes == [tokens : 0 .. NumSpec + 1, rejected : 0 .. NumSpec]
Outputs == UNION {[R -> Outcomes] : R \in SUBSET Reqs}
EntrySet == [req : Reqs, row : 1 .. NumRows, q : 1 .. MaxLen, drafts : {0, NumSpec},
             start : 0 .. MaxLen, upper : 0 .. MaxLen, input : Seq(Int)]

TypeOK ==
    /\ status \in [Reqs -> {"waiting", "running", "finished"}]
    /\ known \in [Reqs -> 1 .. MaxLen + 1] /\ announced \in [Reqs -> 0 .. MaxLen]
    /\ left \subseteq Reqs /\ preemptions \in 0 .. MaxPreemptions
    /\ inFlight \in Seq(Outputs) /\ Len(inFlight) + (IF step = <<>> THEN 0 ELSE 1) <= MaxInFlight
    /\ rowOf \in [Reqs -> 0 .. NumRows] /\ states \in [1 .. NumRows -> RowSet]
    /\ step \in Seq(EntrySet)

\* Whatever was preempted, rejected or still on its way, every request of a step gets
\* the tokens that belong at the positions it computes, and drafts only after them;
\* the length the host plans the attention with is no less than the one on the GPU;
\* the rows to sample from are its own; and the requests that count as decodes lead
\* (model_runner.py:1180, 1214, 1283, 2084).
InputsRight ==
    /\ \A i \in DOMAIN step :
        LET e == step[i]
        IN  /\ \A j \in 1 .. e.q : \/ e.input[j] = e.start + j - 1
                                   \/ j > e.q - e.drafts /\ e.input[j] = Wrong
            /\ e.start + e.q <= e.upper
            /\ NumLogits(e) <= e.q
    /\ \A i, j \in DOMAIN step : i < j =>
        /\ step[i].row # step[j].row
        /\ step[j].q <= DecodeQueryLen => step[i].q <= DecodeQueryLen

\* The rows that nobody owns and the counts of finished requests are not read again.
View == <<status, left, inFlight, preemptions, rowOf, step,
          [r \in Reqs |-> IF status[r] = "finished" THEN <<>> ELSE <<known[r], announced[r]>>],
          [i \in 1 .. NumRows |-> IF \E r \in Reqs \ left : rowOf[r] = i THEN states[i] ELSE <<>>]>>
=============================================================================

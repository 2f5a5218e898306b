------------------------------ MODULE Scheduler ------------------------------
(***************************************************************************)
(* The request scheduler of the vLLM overlay                               *)
(* (v1/core/sched/scheduler.py): continuous batching with overlapping      *)
(* steps, preemption on KV-cache exhaustion, speculative tokens,           *)
(* asynchronous remote KV loads and deferred block frees.                  *)
(*                                                                         *)
(* The scheduler runs on one thread.  A call of schedule() and a call of   *)
(* update_from_output() are loops over requests; each iteration is an      *)
(* action here and pc says which loop the thread is in.  Calls from        *)
(* outside (add, abort, reset) happen only between two such calls, when    *)
(* pc = "idle".  The worker holds up to MaxBatches steps that were         *)
(* scheduled and whose output was not processed yet.                       *)
(*                                                                         *)
(* A sampled token is represented by the sequence position it was sampled  *)
(* for: the content of a token never influences the scheduler, its         *)
(* position is what reordering, dropping or resampling would corrupt.      *)
(***************************************************************************)
EXTENDS Integers, Sequences, FiniteSets

CONSTANTS
    Req,                \* request ids
    Blocks,             \* physical KV-cache blocks
    PromptLen,          \* prompt length of each request
    MaxTokens,          \* max_tokens of each request
    Priority,           \* (priority, arrival_time) of each request, as a rank
    BlockSize,
    MaxModelLen,
    MaxRunningReqs,     \* max_num_running_reqs
    MaxScheduledTokens, \* max_num_scheduled_tokens
    LongPrefill,        \* long_prefill_token_threshold, 0 when off
    NumSpec,            \* num_spec_tokens
    Policy,             \* "fcfs" or "priority"
    AsyncScheduling,    \* the AsyncScheduler subclass is used
    MaxBatches,         \* max_concurrent_batches
    KVConsumer,         \* a KV connector that may load remote KV is configured
    RequiresKVDelivery, \* connector.requires_kv_delivery
    ReserveFullISL,     \* scheduler_reserve_full_isl
    ExtHits,            \* hit lengths the connector may report
    MaxResets           \* bound: number of reset_prefix_cache calls

ASSUME ConstantsAssumption ==
    /\ IsFiniteSet(Req) /\ IsFiniteSet(Blocks)
    /\ PromptLen \in [Req -> Nat \ {0}]
    /\ MaxTokens \in [Req -> Nat \ {0}]
    /\ Priority \in [Req -> Nat]
    /\ \A r, q \in Req : Priority[r] = Priority[q] => r = q
    /\ BlockSize \in Nat \ {0}
    /\ MaxModelLen \in Nat /\ \A r \in Req : PromptLen[r] < MaxModelLen
    /\ MaxRunningReqs \in Nat \ {0}
    /\ MaxScheduledTokens \in Nat \ {0}
    /\ LongPrefill \in Nat /\ NumSpec \in Nat
    /\ Policy \in {"fcfs", "priority"}
    /\ MaxBatches \in Nat \ {0} /\ MaxResets \in Nat
    /\ ExtHits \subseteq Nat \ {0}
    /\ {AsyncScheduling, KVConsumer, RequiresKVDelivery, ReserveFullISL} \subseteq BOOLEAN

VARIABLES
    reqs,           \* self.requests: ids of the requests the scheduler knows
    status,         \* Request.status ("NEW" before add_request)
    waiting, skipped, running,      \* the three queues
    computed,       \* num_computed_tokens
    out,            \* output tokens appended and emitted, as positions
    spec,           \* number of spec_token_ids
    placeholders,   \* num_output_placeholders
    inflight,       \* num_in_flight_tokens
    stale,          \* num_stale_output_tokens
    dropStale,      \* drop_stale_output
    isPrefill,      \* is_prefill_chunk
    wasPreempted,   \* num_preemptions > 0
    lastSeq,        \* last_sched_seq
    held,           \* blocks each request owns
    free,           \* the block pool
    deferred,       \* deferred_frees, FIFO of [fence, blocks]
    schedSeq, procSeq,
    finishedIds, preemptedIds,      \* reported with the next scheduler output
    inflightPrefills, finishedRecving,
    pc,             \* the loop the scheduler thread is in
    idx,            \* req_index of the running loop
    budget,         \* token_budget
    restored,       \* tokens preempted victims gave back to the budget since
                    \* num_new_tokens of the request at idx was computed
    sched,          \* num_scheduled_tokens of this pass, 0 when absent
    schedSpec,      \* number of scheduled_spec_decode_tokens of this pass
    admitted,       \* scheduled_new_reqs and scheduled_resumed_reqs
    preempts,       \* preempted_reqs is not empty
    stepSkipped,    \* step_skipped_waiting
    stepLoads,      \* async loads started by this pass
    todo,           \* requests of the step still to be processed
    batches,        \* scheduler outputs given to the worker, oldest first
    loading,        \* async loads the worker is running
    slots,          \* requests that own a row in the worker's request state
    wpos,           \* tokens of each request the worker has seen
    resets          \* bound: reset_prefix_cache calls so far

queueVars  == <<reqs, status, waiting, skipped, running>>
tokenVars  == <<computed, out, spec, placeholders, inflight, stale, dropStale,
                isPrefill, wasPreempted, lastSeq>>
blockVars  == <<held, free, deferred>>
seqVars    == <<schedSeq, procSeq>>
setVars    == <<finishedIds, preemptedIds, inflightPrefills, finishedRecving>>
passVars   == <<idx, budget, restored, sched, schedSpec, admitted, preempts, stepSkipped,
                stepLoads>>
workerVars == <<batches, loading, slots, wpos>>
vars == <<queueVars, tokenVars, blockVars, seqVars, setVars, pc, passVars, todo,
          workerVars, resets>>
-----------------------------------------------------------------------------
(* Helpers.                                                                *)

MinOf(a, b) == IF a <= b THEN a ELSE b
MaxOf(a, b) == IF a <= b THEN b ELSE a
Elems(q)    == {q[i] : i \in DOMAIN q}
IndexOf(q, r) == CHOOSE i \in DOMAIN q : q[i] = r
DropAt(q, i)  == SubSeq(q, 1, i - 1) \o SubSeq(q, i + 1, Len(q))
Without(q, r) == IF r \in Elems(q) THEN DropAt(q, IndexOf(q, r)) ELSE q

\* defer_block_free: steps overlap and a connector may fill freed blocks.
DeferBlockFree == MaxBatches > 1 /\ KVConsumer

NumTokens(r) == PromptLen[r] + Len(out[r])
IsFinished(r) == status[r] = "FINISHED"

\* The sum of f over the requests of S, without recursion: the number of
\* pairs (r, k) with 1 <= k <= f[r].
SumOver(f, S) == Cardinality(UNION {{r} \X (1 .. f[r]) : r \in S})

BlocksFor(n) == (MinOf(n, MaxModelLen) + BlockSize - 1) \div BlockSize
\* Blocks allocate_slots must take so that r has room for n tokens.
NeedFor(r, n) == MaxOf(BlocksFor(n) - Cardinality(held[r]), 0)

\* The new owner takes any blocks of the pool.
Allocate(r, n) ==
    \E S \in SUBSET free :
        /\ Cardinality(S) = NeedFor(r, n)
        /\ held' = [held EXCEPT ![r] = @ \cup S]
        /\ free' = free \ S

\* Mutant of WritesDone: off by one, the oldest step in flight counts as done.
WritesDoneMutant(r) == lastSeq[r] <= procSeq + 1

\* No step that writes the blocks of r is in flight.
WritesDone(r) == lastSeq[r] <= procSeq

\* Mutant of Release: a request keeps its block table when it is freed.
ReleaseMutant(r) == held

Release(r) == [held EXCEPT ![r] = {}]

\* _free_request_blocks: back to the pool, or behind the fence of the last
\* scheduled step when a step that writes the blocks may be in flight.
FreeRequestBlocks(r) ==
    /\ held' = Release(r)
    /\ IF ~DeferBlockFree \/ WritesDone(r)
       THEN free' = free \cup held[r] /\ UNCHANGED deferred
       ELSE /\ UNCHANGED free
            /\ deferred' = IF held[r] = {} THEN deferred
                           ELSE Append(deferred, [fence |-> schedSeq, blocks |-> held[r]])
-----------------------------------------------------------------------------
Init ==
    /\ reqs = {} /\ status = [r \in Req |-> "NEW"]
    /\ waiting = <<>> /\ skipped = <<>> /\ running = <<>>
    /\ computed = [r \in Req |-> 0] /\ out = [r \in Req |-> <<>>]
    /\ spec = [r \in Req |-> 0] /\ placeholders = [r \in Req |-> 0]
    /\ inflight = [r \in Req |-> 0] /\ stale = [r \in Req |-> 0]
    /\ dropStale = [r \in Req |-> FALSE] /\ isPrefill = [r \in Req |-> FALSE]
    /\ wasPreempted = [r \in Req |-> FALSE] /\ lastSeq = [r \in Req |-> 0]
    /\ held = [r \in Req |-> {}] /\ free = Blocks /\ deferred = <<>>
    /\ schedSeq = 0 /\ procSeq = 0
    /\ finishedIds = {} /\ preemptedIds = {}
    /\ inflightPrefills = {} /\ finishedRecving = {}
    /\ pc = "idle" /\ idx = 1 /\ budget = 0 /\ restored = 0
    /\ sched = [r \in Req |-> 0] /\ schedSpec = [r \in Req |-> 0]
    /\ admitted = {} /\ preempts = FALSE /\ stepSkipped = <<>> /\ stepLoads = {}
    /\ todo = {}
    /\ batches = <<>> /\ loading = {} /\ slots = {} /\ wpos = [r \in Req |-> 0]
    /\ resets = 0
-----------------------------------------------------------------------------
(* schedule(): the running loop.                                           *)

\* Mutant of HasRequests: only unfinished requests keep the engine running.
HasRequestsMutant == \E r \in reqs : ~IsFinished(r)

\* has_requests: unfinished requests, finished ids to report, or finished
\* requests that still wait for the connector.
HasRequests == reqs # {} \/ finishedIds # {}

ScheduleStart ==
    /\ pc = "idle" /\ HasRequests /\ Len(batches) < MaxBatches
    /\ pc' = "running" /\ idx' = 1 /\ budget' = MaxScheduledTokens /\ restored' = 0
    /\ sched' = [r \in Req |-> 0] /\ schedSpec' = [r \in Req |-> 0]
    /\ admitted' = {} /\ preempts' = FALSE /\ stepSkipped' = <<>> /\ stepLoads' = {}
    /\ UNCHANGED <<queueVars, tokenVars, blockVars, seqVars, setVars, todo, workerVars, resets>>

\* A step is already in flight that is sure to reach max_tokens.
ReachesMaxTokens(r) ==
    /\ placeholders[r] > 0
    /\ computed[r] + 2 - placeholders[r] >= PromptLen[r] + MaxTokens[r]

LongPrefillCap(n) == IF 0 < LongPrefill /\ LongPrefill < n THEN LongPrefill ELSE n

\* num_new_tokens: what is known or expected beyond the computed tokens, cut to
\* the budget and the model length; _reserve_prefill_lookahead returns it, never
\* below zero.  It is computed once, before the inner loop that preempts: what
\* victims give back to the budget meanwhile does not count.
NumNewTokens(r) ==
    MaxOf(0,
    MinOf(MaxModelLen - computed[r] - 1,
    MinOf(budget - restored,
          LongPrefillCap(NumTokens(r) + spec[r] + placeholders[r] - computed[r]))))

InRunningLoop == pc = "running" /\ idx <= Len(running) /\ budget > 0

RunningSkip ==
    /\ InRunningLoop
    /\ LET r == running[idx] IN ReachesMaxTokens(r) \/ NumNewTokens(r) = 0
    /\ idx' = idx + 1
    /\ UNCHANGED <<queueVars, tokenVars, blockVars, seqVars, setVars, pc, budget, restored, sched,
                   schedSpec, admitted, preempts, stepSkipped, stepLoads, todo, workerVars, resets>>

WantsTokens(r) == ~ReachesMaxTokens(r) /\ NumNewTokens(r) > 0

\* num_lookahead_tokens is the number of speculative tokens.
RunningFits(r) ==
    NeedFor(r, computed[r] + NumNewTokens(r) + NumSpec) <= Cardinality(free)

RunningSchedule ==
    /\ InRunningLoop
    /\ LET r == running[idx]
           n == NumNewTokens(r)
           s == n + computed[r] - NumTokens(r) - placeholders[r]
       IN /\ WantsTokens(r) /\ RunningFits(r)
          /\ Allocate(r, computed[r] + n + NumSpec)
          /\ sched' = [sched EXCEPT ![r] = n]
          /\ budget' = budget - n /\ restored' = 0
          /\ idx' = idx + 1
          /\ schedSpec' = [schedSpec EXCEPT ![r] = MaxOf(0, MinOf(s, spec[r]))]
          /\ spec' = [spec EXCEPT ![r] = 0]
    /\ UNCHANGED <<queueVars, computed, out, placeholders, inflight, stale, dropStale, isPrefill,
                   wasPreempted, lastSeq, deferred, seqVars, setVars, pc, admitted, preempts,
                   stepSkipped, stepLoads, todo, workerVars, resets>>

\* Mutant of StaleAfterPreempt: accumulated, though the tokens in flight
\* include the stale ones that are still to be drained.
StaleAfterPreemptMutant(v) == stale[v] + inflight[v]

StaleAfterPreempt(v) == inflight[v]

\* _preempt_request for a request the caller takes out of running; drop is
\* the drop_stale_output argument.
Preempt(v, drop) ==
    /\ FreeRequestBlocks(v)
    /\ inflightPrefills' = inflightPrefills \ {v}
    /\ status' = [status EXCEPT ![v] = "PREEMPTED"]
    /\ computed' = [computed EXCEPT ![v] = 0]
    /\ spec' = [spec EXCEPT ![v] = 0]
    /\ dropStale' = [dropStale EXCEPT ![v] = drop \/ (@ /\ stale[v] > 0)]
    /\ stale' = [stale EXCEPT ![v] = StaleAfterPreempt(v)]
    /\ placeholders' = [placeholders EXCEPT ![v] = 0]
    /\ wasPreempted' = [wasPreempted EXCEPT ![v] = TRUE]
    /\ waiting' = <<v>> \o waiting
    /\ preemptedIds' = preemptedIds \cup {v}
    /\ running' = Without(running, v)
    /\ UNCHANGED <<reqs, skipped, out, inflight, isPrefill, lastSeq, seqVars, finishedIds,
                   finishedRecving, todo, workerVars>>

\* The victim is the last request (FCFS), or the one with the largest rank.
IsVictim(v) ==
    IF Policy = "fcfs" THEN v = running[Len(running)]
    ELSE v \in Elems(running) /\ \A q \in Elems(running) : Priority[q] <= Priority[v]

\* Mutant of BudgetAfterPreempt: the victim keeps what it was given.
BudgetAfterPreemptMutant(v) == budget

BudgetAfterPreempt(v) == budget + sched[v]

\* No room for the request at idx: one victim per iteration of the inner
\* loop.  A victim that this pass already scheduled gives its tokens back, for
\* later requests, not for the one at idx; a request that preempts itself ends
\* the running loop.
RunningPreempt(v) ==
    /\ InRunningLoop /\ IsVictim(v)
    /\ LET r == running[idx]
       IN /\ WantsTokens(r) /\ ~RunningFits(r)
          /\ Preempt(v, RequiresKVDelivery)
          /\ budget' = BudgetAfterPreempt(v)
          /\ restored' = IF v = r THEN 0 ELSE restored + sched[v]
          /\ sched' = [sched EXCEPT ![v] = 0]
          /\ schedSpec' = [schedSpec EXCEPT ![v] = 0]
          /\ idx' = IF IndexOf(running, v) < idx THEN idx - 1 ELSE idx
          /\ pc' = IF v = r THEN "waiting" ELSE pc
    /\ preempts' = TRUE
    /\ UNCHANGED <<admitted, stepSkipped, stepLoads, resets>>

RunningEnd ==
    /\ pc = "running" /\ ~InRunningLoop
    /\ pc' = "waiting"
    /\ UNCHANGED <<queueVars, tokenVars, blockVars, seqVars, setVars, passVars, todo,
                   workerVars, resets>>
-----------------------------------------------------------------------------
(* schedule(): the waiting loop.                                           *)

\* The next request: the head of skipped_waiting before the head of waiting
\* (FCFS), or the smaller of the two heads.
IsCandidate(r) ==
    IF Policy = "fcfs" THEN r = IF skipped # <<>> THEN skipped[1] ELSE waiting[1]
    ELSE LET all == Elems(skipped) \cup Elems(waiting)
         IN r \in all /\ \A x \in all : Priority[r] <= Priority[x]

InWaitingLoop ==
    /\ pc = "waiting" /\ ~preempts /\ budget > 0
    /\ (waiting # <<>> \/ skipped # <<>>)
    /\ Len(running) < MaxRunningReqs

Considers(r) == InWaitingLoop /\ IsCandidate(r)

Pop(r) == waiting' = Without(waiting, r) /\ skipped' = Without(skipped, r)

LoadPending(r) == status[r] = "WAITING_FOR_REMOTE_KVS" /\ r \notin finishedRecving

\* Mutant of DeliversStale: a preempted request resumes at once.
DeliversStaleMutant(r) == FALSE

DeliversStale(r) == stale[r] > 0 /\ ~dropStale[r]

\* A load that has not arrived, or output that will still be delivered:
\* the request is set aside for the rest of this pass.
WaitingSkip(r) ==
    /\ Considers(r)
    /\ \/ LoadPending(r)
       \/ status[r] # "WAITING_FOR_REMOTE_KVS" /\ DeliversStale(r)
    /\ Pop(r)
    /\ stepSkipped' = Append(stepSkipped, r)
    /\ UNCHANGED <<reqs, status, running, tokenVars, blockVars, seqVars, setVars, pc, idx, budget,
                   restored, sched, schedSpec, admitted, preempts, stepLoads, todo, workerVars,
                   resets>>

\* _try_promote_blocked_waiting_request of a request whose load arrived.  A
\* full hit recomputes the last token, so that there is one to sample from.
WaitingPromote(r) ==
    /\ Considers(r)
    /\ status[r] = "WAITING_FOR_REMOTE_KVS" /\ r \in finishedRecving
    /\ finishedRecving' = finishedRecving \ {r}
    /\ computed' = [computed EXCEPT ![r] = IF @ = NumTokens(r) THEN @ - 1 ELSE @]
    /\ status' = [status EXCEPT ![r] = IF wasPreempted[r] THEN "PREEMPTED" ELSE "WAITING"]
    /\ UNCHANGED <<reqs, waiting, skipped, running, out, spec, placeholders, inflight, stale,
                   dropStale, isPrefill, wasPreempted, lastSeq, blockVars, seqVars, finishedIds,
                   preemptedIds, inflightPrefills, pc, passVars, todo, workerVars, resets>>

\* Any other status raises RuntimeError in the code and stops the model here.
Schedulable(r) == status[r] \in {"WAITING", "PREEMPTED"} /\ ~DeliversStale(r)

\* allocate_slots for a request from a waiting queue: the blocks for upto
\* tokens, or for all the tokens it has, fit beside the reserved ones.
Admissible(r, upto, reserved) ==
    /\ NeedFor(r, upto) + reserved <= Cardinality(free)
    /\ ReserveFullISL => NeedFor(r, NumTokens(r)) + reserved <= Cardinality(free)

\* A decode joining a running batch of decodes is padded with speculative
\* rows; a pad that does not fit ends the waiting loop.
RunningScheduled == {r \in Req : sched[r] > 0 /\ r \notin admitted}
Pads(r) ==
    /\ NumSpec > 0 /\ NumTokens(r) - computed[r] = 1
    /\ RunningScheduled # {} /\ \A q \in RunningScheduled : ~isPrefill[q]
PadFits(r) == 1 + NumSpec <= budget /\ computed[r] + 1 + NumSpec <= MaxModelLen

\* Mutant of AdmitTokens: a prompt is never cut to the rest of the budget.
AdmitTokensMutant(r) ==
    IF Pads(r) THEN MinOf(LongPrefillCap(1 + NumSpec), budget)
    ELSE LongPrefillCap(NumTokens(r) - computed[r])

AdmitTokens(r) ==
    IF Pads(r) THEN MinOf(LongPrefillCap(1 + NumSpec), budget)
    ELSE MinOf(LongPrefillCap(NumTokens(r) - computed[r]), budget)

\* A pad that the prefill threshold clips fails an assertion in the code and
\* stops the model here.
WaitingAdmit(r) ==
    LET n == AdmitTokens(r)
    IN  /\ Considers(r) /\ Schedulable(r)
        /\ Pads(r) => PadFits(r) /\ n = 1 + NumSpec
        /\ Admissible(r, computed[r] + n + NumSpec, 0)
        /\ Allocate(r, computed[r] + n + NumSpec)
        /\ Pop(r)
        /\ running' = Append(running, r)
        /\ status' = [status EXCEPT ![r] = "RUNNING"]
        /\ admitted' = admitted \cup {r}
        /\ sched' = [sched EXCEPT ![r] = n]
        /\ budget' = budget - n
        /\ schedSpec' = [schedSpec EXCEPT ![r] = IF Pads(r) THEN NumSpec ELSE 0]
        /\ inflightPrefills' = IF computed[r] + n < NumTokens(r)
                               THEN inflightPrefills \cup {r} ELSE inflightPrefills
        /\ UNCHANGED <<reqs, tokenVars, deferred, seqVars, finishedIds, preemptedIds,
                       finishedRecving, pc, idx, restored, preempts, stepSkipped, stepLoads, todo,
                       workerVars, resets>>

\* _inflight_prefill_reserved_blocks: blocks the prefills in flight still need.
ReservedBlocks ==
    SumOver([q \in Req |-> NeedFor(q, NumTokens(q))], inflightPrefills)

\* The connector found hit tokens it can load in the background: the blocks
\* are taken now, the request waits for the load outside running.
WaitingLoadRemote(r) ==
    /\ Considers(r) /\ KVConsumer
    /\ Schedulable(r) /\ computed[r] = 0
    /\ \E hit \in ExtHits :
          /\ hit <= NumTokens(r)
          /\ Admissible(r, hit, ReservedBlocks)
          /\ Allocate(r, hit)
          /\ computed' = [computed EXCEPT ![r] = hit]
    /\ Pop(r)
    /\ status' = [status EXCEPT ![r] = "WAITING_FOR_REMOTE_KVS"]
    /\ stepSkipped' = Append(stepSkipped, r)
    /\ inflightPrefills' = inflightPrefills \cup {r}
    /\ stepLoads' = stepLoads \cup {r}
    /\ UNCHANGED <<reqs, running, out, spec, placeholders, inflight, stale, dropStale, isPrefill,
                   wasPreempted, lastSeq, deferred, seqVars, finishedIds, preemptedIds,
                   finishedRecving, pc, idx, budget, restored, sched, schedSpec, admitted, preempts,
                   todo, workerVars, resets>>

\* The loop breaks at a candidate that cannot be admitted: a pad that does
\* not fit, or blocks that are missing for its tokens (or for its load).
WaitingBlocked(r) ==
    /\ Considers(r) /\ Schedulable(r)
    /\ \/ Pads(r) /\ ~PadFits(r)
       \/ ~Admissible(r, computed[r] + AdmitTokens(r) + NumSpec, 0)
       \/ /\ KVConsumer /\ computed[r] = 0
          /\ \E hit \in ExtHits : hit <= NumTokens(r) /\ ~Admissible(r, hit, ReservedBlocks)
    /\ pc' = "finish"
    /\ UNCHANGED <<queueVars, tokenVars, blockVars, seqVars, setVars, passVars, todo,
                   workerVars, resets>>

WaitingEnd ==
    /\ pc = "waiting" /\ ~InWaitingLoop
    /\ pc' = "finish"
    /\ UNCHANGED <<queueVars, tokenVars, blockVars, seqVars, setVars, passVars, todo,
                   workerVars, resets>>
-----------------------------------------------------------------------------
(* schedule(): the end of the pass.                                        *)

Scheduled == {r \in Req : sched[r] > 0}

\* Chunk of r still in prefill after this step (_update_after_schedule).
ChunkAfter(r) == computed[r] + sched[r] < NumTokens(r) + placeholders[r]

\* Mutant of RequeueSkipped: what the pass set aside is forgotten.
RequeueSkippedMutant == skipped

RequeueSkipped == stepSkipped \o skipped

\* Mutant of RowsAfter: the rows of preempted requests are kept.
RowsAfterMutant == (slots \ finishedIds) \cup (admitted \cap Scheduled)

\* finish_requests and add_requests of the worker's model runner.
RowsAfter == (slots \ (finishedIds \cup preemptedIds)) \cup (admitted \cap Scheduled)

\* The output is handed to the worker and the counters move past the tokens
\* it schedules.  AsyncScheduler counts the tokens a sampling step will
\* return as placeholders and hands out placeholder drafts for the next one.
\* The worker drops finished and preempted rows, then adds the new requests.
ScheduleFinish ==
    /\ pc = "finish"
    /\ LET seq == IF DeferBlockFree /\ Scheduled # {} THEN schedSeq + 1 ELSE schedSeq
           samples == {r \in Scheduled : ~ChunkAfter(r)}
       IN /\ schedSeq' = seq
          /\ computed' = [r \in Req |-> computed[r] + sched[r]]
          /\ inflight' = [r \in Req |-> inflight[r] + sched[r]]
          /\ lastSeq' = [r \in Req |-> IF DeferBlockFree /\ r \in Scheduled THEN seq ELSE lastSeq[r]]
          /\ isPrefill' = [r \in Req |-> IF r \in Scheduled THEN ChunkAfter(r) ELSE isPrefill[r]]
          /\ inflightPrefills' = inflightPrefills \ samples
          /\ placeholders' = [r \in Req |-> IF AsyncScheduling /\ r \in samples
                                            THEN placeholders[r] + 1 + schedSpec[r]
                                            ELSE placeholders[r]]
          /\ spec' = [r \in Req |-> IF AsyncScheduling /\ r \in samples THEN NumSpec ELSE spec[r]]
          /\ batches' = Append(batches,
                [seq |-> seq, tokens |-> sched, spec |-> schedSpec, samples |-> samples,
                 base |-> [r \in Req |-> IF r \in admitted /\ r \in Scheduled
                                         THEN NumTokens(r) ELSE 0],
                 writes |-> [r \in Req |-> IF r \in Scheduled THEN held[r] ELSE {}],
                 loads |-> stepLoads])
          /\ slots' = RowsAfter
    /\ skipped' = RequeueSkipped
    /\ finishedIds' = {} /\ preemptedIds' = {}
    /\ pc' = "idle" /\ idx' = 1 /\ budget' = 0 /\ restored' = 0
    /\ sched' = [r \in Req |-> 0] /\ schedSpec' = [r \in Req |-> 0]
    /\ admitted' = {} /\ preempts' = FALSE /\ stepSkipped' = <<>> /\ stepLoads' = {}
    /\ UNCHANGED <<reqs, status, waiting, running, out, stale, dropStale, wasPreempted, blockVars,
                   procSeq, finishedRecving, todo, loading, wpos, resets>>
-----------------------------------------------------------------------------
(* update_from_output(), called once per step in FIFO order.               *)

\* Mutant of Drainable: the fence of a step that still runs counts as passed.
DrainableMutant(k) ==
    /\ \A i \in 1 .. k : deferred[i].fence <= procSeq' + 1
    /\ k < Len(deferred) => deferred[k + 1].fence > procSeq' + 1

\* _drain_deferred_frees frees the k entries before the first pending fence.
Drainable(k) ==
    /\ \A i \in 1 .. k : deferred[i].fence <= procSeq'
    /\ k < Len(deferred) => deferred[k + 1].fence > procSeq'

UpdateStart ==
    /\ pc = "idle" /\ batches # <<>>
    /\ pc' = "update"
    /\ LET b == Head(batches)
           stepped == \E r \in Req : b.tokens[r] > 0
       IN /\ todo' = {r \in Req : b.tokens[r] > 0}
          /\ IF DeferBlockFree /\ stepped
             THEN /\ procSeq' = procSeq + 1
                  /\ \E k \in 0 .. Len(deferred) :
                     /\ Drainable(k)
                     /\ free' = free \cup UNION {deferred[i].blocks : i \in 1 .. k}
                     /\ deferred' = SubSeq(deferred, k + 1, Len(deferred))
             ELSE UNCHANGED <<procSeq, free, deferred>>
          /\ loading' = loading \cup b.loads
    /\ UNCHANGED <<queueVars, tokenVars, held, schedSeq, setVars, passVars, batches, slots,
                   wpos, resets>>

\* The worker (external) sampled the tokens after the last one it has seen;
\* a request it was given in this step starts from the tokens it was sent.
WorkerStart(r) == LET b == Head(batches) IN IF b.base[r] > 0 THEN b.base[r] ELSE wpos[r]

\* What the step did to r when its output changes nothing but the counts: a
\* request that is gone, dropped output, or a prefill chunk without output.
StaleShare(r) == stale[r] > 0
Drained(r, n) ==
    /\ inflight' = [inflight EXCEPT ![r] = @ - n]
    /\ stale' = [stale EXCEPT ![r] = IF StaleShare(r) THEN @ - n ELSE @]

Discards(r) == r \notin reqs \/ IsFinished(r) \/ (StaleShare(r) /\ dropStale[r])

UpdateDiscard(r) ==
    /\ pc = "update" /\ r \in todo
    /\ todo' = todo \ {r}
    /\ LET b == Head(batches)
       IN /\ Discards(r) \/ r \notin b.samples
          /\ IF r \in reqs THEN Drained(r, b.tokens[r]) ELSE UNCHANGED <<inflight, stale>>
          /\ \E k \in 0 .. b.spec[r] :
                wpos' = [wpos EXCEPT ![r] = WorkerStart(r) + IF r \in b.samples THEN 1 + k ELSE 0]
    /\ UNCHANGED <<queueVars, computed, out, spec, placeholders, dropStale, isPrefill,
                   wasPreempted, lastSeq, blockVars, seqVars, setVars, pc, passVars, batches,
                   loading, slots, resets>>

\* Mutant of Dequeue: requests are looked for in waiting and running only.
DequeueMutant(r) ==
    /\ status' = [status EXCEPT ![r] = "FINISHED"]
    /\ running' = Without(running, r)
    /\ waiting' = Without(waiting, r)
    /\ UNCHANGED skipped

\* A finished request leaves the queue it is in.
Dequeue(r) ==
    /\ status' = [status EXCEPT ![r] = "FINISHED"]
    /\ running' = Without(running, r)
    /\ waiting' = Without(waiting, r)
    /\ skipped' = Without(skipped, r)

\* _free_request: the blocks go back unless the connector still uses them.
FreeRequest(r, delay) ==
    /\ finishedIds' = finishedIds \cup {r}
    /\ inflightPrefills' = inflightPrefills \ {r}
    /\ IF delay THEN UNCHANGED <<reqs, blockVars>>
       ELSE reqs' = reqs \ {r} /\ FreeRequestBlocks(r)

\* check_stop (external): max_tokens, max_model_len, or a stop token.
RoomFor(r) == MinOf(MaxTokens[r] - Len(out[r]), MaxModelLen - NumTokens(r))

\* A rejection count from before a preemption must not touch the reset
\* counters.
Rejected(r, drafts, accepted) == IF StaleShare(r) THEN 0 ELSE drafts - accepted

\* Mutant of RolledBack: rejected drafts still count as computed.
RolledBackMutant(r, rejected) == computed[r]

RolledBack(r, rejected) == IF computed[r] > 0 THEN computed[r] - rejected ELSE computed[r]

\* Mutant of Credited: stale output takes back placeholders as well.
CreditedMutant(r, k) == IF AsyncScheduling THEN k ELSE 0

\* AsyncScheduler (external) takes back the placeholders of delivered tokens.
Credited(r, k) == IF AsyncScheduling /\ ~StaleShare(r) THEN k ELSE 0

\* Output of r is delivered: accepted of the scheduled drafts were kept, k
\* tokens are appended before a stop.
UpdateDeliver(r) ==
    /\ pc = "update" /\ r \in todo
    /\ todo' = todo \ {r}
    /\ ~Discards(r) /\ r \in Head(batches).samples
    /\ LET b == Head(batches)
           start == WorkerStart(r)
       IN \E accepted \in 0 .. b.spec[r] :
          LET rejected == Rejected(r, b.spec[r], accepted)
              limit == MinOf(1 + accepted, RoomFor(r))
          IN /\ wpos' = [wpos EXCEPT ![r] = start + 1 + accepted]
             /\ Drained(r, b.tokens[r])
             /\ computed' = [computed EXCEPT ![r] = RolledBack(r, rejected)]
             /\ \E k \in 1 .. limit, stopped \in BOOLEAN :
                /\ k < limit \/ k = RoomFor(r) => stopped
                /\ out' = [out EXCEPT ![r] = @ \o [i \in 1 .. k |-> start + i]]
                /\ placeholders' = [placeholders EXCEPT ![r] =
                      (IF @ > 0 THEN @ - rejected ELSE @) - Credited(r, k)]
                /\ IF stopped
                   THEN Dequeue(r) /\ FreeRequest(r, FALSE)
                   ELSE UNCHANGED <<queueVars, blockVars, finishedIds, inflightPrefills>>
    /\ UNCHANGED <<spec, dropStale, isPrefill, wasPreempted, lastSeq, seqVars, preemptedIds,
                   finishedRecving, pc, passVars, batches, loading, slots, resets>>

\* _update_from_kv_xfer_finished: a load that arrived wakes its request, or
\* releases the blocks of one that was aborted meanwhile.
KVXferFinished(r) ==
    /\ pc = "update" /\ todo = {} /\ r \in loading
    /\ loading' = loading \ {r}
    /\ IF status[r] = "WAITING_FOR_REMOTE_KVS"
       THEN finishedRecving' = finishedRecving \cup {r} /\ UNCHANGED <<reqs, blockVars>>
       ELSE UNCHANGED finishedRecving /\ reqs' = reqs \ {r} /\ FreeRequestBlocks(r)
    /\ UNCHANGED <<status, waiting, skipped, running, tokenVars, seqVars, finishedIds,
                   preemptedIds, inflightPrefills, pc, passVars, todo, batches, slots, wpos, resets>>

\* The drafts for the next step (update_draft_token_ids) follow when the
\* scheduler is synchronous; prefill chunks ignore them.
UpdateFinish ==
    /\ pc = "update" /\ todo = {}
    /\ pc' = "idle"
    /\ batches' = Tail(batches)
    /\ IF AsyncScheduling THEN UNCHANGED spec
       ELSE \E drafts \in 0 .. NumSpec :
                spec' = [r \in Req |->
                    IF Head(batches).tokens[r] = 0 \/ r \notin reqs \/ IsFinished(r) THEN spec[r]
                    ELSE IF isPrefill[r] THEN 0 ELSE drafts]
    /\ UNCHANGED <<queueVars, computed, out, placeholders, inflight, stale, dropStale, isPrefill,
                   wasPreempted, lastSeq, blockVars, seqVars, setVars, passVars, todo, loading,
                   slots, wpos, resets>>
-----------------------------------------------------------------------------
(* Calls from outside.                                                     *)

AddRequest(r) ==
    /\ pc = "idle" /\ status[r] = "NEW"
    /\ reqs' = reqs \cup {r}
    /\ status' = [status EXCEPT ![r] = "WAITING"]
    /\ waiting' = Append(waiting, r)
    /\ UNCHANGED <<skipped, running, tokenVars, blockVars, seqVars, setVars, pc, passVars, todo,
                   workerVars, resets>>

\* finish_requests: a running load keeps the blocks of its request.
AbortRequest(r) ==
    /\ pc = "idle" /\ r \in reqs /\ ~IsFinished(r)
    /\ Dequeue(r)
    /\ finishedRecving' = finishedRecving \ {r}
    /\ FreeRequest(r, LoadPending(r))
    /\ UNCHANGED <<tokenVars, seqVars, preemptedIds, pc, passVars, todo, workerVars, resets>>

\* reset_prefix_cache(reset_running_requests=True): preempt from the tail.
ResetStart ==
    /\ pc = "idle" /\ resets < MaxResets
    /\ resets' = resets + 1 /\ pc' = "reset"
    /\ UNCHANGED <<queueVars, tokenVars, blockVars, seqVars, setVars, passVars, todo, workerVars>>

ResetPreempt ==
    /\ pc = "reset" /\ running # <<>>
    /\ Preempt(running[Len(running)], TRUE)
    /\ UNCHANGED <<pc, passVars, resets>>

\* The pool (external) refuses the reset while a block is in use; the call
\* then raises and the engine goes on.
ResetSucceeds == free = Blocks

ResetEnd ==
    /\ pc = "reset" /\ running = <<>>
    /\ pc' = "idle"
    /\ UNCHANGED <<queueVars, tokenVars, blockVars, seqVars, setVars, passVars, todo,
                   workerVars, resets>>

\* Every request came and went; the engine waits for input.
Quiescent ==
    /\ pc = "idle" /\ batches = <<>> /\ ~HasRequests
    /\ \A r \in Req : IsFinished(r)
    /\ UNCHANGED vars
-----------------------------------------------------------------------------
ScheduleStep ==
    \/ RunningSkip \/ RunningSchedule
    \/ \E v \in Req : RunningPreempt(v)
    \/ RunningEnd
    \/ \E r \in Req : \/ WaitingSkip(r) \/ WaitingPromote(r) \/ WaitingAdmit(r)
                      \/ WaitingLoadRemote(r) \/ WaitingBlocked(r)
    \/ WaitingEnd
    \/ ScheduleFinish

UpdateStep ==
    \/ \E r \in Req : UpdateDiscard(r) \/ UpdateDeliver(r)
    \/ UpdateFinish

Next ==
    \/ ScheduleStart \/ ScheduleStep
    \/ UpdateStart \/ UpdateStep
    \/ \E r \in Req : KVXferFinished(r) \/ AddRequest(r) \/ AbortRequest(r)
    \/ ResetStart \/ ResetPreempt \/ ResetEnd
    \/ Quiescent

Spec == Init /\ [][Next]_vars

\* The engine loop keeps calling schedule() and update_from_output(), both
\* of which return, and a load that was started arrives.
Fairness ==
    /\ WF_vars(ScheduleStart) /\ WF_vars(ScheduleStep)
    /\ WF_vars(UpdateStart) /\ WF_vars(UpdateStep)
    /\ \A r \in Req : SF_vars(KVXferFinished(r))
    /\ WF_vars(ResetPreempt \/ ResetEnd)

FairSpec == Spec /\ Fairness
=============================================================================
